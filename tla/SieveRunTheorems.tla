-------------------------- MODULE SieveRunTheorems --------------------------
(***************************************************************************)
(* What the loops of one K reach and what a run of them reports, in each   *)
(* of the eleven variants: SieveTheorems goes as far as one n59 and one    *)
(* iteration, this module to the last.                                     *)
(*                                                                         *)
(* CInv adds to the invariant the residue class that every counter of the  *)
(* loops stands for.  With it no two places of the loops have the same n59 *)
(* (PlaceUnique).  RInv adds Ran, how far the walk over places, iterations,*)
(* parts and bits has come: the report holds, once each, the windows of    *)
(* the places and shifts passed so far that no prime divides.  A window    *)
(* passes when the groups together look up every prime that the test after *)
(* them leaves out (GroupsCover, PassesIs) and the bits of the words are   *)
(* the shifts of the iteration (BitsCover).                                *)
(***************************************************************************)
EXTENDS SieveTheorems, FiniteSetTheorems

-----------------------------------------------------------------------------
\* The residue classes of the loops.

\* The literals of the header as numbers.
LEMMA NumbersAre ==
  /\ Modulus = 258559632607830 /\ Val(PRIM23) = 223092870
  /\ Val(N0) = 106990415896110 /\ Val(N30) = 94805198622871
  /\ Val(S3) = 172373088405220 /\ Val(S5) = 51711926521566
  /\ Val(PRES2) = 16681266619860 /\ Val(PRES3) = 181690552643340
  /\ Val(PRES4) = 132432982555230 /\ Val(PRES5) = 126273308948010
  /\ Val(PRES6) = 115526644356690 /\ Val(PRES7) = 48784836341100
  /\ Val(PRES8) = 100794433050510
<1>1. Million = 1000000
  BY SMT DEF Million
<1>2. Modulus = 258559632607830
  BY <1>1, SMT DEF Modulus, Decimal
<1>3. 223092870 \in Nat /\ 223092870 < B * B
  BY SMT DEF B
<1>4. Val(PRIM23) = 223092870
  BY <1>3, SmallIs DEF PRIM23
<1>5. /\ Val(N0) = Decimal(106, 990415, 896110) /\ Val(N30) = Decimal(94, 805198, 622871)
      /\ Val(S3) = Decimal(172, 373088, 405220) /\ Val(S5) = Decimal(51, 711926, 521566)
  BY <1>1, LiteralIs, SMT DEF N0, N30, S3, S5
<1>6. /\ Val(PRES2) = Decimal(16, 681266, 619860) /\ Val(PRES3) = Decimal(181, 690552, 643340)
      /\ Val(PRES4) = Decimal(132, 432982, 555230) /\ Val(PRES5) = Decimal(126, 273308, 948010)
  BY <1>1, LiteralIs, SMT DEF PRES2, PRES3, PRES4, PRES5
<1>7. /\ Val(PRES6) = Decimal(115, 526644, 356690) /\ Val(PRES7) = Decimal(48, 784836, 341100)
      /\ Val(PRES8) = Decimal(100, 794433, 50510)
  BY <1>1, LiteralIs, SMT DEF PRES6, PRES7, PRES8
<1>8. /\ Val(N0) = 106990415896110 /\ Val(N30) = 94805198622871
      /\ Val(S3) = 172373088405220 /\ Val(S5) = 51711926521566
  BY <1>1, <1>5, SMT DEF Decimal
<1>9. /\ Val(PRES2) = 16681266619860 /\ Val(PRES3) = 181690552643340
      /\ Val(PRES4) = 132432982555230 /\ Val(PRES5) = 126273308948010
  BY <1>1, <1>6, SMT DEF Decimal
<1>10. /\ Val(PRES6) = 115526644356690 /\ Val(PRES7) = 48784836341100
       /\ Val(PRES8) = 100794433050510
  BY <1>1, <1>7, SMT DEF Decimal
<1> QED
  BY <1>2, <1>4, <1>8, <1>9, <1>10

\* The K that will_search lets through (the PRIME1 to PRIME8 of mainconst.h do not
\* divide them), up to the limit that the sources give for the products of the
\* prologue (S37 K max, cuda/AP26.h:99).
LoopPrimes == {29, 31, 37, 41, 43, 47, 53, 59}
LastK == 1048929854
Searched == {K \in Nat \ {0} : K <= LastK /\ \A p \in LoopPrimes : K % p # 0}

\* The products of c*K reduced by parts, and N30 on top, stay in 64 bits.
Fits(c) ==
  /\ Val(c) * 17835 < W
  /\ Val(c) * 17834 + ((Val(c) * 17835) % Modulus) * 58812 + Val(N30) < W

\* Literals of 64 bits are compared in units that keep every number below 2^62.
Unit == 1000 * (Million * Million)
LEMMA UnitIs == Unit \in Nat /\ 18446 * Unit < W /\ 94805198622871 <= Unit
<1> DEFINE c == Million
<1>1. c \in Nat /\ Unit = 1000 * (c * c) /\ W = (18446744 * c + 73709) * c + 551616
  BY SizeIs, MillionIs DEF Unit
<1>2. 94805198622871 <= Unit
  BY SMT DEF Unit, Million
<1> HIDE DEF c
<1>3. Unit \in Nat
  BY <1>1, SMT
<1>4. 0 <= c * c /\ c * c \in Int
  BY <1>1, SMT
<1> DEFINE d == c * c
<1>5. W = 18446744 * d + 73709 * c + 551616
  BY <1>1, SMT
<1> HIDE DEF d
<1>6. Unit = 1000 * d /\ d \in Int /\ 0 <= d
  BY <1>1, <1>4 DEF d
<1>7. 18446 * Unit < W
  BY <1>1, <1>5, <1>6, SMT
<1> QED
  BY <1>2, <1>3, <1>7

Within(c, a, b) ==
  /\ a + 4 * b < 18446
  /\ Val(c) * 17835 <= a * Unit /\ ((Val(c) * 17835) % Modulus) * 14703 <= b * Unit
LEMMA FitIs ==
  ASSUME NEW c \in UInt64, NEW a \in Nat, NEW b \in Nat, Within(c, a, b)
  PROVE  Fits(c)
<1> DEFINE n == Val(N30)
           k == Val(c)
           d == (k * 17835) % Modulus
           u == Unit
           w == W
<1>1. u \in Nat /\ 18446 * u < w /\ n <= u /\ n \in Nat /\ w \in Nat /\ k \in Nat
  BY UnitIs, Sizes, Words, ConstantsAre, NumbersAre, SMT
<1>2. d \in Nat
  <2> DEFINE e == k * 17835
  <2>1. e \in Int /\ Modulus \in Nat \ {0}
    BY <1>1, ModulusIs, SMT
  <2>2. d = e % Modulus
    OBVIOUS
  <2> HIDE DEF d, e
  <2>3. e % Modulus \in 0 .. Modulus - 1
    BY <2>1, CongruentRemainder
  <2> QED
    BY <2>1, <2>2, <2>3, SMT
<1>3. a + 4 * b < 18446 /\ k * 17835 <= a * u /\ d * 14703 <= b * u
  BY DEF Within
<1> HIDE DEF n, k, d, u, w
<1>4. d * 58812 = 4 * (d * 14703) /\ k * 17834 <= k * 17835
  BY <1>1, <1>2, SMT
<1>5. (a + 4 * b + 1) * u <= 18446 * u
  BY <1>1, <1>3, SMT
<1>6. (a + 4 * b + 1) * u = a * u + 4 * (b * u) + u
  BY <1>1, SMT
<1> DEFINE x == k * 17835
           y == k * 17834
           z == d * 14703
           s == a * u
           t == b * u
<1>7. x \in Nat /\ y \in Nat /\ z \in Nat /\ s \in Nat /\ t \in Nat
  BY <1>1, <1>2, SMT
<1> HIDE DEF x, y, z, s, t
<1>8. x <= s /\ z <= t /\ y <= x /\ s + 4 * t + u < w
  <2>1. s + 4 * t + u = (a + 4 * b + 1) * u
    BY <1>6 DEF s, t
  <2> QED
    BY <1>1, <1>3, <1>4, <1>5, <1>7, <2>1, SMT DEF x, y, z, s, t
<1>9. x < w /\ y + 4 * z + n < w
  BY <1>1, <1>7, <1>8, SMT
<1>10. k * 17835 < w /\ k * 17834 + d * 58812 + n < w
  BY <1>4, <1>9 DEF x, y, z
<1> QED
  BY <1>10 DEF Fits, n, k, d, w

LEMMA ConstantsFit ==
  \A c \in {N0, PRES2, PRES3, PRES4, PRES5, PRES6, PRES7, PRES8} : c \in UInt64 /\ Fits(c)
<1>1. Fits(N0)
  <2>1. (Val(N0) * 17835) % Modulus = 3978861336450
    BY NumbersAre, SMT
  <2>2. Within(N0, 1909, 59)
    BY <2>1, NumbersAre, SMT DEF Within, Unit, Million
  <2> QED
    BY <2>2, ConstantsAre, FitIs, SMT
<1>2. Fits(PRES2)
  <2>1. (Val(PRES2) * 17835) % Modulus = 166812666198600
    BY NumbersAre, SMT
  <2>2. Within(PRES2, 298, 2453)
    BY <2>1, NumbersAre, SMT DEF Within, Unit, Million
  <2> QED
    BY <2>2, ConstantsAre, FitIs, SMT
<1>3. Fits(PRES3)
  <2>1. (Val(PRES3) * 17835) % Modulus = 181690552643340
    BY NumbersAre, SMT
  <2>2. Within(PRES3, 3241, 2672)
    BY <2>1, NumbersAre, SMT DEF Within, Unit, Million
  <2> QED
    BY <2>2, ConstantsAre, FitIs, SMT
<1>4. Fits(PRES4)
  <2>1. (Val(PRES4) * 17835) % Modulus = 0
    BY NumbersAre, SMT
  <2>2. Within(PRES4, 2362, 0)
    BY <2>1, NumbersAre, SMT DEF Within, Unit, Million
  <2> QED
    BY <2>2, ConstantsAre, FitIs, SMT
<1>5. Fits(PRES5)
  <2>1. (Val(PRES5) * 17835) % Modulus = 30065073559050
    BY NumbersAre, SMT
  <2>2. Within(PRES5, 2253, 443)
    BY <2>1, NumbersAre, SMT DEF Within, Unit, Million
  <2> QED
    BY <2>2, ConstantsAre, FitIs, SMT
<1>6. Fits(PRES6)
  <2>1. (Val(PRES6) * 17835) % Modulus = 214549482376710
    BY NumbersAre, SMT
  <2>2. Within(PRES6, 2061, 3155)
    BY <2>1, NumbersAre, SMT DEF Within, Unit, Million
  <2> QED
    BY <2>2, ConstantsAre, FitIs, SMT
<1>7. Fits(PRES7)
  <2>1. (Val(PRES7) * 17835) % Modulus = 24392418170550
    BY NumbersAre, SMT
  <2>2. Within(PRES7, 871, 359)
    BY <2>1, NumbersAre, SMT DEF Within, Unit, Million
  <2> QED
    BY <2>2, ConstantsAre, FitIs, SMT
<1>8. Fits(PRES8)
  <2>1. (Val(PRES8) * 17835) % Modulus = 162147566211690
    BY NumbersAre, SMT
  <2>2. Within(PRES8, 1798, 2385)
    BY <2>1, NumbersAre, SMT DEF Within, Unit, Million
  <2> QED
    BY <2>2, ConstantsAre, FitIs, SMT
<1> QED
  BY <1>1, <1>2, <1>3, <1>4, <1>5, <1>6, <1>7, <1>8, ConstantsAre

\* The reduction by parts is the product modulo MOD.
LEMMA PartsAre ==
  ASSUME NEW c \in UInt64, Fits(c), NEW K \in Searched
  PROVE  /\ Parts(c, K) \in UInt64 /\ Val(Parts(c, K)) + Val(N30) < W
         /\ Congruent(Val(Parts(c, K)), Val(c) * K, Modulus)
<1> DEFINE z == 17835
           x == K % z
           y == K \div z
           C == Val(c)
           d == (C * z) % Modulus
<1>1. K = z * y + x /\ x \in Nat /\ x <= 17834 /\ y \in Nat /\ y <= 58812
  <2>1. K \in Nat /\ K <= LastK
    BY DEF Searched
  <2> QED
    BY <2>1, SMT DEF LastK
<1>2. z \in 0 .. INT_MAX /\ x \in 0 .. INT_MAX /\ y \in 0 .. INT_MAX
  <2>1. INT_MAX \in Nat /\ 58812 <= INT_MAX
    BY SMT DEF INT_MAX
  <2> HIDE DEF x, y
  <2> QED
    BY <1>1, <2>1, SMT
<1>3. /\ Small(z) \in UInt64 /\ Val(Small(z)) = z /\ Small(x) \in UInt64 /\ Val(Small(x)) = x
      /\ Small(y) \in UInt64 /\ Val(Small(y)) = y
  BY <1>2, IntIs
<1>4. C \in Nat /\ C * z < W /\ C * 17834 + d * 58812 + Val(N30) < W /\ Val(N30) \in Nat /\ W \in Nat
  BY Words, ConstantsAre, Sizes DEF Fits
<1>5. C * z \in Int /\ Modulus \in Nat \ {0}
  BY <1>4, ModulusIs, SMT
<1>6. d \in Nat /\ Congruent(d, C * z, Modulus)
  <2> HIDE DEF z, C
  <2>1. d \in 0 .. Modulus - 1 /\ Congruent(d, C * z, Modulus)
    BY <1>5, CongruentRemainder
  <2> HIDE DEF d
  <2> QED
    BY <1>5, <2>1, SMT
<1>8. Parts(c, K) = Plus(Times(c, Small(x)), Times(Mod(Times(c, Small(z)), MOD), Small(y)))
  BY DEF Parts
<1> HIDE DEF x, y, d, C
<1>9. Times(c, Small(z)) \in UInt64 /\ Val(Times(c, Small(z))) = C * z
  BY <1>3, <1>4, TimesExact DEF C
<1> DEFINE m == Mod(Times(c, Small(z)), MOD)
<1>10. m \in UInt64 /\ Val(m) = d
  BY <1>9, ReducedIs DEF d, Below
<1> HIDE DEF m, z
<1>11. C * x \in Nat /\ d * y \in Nat /\ C * x + d * y + Val(N30) < W
  <2>1. C * x <= C * 17834 /\ d * y <= d * 58812
    BY <1>1, <1>4, <1>6, SMT
  <2>2. C * x \in Nat /\ d * y \in Nat
    BY <1>1, <1>4, <1>6, ProductType
  <2> QED
    BY <1>4, <1>6, <2>1, <2>2, SMT
<1>12. C * x < W /\ d * y < W /\ C * x + d * y < W
  BY <1>4, <1>11, SMT
<1>13. Times(c, Small(x)) \in UInt64 /\ Val(Times(c, Small(x))) = C * x
  BY <1>3, <1>12, TimesExact DEF C
<1>14. Times(m, Small(y)) \in UInt64 /\ Val(Times(m, Small(y))) = d * y
  BY <1>3, <1>10, <1>12, TimesExact
<1>15. Parts(c, K) \in UInt64 /\ Val(Parts(c, K)) = C * x + d * y
  BY <1>8, <1>12, <1>13, <1>14, PlusExact DEF m
<1>16. Congruent(C * x + d * y, C * K, Modulus)
  <2>1. PICK t \in Int : d = C * z + t * Modulus
    BY <1>6 DEF Congruent
  <2>2. z \in Int
    BY SMT DEF z
  <2>3. C * x + d * y = C * K + (t * y) * Modulus /\ t * y \in Int
    <3>1. C * K = C * (z * y) + C * x
      BY <1>1, <1>4, <2>2, SMT DEF z
    <3>2. d * y = C * (z * y) + (t * y) * Modulus
      BY <1>1, <1>4, <1>5, <2>1, <2>2, SMT
    <3> DEFINE a == C * (z * y)
               b == (t * y) * Modulus
               e == C * x
               f == d * y
               h == C * K
    <3>3. a \in Int /\ b \in Int /\ e \in Int /\ f \in Int /\ h \in Int
      BY <1>1, <1>4, <1>5, <2>1, <2>2, SMT
    <3>4. t * y \in Int
      BY <1>1, SMT
    <3>5. h = a + e /\ f = a + b
      BY <3>1, <3>2
    <3> HIDE DEF a, b, e, f, h
    <3>6. e + f = h + b
      BY <3>3, <3>5, SMT
    <3> QED
      BY <3>4, <3>6 DEF b, e, f, h
  <2> QED
    BY <2>3 DEF Congruent
<1> QED
  BY <1>11, <1>15, <1>16 DEF C

LEMMA ScaledAre ==
  ASSUME NEW c \in UInt64, Fits(c), NEW K \in Searched
  PROVE  Below(Scaled(c, K)) /\ Congruent(Val(Scaled(c, K)), Val(c) * K, Modulus)
<1>1. Parts(c, K) \in UInt64 /\ Congruent(Val(Parts(c, K)), Val(c) * K, Modulus)
  BY PartsAre
<1>2. Below(Scaled(c, K)) /\ Val(Scaled(c, K)) = Val(Parts(c, K)) % Modulus
  BY <1>1, ReducedIs DEF Scaled
<1>3. /\ Val(Parts(c, K)) \in Int /\ Val(c) * K \in Int /\ Modulus \in Nat \ {0}
      /\ Val(Scaled(c, K)) \in Int
  <2>1. K \in Nat
    BY DEF Searched
  <2>2. Val(c) \in Nat /\ Val(Parts(c, K)) \in Nat /\ Val(Scaled(c, K)) \in Nat
    BY <1>1, <1>2, Words DEF Below
  <2> QED
    BY <2>1, <2>2, ModulusIs, ProductType, SMT
<1>4. Congruent(Val(Parts(c, K)) % Modulus, Val(Parts(c, K)), Modulus)
  BY <1>3, CongruentRemainder
<1>5. Congruent(Val(Scaled(c, K)), Val(Parts(c, K)), Modulus)
  BY <1>2, <1>4
<1>6. Modulus \in Int
  BY <1>3, SMT
<1> QED
  BY <1>1, <1>2, <1>3, <1>5, <1>6, CongruentTrans

-----------------------------------------------------------------------------
\* The prologue's locals are the products with K modulo MOD.
Products(p, K) ==
  /\ Val(p.STEP) = K * Val(PRIM23)
  /\ Congruent(Val(p.n0), Val(N0) * K + Val(N30), Modulus)
  /\ Congruent(Val(p.S31), Val(PRES2) * K, Modulus)
  /\ Congruent(Val(p.S37), Val(PRES3) * K, Modulus)
  /\ Congruent(Val(p.S41), Val(PRES4) * K, Modulus)
  /\ Congruent(Val(p.S43), Val(PRES5) * K, Modulus)
  /\ Congruent(Val(p.S47), Val(PRES6) * K, Modulus)
  /\ Congruent(Val(p.S53), Val(PRES7) * K, Modulus)
  /\ Congruent(Val(p.S59), Val(PRES8) * K, Modulus)

LEMMA SearchedIs ==
  ASSUME NEW K \in Searched
  PROVE  K \in 0 .. INT_MAX /\ K \in Nat
<1>1. K \in Nat /\ K <= LastK
  BY DEF Searched
<1>2. LastK <= INT_MAX /\ LastK \in Nat
  BY SMT DEF LastK, INT_MAX
<1> HIDE DEF LastK
<1> QED
  BY <1>1, <1>2, IntMaxIs, SMT

\* STEP is the product itself.
LEMMA StepProduct ==
  ASSUME NEW K \in Searched
  PROVE  /\ Times(Small(K), PRIM23) \in UInt64
         /\ Val(Times(Small(K), PRIM23)) = K * Val(PRIM23)
<1>1. Small(K) \in UInt64 /\ Val(Small(K)) = K /\ K \in Nat /\ K <= INT_MAX
  BY SearchedIs, IntIs, IntMaxIs, SMT
<1> DEFINE r == Val(PRIM23)
<1>2. r \in Nat /\ r < B * B /\ INT_MAX < B * B /\ INT_MAX * 8192 < B * B
  <2>1. 223092870 < B * B /\ INT_MAX * 8192 < B * B
    BY SMT DEF B, INT_MAX
  <2> QED
    BY <2>1, NumbersAre, IntMaxIs, SMT
<1>3. r <= 8192 * 65536 /\ Top = 65536
  BY NumbersAre, SMT DEF Top
<1>4. K * r < W
  <2> DEFINE b == B * B
  <2>1. W = Top * b /\ b \in Nat
    BY IntMaxIs DEF W
  <2> HIDE DEF b
  <2>2. K * r <= INT_MAX * (8192 * Top)
    <3> HIDE DEF r
    <3> DEFINE i == INT_MAX
               s == 8192 * Top
    <3>1. r <= s /\ s \in Nat /\ i \in Nat
      BY <1>3, IntMaxIs, SMT
    <3> HIDE DEF i, s
    <3>2. K * r <= i * r /\ i * r <= i * s
      BY <1>1, <1>2, <3>1, SMT DEF i
    <3> QED
      BY <1>1, <1>2, <3>1, <3>2, SMT DEF i, s
  <2>3. INT_MAX * (8192 * Top) = (INT_MAX * 8192) * Top /\ INT_MAX * 8192 < b /\ Top \in Nat \ {0}
    BY <1>2, IntMaxIs, Sizes, SMT DEF b
  <2> DEFINE x == K * r
             i == INT_MAX * 8192
  <2>4. x \in Int /\ i \in Int
    BY <1>1, <1>2, IntMaxIs, SMT
  <2>5. x <= i * Top /\ i < b
    BY <2>2, <2>3
  <2> HIDE DEF x, i, r
  <2>6. i * Top < b * Top
    BY <2>1, <2>3, <2>4, <2>5, SMT
  <2>7. x < Top * b
    BY <2>1, <2>3, <2>4, <2>5, <2>6, SMT
  <2> QED
    BY <2>1, <2>7 DEF x
<1> QED
  BY <1>1, <1>4, ConstantsAre, TimesExact

LEMMA ProductsAre ==
  ASSUME NEW u \in CPU \cup Kernel, NEW K \in Searched
  PROVE  Products(Prologue(u, K), K)
<1> DEFINE p == Prologue_sse2(K)
<1>1. Prologue(u, K) = p
  BY SMT DEF Prologue, Of, CPU, Kernel, Cuda, OpenCL, Prologue_sse2, Prologue_sse41, Prologue_avx,
     Prologue_avx2, Prologue_avx512, Prologue_cuda, Prologue_opencl
<1>2. /\ p.STEP = Times(Small(K), PRIM23) /\ p.n0 = Mod(Plus(Parts(N0, K), N30), MOD)
      /\ p.S31 = Scaled(PRES2, K) /\ p.S37 = Scaled(PRES3, K) /\ p.S41 = Scaled(PRES4, K)
      /\ p.S43 = Scaled(PRES5, K) /\ p.S47 = Scaled(PRES6, K) /\ p.S53 = Scaled(PRES7, K)
      /\ p.S59 = Scaled(PRES8, K)
  BY DEF Prologue_sse2
<1> HIDE DEF p
<1>3. Val(Times(Small(K), PRIM23)) = K * Val(PRIM23)
  BY StepProduct
<1>4. Congruent(Val(Mod(Plus(Parts(N0, K), N30), MOD)), Val(N0) * K + Val(N30), Modulus)
  <2>1. N0 \in UInt64 /\ Fits(N0) /\ N30 \in UInt64
    BY ConstantsFit, ConstantsAre
  <2> DEFINE a == Parts(N0, K)
             x == Val(a)
             y == Val(N0) * K
             n == Val(N30)
  <2>2. a \in UInt64 /\ x + n < W /\ Congruent(x, y, Modulus)
    BY <2>1, PartsAre
  <2> HIDE DEF a
  <2>3. Plus(a, N30) \in UInt64 /\ Val(Plus(a, N30)) = x + n
    BY <2>1, <2>2, PlusExact
  <2>4. Val(Mod(Plus(a, N30), MOD)) = (x + n) % Modulus
    BY <2>3, ReducedIs
  <2>5. x \in Int /\ y \in Int /\ n \in Int /\ Modulus \in Nat \ {0} /\ Modulus \in Int
    <3>1. x \in Nat /\ Val(N0) \in Nat /\ n \in Nat /\ K \in Nat
      BY <2>1, <2>2, Words, SearchedIs
    <3> QED
      BY <3>1, ProductType, ModulusIs, SMT
  <2> HIDE DEF x, y, n
  <2>6. Congruent(x + n, y + n, Modulus)
    BY <2>2, <2>5, CongruentSelf, CongruentSum
  <2>7. Congruent((x + n) % Modulus, x + n, Modulus) /\ (x + n) % Modulus \in Int
    <3>1. x + n \in Int
      BY <2>5
    <3>2. Congruent((x + n) % Modulus, x + n, Modulus) /\ (x + n) % Modulus \in 0 .. Modulus - 1
      BY <2>5, <3>1, CongruentRemainder
    <3> QED
      BY <2>5, <3>2, SMT
  <2>8. x + n \in Int /\ y + n \in Int
    BY <2>5
  <2>9. Congruent((x + n) % Modulus, y + n, Modulus)
    BY <2>5, <2>6, <2>7, <2>8, CongruentTrans
  <2> QED
    BY <2>4, <2>9 DEF a, x, y, n
<1>5. /\ Congruent(Val(Scaled(PRES2, K)), Val(PRES2) * K, Modulus)
      /\ Congruent(Val(Scaled(PRES3, K)), Val(PRES3) * K, Modulus)
      /\ Congruent(Val(Scaled(PRES4, K)), Val(PRES4) * K, Modulus)
      /\ Congruent(Val(Scaled(PRES5, K)), Val(PRES5) * K, Modulus)
      /\ Congruent(Val(Scaled(PRES6, K)), Val(PRES6) * K, Modulus)
      /\ Congruent(Val(Scaled(PRES7, K)), Val(PRES7) * K, Modulus)
      /\ Congruent(Val(Scaled(PRES8, K)), Val(PRES8) * K, Modulus)
  BY ConstantsFit, ScaledAre
<1> QED
  BY <1>1, <1>2, <1>3, <1>4, <1>5 DEF Products

\* The number that an entry e of n43_h and the counters a, b, c, d of the loops i43,
\* i47, i53, i59 stand for, modulo MOD.
Multiplier(e, a, b, c, d) ==
  Val(N0) + e[1] * Val(PRES2) + e[2] * Val(PRES3) + e[3] * Val(PRES4)
    + (19 - a) * Val(PRES5) + (23 - b) * Val(PRES6) + (29 - c) * Val(PRES7) + (35 - d) * Val(PRES8)
Offset(e) == Val(N30) + e[4] * Val(S3) + e[5] * Val(S5)
Place(K, e, a, b, c, d) == Offset(e) + K * Multiplier(e, a, b, c, d)

\* A few multiples of numbers below MOD stay in a word.
LEMMA TermIs ==
  ASSUME NEW k \in 0 .. 40, NEW S, Below(S)
  PROVE  /\ Times(Small(k), S) \in UInt64 /\ Val(Times(Small(k), S)) = k * Val(S)
         /\ k * Val(S) \in Nat /\ k * Val(S) <= k * Modulus
<1> DEFINE s == Val(S)
           m == Modulus
<1>1. S \in UInt64 /\ s \in Nat /\ s < m /\ m \in Nat
  BY Words, ModulusIs DEF Below
<1>2. k \in Nat /\ k \in 0 .. INT_MAX /\ k <= 40
  BY IntMaxIs, SMT
<1>3. Small(k) \in UInt64 /\ Val(Small(k)) = k
  BY <1>2, IntIs
<1>4. k * s \in Nat /\ k * s <= k * m /\ k * m <= 40 * m
  <2> HIDE DEF s, m
  <2> QED
    BY <1>1, <1>2, SMT
<1>5. 40 * m < W
  <2>1. m * Top < W /\ W \in Nat /\ Top \in Nat /\ 40 <= Top
    BY ModulusIs, Sizes, SMT DEF Divisor, Top
  <2> HIDE DEF m
  <2>2. m * 40 <= m * Top /\ m * 40 \in Nat /\ m * Top \in Nat
    BY <1>1, <2>1, SMT
  <2> QED
    BY <1>1, <2>1, <2>2, SMT
<1>6. k * s < W
  <2>1. k * m \in Int /\ W \in Int
    BY <1>1, <1>2, Sizes, SMT
  <2> HIDE DEF s, m
  <2> QED
    BY <1>1, <1>4, <1>5, <2>1, SMT
<1>7. Times(Small(k), S) \in UInt64 /\ Val(Times(Small(k), S)) = k * s
  BY <1>1, <1>3, <1>6, TimesExact
<1> QED
  BY <1>4, <1>7

\* A multiple of a number congruent to another.
LEMMA CongruentMultiple ==
  ASSUME NEW k \in Int, NEW x \in Int, NEW y \in Int, NEW m \in Int, Congruent(x, y, m)
  PROVE  Congruent(k * x, k * y, m)
BY CongruentSelf, CongruentProduct

\* t steps at once are t steps of the residue.
LEMMA AfterClass ==
  ASSUME NEW n, Below(n), NEW S, Below(S), NEW t \in 0 .. 40
  PROVE  Below(After(n, S, t)) /\ Congruent(Val(After(n, S, t)), Val(n) + t * Val(S), Modulus)
<1> DEFINE x == Val(n)
           y == t * Val(S)
           a == Times(Small(t), S)
           m == Modulus
<1>1. n \in UInt64 /\ x \in Nat /\ x < m /\ m \in Nat \ {0} /\ 100 * m < W /\ W \in Nat
  BY Words, HundredIs DEF Below
<1>2. a \in UInt64 /\ Val(a) = y /\ y \in Nat /\ y <= t * m
  BY TermIs
<1> HIDE DEF a, y, x, m
<1>3. x + y < W /\ x + y \in Int
  <2>1. t * m <= 40 * m /\ t * m \in Int /\ 40 * m \in Int
    BY <1>1, SMT
  <2> QED
    BY <1>1, <1>2, <2>1, SMT
<1>4. Plus(n, a) \in UInt64 /\ Val(Plus(n, a)) = x + y
  BY <1>1, <1>2, <1>3, PlusExact DEF x
<1>5. Below(Mod(Plus(n, a), MOD)) /\ Val(Mod(Plus(n, a), MOD)) = (x + y) % m
  BY <1>4, ReducedIs DEF m
<1>6. Congruent((x + y) % m, x + y, m)
  BY <1>1, <1>3, CongruentRemainder
<1> QED
  BY <1>5, <1>6 DEF After, a, x, y, m

\* One step is one step of the residue.
LEMMA AdvanceClass ==
  ASSUME NEW n, Below(n), NEW S, Below(S)
  PROVE  Congruent(Val(Advance(n, S)), Val(n) + Val(S), Modulus)
<1> DEFINE x == Val(n)
           y == Val(S)
           m == Modulus
<1>1. x \in Nat /\ y \in Nat /\ m \in Nat
  BY Words, ModulusIs DEF Below
<1>2. Val(Advance(n, S)) = Stepped(x, y, m)
  BY AdvanceIs
<1> HIDE DEF x, y, m
<1>3. Stepped(x, y, m) = x + y + 0 * m \/ Stepped(x, y, m) = x + y + (-1) * m
  BY <1>1, SMT DEF Stepped
<1>4. Congruent(Stepped(x, y, m), x + y, m)
  <2>1. 0 \in Int /\ -1 \in Int
    BY SMT
  <2> QED
    BY <1>3, <2>1 DEF Congruent
<1> QED
  BY <1>2, <1>4 DEF x, y, m

\* An entry of the table is where the loops begin.
LEMMA EntryClass ==
  ASSUME NEW u \in CPU \cup Kernel, NEW K \in Searched, NEW p, Locals(p), Products(p, K),
         NEW e \in Counters
  PROVE  Congruent(Val(N43(u, p, e)), Place(K, e, 19, 23, 29, 35), Modulus)
<1>1. N43(u, p, e) = n43_h_sse2(p, e)
  BY SMT DEF N43, Of, CPU, Kernel, Cuda, OpenCL, n43_h_sse2, n43_h_sse41, n43_h_avx,
     n43_h_avx2, n43_h_avx512, n43_h_cuda, n43_h_opencl
<1>2. /\ e[1] \in 0 .. 6 /\ e[2] \in 0 .. 12 /\ e[3] \in 0 .. 16 /\ e[4] \in 0 .. 1
      /\ e[5] \in 0 .. 3
  BY DEF Counters
<1> DEFINE t1 == Times(Small(e[1]), p.S31)
           t2 == Times(Small(e[2]), p.S37)
           t3 == Times(Small(e[3]), p.S41)
           t4 == Times(Small(e[4]), S3)
           t5 == Times(Small(e[5]), S5)
           a1 == Plus(p.n0, t4)
           a2 == Plus(a1, t5)
           b1 == Plus(t1, t2)
           b2 == Plus(b1, t3)
           m == Modulus
           x0 == Val(p.n0)
           x1 == e[1] * Val(p.S31)
           x2 == e[2] * Val(p.S37)
           x3 == e[3] * Val(p.S41)
           x4 == e[4] * Val(S3)
           x5 == e[5] * Val(S5)
<1>3. n43_h_sse2(p, e) = Mod(Plus(a2, b2), MOD)
  BY DEF n43_h_sse2
<1>4. Below(S3) /\ Below(S5) /\ Below(p.n0) /\ Below(p.S31) /\ Below(p.S37) /\ Below(p.S41)
  <2>1. Val(S3) < Modulus /\ Val(S5) < Modulus
    BY NumbersAre, SMT
  <2> QED
    BY <2>1, ConstantsAre DEF Below, Locals
<1>5. m \in Nat \ {0} /\ 100 * m < W /\ W \in Nat /\ x0 \in Nat /\ x0 < m /\ p.n0 \in UInt64
  BY <1>4, HundredIs, Words DEF Below
<1>6. /\ e[1] \in 0 .. 40 /\ e[2] \in 0 .. 40 /\ e[3] \in 0 .. 40 /\ e[4] \in 0 .. 40
      /\ e[5] \in 0 .. 40
  BY <1>2, SMT
<1>7. /\ t1 \in UInt64 /\ Val(t1) = x1 /\ x1 \in Nat /\ x1 <= e[1] * m
      /\ t2 \in UInt64 /\ Val(t2) = x2 /\ x2 \in Nat /\ x2 <= e[2] * m
      /\ t3 \in UInt64 /\ Val(t3) = x3 /\ x3 \in Nat /\ x3 <= e[3] * m
  BY <1>4, <1>6, TermIs
<1>8. /\ t4 \in UInt64 /\ Val(t4) = x4 /\ x4 \in Nat /\ x4 <= e[4] * m
      /\ t5 \in UInt64 /\ Val(t5) = x5 /\ x5 \in Nat /\ x5 <= e[5] * m
  BY <1>4, <1>6, TermIs
<1> HIDE DEF t1, t2, t3, t4, t5, x0, x1, x2, x3, x4, x5, m
<1>9. /\ e[1] * m <= 6 * m /\ e[2] * m <= 12 * m /\ e[3] * m <= 16 * m
      /\ e[4] * m <= 1 * m /\ e[5] * m <= 3 * m
      /\ e[1] * m \in Int /\ e[2] * m \in Int /\ e[3] * m \in Int /\ e[4] * m \in Int
      /\ e[5] * m \in Int
  BY <1>2, <1>5, SMT
<1>10. /\ x1 <= 6 * m /\ x2 <= 12 * m /\ x3 <= 16 * m /\ x4 <= m /\ x5 <= 3 * m
  BY <1>5, <1>7, <1>8, <1>9, SMT
<1>11. /\ x0 + x4 < W /\ x0 + x4 + x5 < W /\ x1 + x2 < W /\ x1 + x2 + x3 < W
       /\ (x0 + x4 + x5) + (x1 + x2 + x3) < W
  BY <1>5, <1>7, <1>8, <1>10, SMT
<1>12. a1 \in UInt64 /\ Val(a1) = x0 + x4
  BY <1>5, <1>8, <1>11, PlusExact DEF x0
<1> HIDE DEF a1
<1>13. a2 \in UInt64 /\ Val(a2) = x0 + x4 + x5
  BY <1>8, <1>11, <1>12, PlusExact
<1>14. b1 \in UInt64 /\ Val(b1) = x1 + x2
  BY <1>7, <1>11, PlusExact
<1> HIDE DEF b1
<1>15. b2 \in UInt64 /\ Val(b2) = x1 + x2 + x3
  BY <1>7, <1>11, <1>14, PlusExact
<1> HIDE DEF a2, b2
<1> DEFINE x == (x0 + x4 + x5) + (x1 + x2 + x3)
<1>16. Plus(a2, b2) \in UInt64 /\ Val(Plus(a2, b2)) = x
  BY <1>11, <1>13, <1>15, PlusExact
<1>17. x \in Int
  BY <1>5, <1>7, <1>8
<1> DEFINE k == K
           c0 == Val(N0)
           c1 == Val(PRES2)
           c2 == Val(PRES3)
           c3 == Val(PRES4)
           c30 == Val(N30)
<1>18. k \in Nat /\ c0 \in Nat /\ c1 \in Nat /\ c2 \in Nat /\ c3 \in Nat /\ c30 \in Nat
  BY Words, ConstantsAre, SearchedIs
<1>19. /\ Congruent(x0, c0 * k + c30, m)
       /\ Congruent(x1, e[1] * (c1 * k), m) /\ Congruent(x2, e[2] * (c2 * k), m)
       /\ Congruent(x3, e[3] * (c3 * k), m)
  <2>1. /\ Congruent(Val(p.n0), c0 * k + c30, m) /\ Congruent(Val(p.S31), c1 * k, m)
        /\ Congruent(Val(p.S37), c2 * k, m) /\ Congruent(Val(p.S41), c3 * k, m)
    BY DEF Products, m
  <2>2. /\ Val(p.S31) \in Int /\ Val(p.S37) \in Int /\ Val(p.S41) \in Int
        /\ c1 * k \in Int /\ c2 * k \in Int /\ c3 * k \in Int /\ m \in Int
        /\ e[1] \in Int /\ e[2] \in Int /\ e[3] \in Int
    <3>1. Val(p.S31) \in Nat /\ Val(p.S37) \in Nat /\ Val(p.S41) \in Nat
      BY <1>4, Words DEF Below
    <3>2. c1 * k \in Nat /\ c2 * k \in Nat /\ c3 * k \in Nat
      BY <1>18, ProductType
    <3> QED
      BY <1>2, <1>5, <3>1, <3>2, SMT
  <2> HIDE DEF c0, c1, c2, c3, c30, k
  <2>3. /\ Congruent(x1, e[1] * (c1 * k), m) /\ Congruent(x2, e[2] * (c2 * k), m)
        /\ Congruent(x3, e[3] * (c3 * k), m)
    BY <2>1, <2>2, CongruentMultiple DEF x1, x2, x3
  <2> QED
    BY <2>1, <2>3 DEF x0
<1> HIDE DEF c0, c1, c2, c3, c30, k
<1> DEFINE y == ((c0 * k + c30) + x4 + x5) + (e[1] * (c1 * k) + e[2] * (c2 * k) + e[3] * (c3 * k))
<1>20. Congruent(x, y, m)
  <2> DEFINE y0 == c0 * k + c30
             y1 == e[1] * (c1 * k)
             y2 == e[2] * (c2 * k)
             y3 == e[3] * (c3 * k)
  <2>1. y0 \in Int /\ y1 \in Int /\ y2 \in Int /\ y3 \in Int
    BY <1>2, <1>18, SMT
  <2>2. PICK s0 \in Int : x0 = y0 + s0 * m
    BY <1>19 DEF Congruent
  <2>3. PICK s1 \in Int : x1 = y1 + s1 * m
    BY <1>19 DEF Congruent
  <2>4. PICK s2 \in Int : x2 = y2 + s2 * m
    BY <1>19 DEF Congruent
  <2>5. PICK s3 \in Int : x3 = y3 + s3 * m
    BY <1>19 DEF Congruent
  <2> HIDE DEF y0, y1, y2, y3
  <2>6. x = ((y0 + x4 + x5) + (y1 + y2 + y3)) + (s0 + s1 + s2 + s3) * m
    BY <1>5, <1>8, <2>1, <2>2, <2>3, <2>4, <2>5, SMT
  <2>7. s0 + s1 + s2 + s3 \in Int
    OBVIOUS
  <2> QED
    BY <2>6, <2>7 DEF Congruent, y0, y1, y2, y3
<1>21. y = Place(K, e, 19, 23, 29, 35)
  <2> DEFINE r5 == Val(PRES5)
             r6 == Val(PRES6)
             r7 == Val(PRES7)
             r8 == Val(PRES8)
  <2>1. r5 \in Nat /\ r6 \in Nat /\ r7 \in Nat /\ r8 \in Nat
    BY Words, ConstantsAre
  <2>2. Place(K, e, 19, 23, 29, 35) =
          (c30 + x4 + x5) + k * (c0 + e[1] * c1 + e[2] * c2 + e[3] * c3
             + (19 - 19) * r5 + (23 - 23) * r6 + (29 - 29) * r7 + (35 - 35) * r8)
    BY DEF Place, Offset, Multiplier, c0, c1, c2, c3, c30, k, x4, x5
  <2> HIDE DEF r5, r6, r7, r8
  <2>3. /\ k * (c0 + e[1] * c1 + e[2] * c2 + e[3] * c3
             + (19 - 19) * r5 + (23 - 23) * r6 + (29 - 29) * r7 + (35 - 35) * r8)
         = c0 * k + e[1] * (c1 * k) + e[2] * (c2 * k) + e[3] * (c3 * k)
        /\ c0 * k \in Int /\ e[1] * (c1 * k) \in Int /\ e[2] * (c2 * k) \in Int /\ e[3] * (c3 * k) \in Int
    <3> DEFINE e1 == e[1]
               e2 == e[2]
               e3 == e[3]
    <3>1. e1 \in Int /\ e2 \in Int /\ e3 \in Int
      BY <1>2
    <3>2. (19 - 19) * r5 = 0 /\ (23 - 23) * r6 = 0 /\ (29 - 29) * r7 = 0 /\ (35 - 35) * r8 = 0
      BY <2>1, SMT
    <3> HIDE DEF e1, e2, e3
    <3>3. /\ c0 * k \in Int /\ c1 * k \in Int /\ c2 * k \in Int /\ c3 * k \in Int
          /\ e1 * c1 \in Int /\ e2 * c2 \in Int /\ e3 * c3 \in Int
      BY <1>18, <3>1, SMT
    <3>4. /\ k * (e1 * c1) = e1 * (c1 * k) /\ k * (e2 * c2) = e2 * (c2 * k)
          /\ k * (e3 * c3) = e3 * (c3 * k) /\ k * c0 = c0 * k
      BY <1>18, <3>1, SMT
    <3>5. /\ e1 * (c1 * k) \in Int /\ e2 * (c2 * k) \in Int /\ e3 * (c3 * k) \in Int
      BY <3>1, <3>3, SMT
    <3> DEFINE w1 == e1 * c1
               w2 == e2 * c2
               w3 == e3 * c3
    <3>6. k * (c0 + w1 + w2 + w3) = k * c0 + k * w1 + k * w2 + k * w3
      <4> HIDE DEF w1, w2, w3
      <4>1. w1 \in Int /\ w2 \in Int /\ w3 \in Int
        BY <3>3 DEF w1, w2, w3
      <4> QED
        BY <1>18, <4>1, SMT
    <3>7. c0 + w1 + w2 + w3 + 0 + 0 + 0 + 0 = c0 + w1 + w2 + w3
      BY <1>18, <3>3, SMT
    <3>8. k * (c0 + e1 * c1 + e2 * c2 + e3 * c3
             + (19 - 19) * r5 + (23 - 23) * r6 + (29 - 29) * r7 + (35 - 35) * r8)
           = c0 * k + e1 * (c1 * k) + e2 * (c2 * k) + e3 * (c3 * k)
      BY <3>2, <3>4, <3>6, <3>7
    <3> QED
      BY <3>3, <3>5, <3>8 DEF e1, e2, e3
  <2> DEFINE z0 == c0 * k
             z1 == e[1] * (c1 * k)
             z2 == e[2] * (c2 * k)
             z3 == e[3] * (c3 * k)
  <2>4. y = ((z0 + c30) + x4 + x5) + (z1 + z2 + z3)
    OBVIOUS
  <2>5. Place(K, e, 19, 23, 29, 35) = (c30 + x4 + x5) + (z0 + z1 + z2 + z3)
    BY <2>2, <2>3
  <2>6. z0 \in Int /\ z1 \in Int /\ z2 \in Int /\ z3 \in Int
    BY <2>3
  <2> HIDE DEF z0, z1, z2, z3, y
  <2> QED
    BY <1>8, <1>18, <2>4, <2>5, <2>6, SMT
<1>22. Val(Mod(Plus(a2, b2), MOD)) = x % m
  BY <1>16, ReducedIs DEF m
<1>23. Congruent(x % m, x, m) /\ x % m \in Int
  <2> HIDE DEF x
  <2>1. Congruent(x % m, x, m) /\ x % m \in 0 .. m - 1
    BY <1>5, <1>17, CongruentRemainder
  <2> QED
    BY <1>5, <2>1, SMT
<1>24. y \in Int /\ m \in Int
  <2> DEFINE y0 == c0 * k
             y1 == e[1] * (c1 * k)
             y2 == e[2] * (c2 * k)
             y3 == e[3] * (c3 * k)
  <2>1. y0 \in Int /\ y1 \in Int /\ y2 \in Int /\ y3 \in Int
    BY <1>2, <1>18, SMT
  <2>2. y = ((y0 + c30) + x4 + x5) + (y1 + y2 + y3)
    OBVIOUS
  <2> HIDE DEF y0, y1, y2, y3, y
  <2> QED
    BY <1>5, <1>8, <1>18, <2>1, <2>2, SMT
<1> HIDE DEF x, y
<1>25. Congruent(x % m, y, m)
  BY <1>17, <1>20, <1>23, <1>24, CongruentTrans
<1> QED
  BY <1>1, <1>3, <1>21, <1>22, <1>25 DEF m

-----------------------------------------------------------------------------
\* Where the loops stand.

\* A step of a loop adds its constant to the multiplier of K.
LEMMA MultiplierIs ==
  ASSUME NEW e \in Counters, NEW a \in Int, NEW b \in Int, NEW c \in Int, NEW d \in Int, NEW t \in Int
  PROVE  /\ Multiplier(e, a, b, c, d) \in Int
         /\ Multiplier(e, a - t, b, c, d) = Multiplier(e, a, b, c, d) + t * Val(PRES5)
         /\ Multiplier(e, a, b - t, c, d) = Multiplier(e, a, b, c, d) + t * Val(PRES6)
         /\ Multiplier(e, a, b, c - t, d) = Multiplier(e, a, b, c, d) + t * Val(PRES7)
         /\ Multiplier(e, a, b, c, d - t) = Multiplier(e, a, b, c, d) + t * Val(PRES8)
<1> DEFINE r5 == Val(PRES5)
           r6 == Val(PRES6)
           r7 == Val(PRES7)
           r8 == Val(PRES8)
           z == Val(N0) + e[1] * Val(PRES2) + e[2] * Val(PRES3) + e[3] * Val(PRES4)
<1>1. r5 \in Int /\ r6 \in Int /\ r7 \in Int /\ r8 \in Int
  BY NumbersAre, SMT
<1>2. z \in Int
  <2>1. e[1] \in Int /\ e[2] \in Int /\ e[3] \in Int
    BY DEF Counters
  <2>2. Val(N0) \in Int /\ Val(PRES2) \in Int /\ Val(PRES3) \in Int /\ Val(PRES4) \in Int
    BY NumbersAre, SMT
  <2> DEFINE w1 == e[1] * Val(PRES2)
             w2 == e[2] * Val(PRES3)
             w3 == e[3] * Val(PRES4)
  <2>3. w1 \in Int /\ w2 \in Int /\ w3 \in Int
    BY <2>1, <2>2
  <2> HIDE DEF w1, w2, w3
  <2> QED
    BY <2>2, <2>3 DEF w1, w2, w3
<1>3. \A h, i, j, k : Multiplier(e, h, i, j, k) =
        z + (19 - h) * r5 + (23 - i) * r6 + (29 - j) * r7 + (35 - k) * r8
  BY DEF Multiplier
<1> HIDE DEF r5, r6, r7, r8, z
<1> DEFINE y5 == (19 - a) * r5
           y6 == (23 - b) * r6
           y7 == (29 - c) * r7
           y8 == (35 - d) * r8
<1>4. /\ (19 - (a - t)) * r5 = y5 + t * r5 /\ (23 - (b - t)) * r6 = y6 + t * r6
      /\ (29 - (c - t)) * r7 = y7 + t * r7 /\ (35 - (d - t)) * r8 = y8 + t * r8
  BY <1>1, SMT
<1>5. y5 \in Int /\ y6 \in Int /\ y7 \in Int /\ y8 \in Int
  BY <1>1
<1>6. t * r5 \in Int /\ t * r6 \in Int /\ t * r7 \in Int /\ t * r8 \in Int
  BY <1>1
<1> DEFINE x5 == t * r5
           x6 == t * r6
           x7 == t * r7
           x8 == t * r8
<1>7. /\ Multiplier(e, a, b, c, d) = z + y5 + y6 + y7 + y8
      /\ Multiplier(e, a - t, b, c, d) = z + (y5 + x5) + y6 + y7 + y8
      /\ Multiplier(e, a, b - t, c, d) = z + y5 + (y6 + x6) + y7 + y8
      /\ Multiplier(e, a, b, c - t, d) = z + y5 + y6 + (y7 + x7) + y8
      /\ Multiplier(e, a, b, c, d - t) = z + y5 + y6 + y7 + (y8 + x8)
  BY <1>3, <1>4
<1>8. x5 \in Int /\ x6 \in Int /\ x7 \in Int /\ x8 \in Int
  BY <1>6
<1> HIDE DEF y5, y6, y7, y8, x5, x6, x7, x8
<1>9. /\ Multiplier(e, a, b, c, d) \in Int
      /\ Multiplier(e, a - t, b, c, d) = Multiplier(e, a, b, c, d) + x5
      /\ Multiplier(e, a, b - t, c, d) = Multiplier(e, a, b, c, d) + x6
      /\ Multiplier(e, a, b, c - t, d) = Multiplier(e, a, b, c, d) + x7
      /\ Multiplier(e, a, b, c, d - t) = Multiplier(e, a, b, c, d) + x8
  BY <1>2, <1>5, <1>7, <1>8, SMT
<1> QED
  BY <1>9 DEF x5, x6, x7, x8, r5, r6, r7, r8

LEMMA OffsetType == ASSUME NEW e \in Counters PROVE Offset(e) \in Int
<1>1. e[4] \in Int /\ e[5] \in Int
  BY DEF Counters
<1>2. Val(N30) \in Int /\ Val(S3) \in Int /\ Val(S5) \in Int
  BY NumbersAre, SMT
<1> QED
  BY <1>1, <1>2 DEF Offset

Moves(K, e, a, b, c, d, t) ==
  /\ Place(K, e, a - t, b, c, d) = Place(K, e, a, b, c, d) + t * (Val(PRES5) * K)
  /\ Place(K, e, a, b - t, c, d) = Place(K, e, a, b, c, d) + t * (Val(PRES6) * K)
  /\ Place(K, e, a, b, c - t, d) = Place(K, e, a, b, c, d) + t * (Val(PRES7) * K)
  /\ Place(K, e, a, b, c, d - t) = Place(K, e, a, b, c, d) + t * (Val(PRES8) * K)
LEMMA PlaceMoves ==
  ASSUME NEW K \in Nat, NEW e \in Counters, NEW a \in Int, NEW b \in Int, NEW c \in Int, NEW d \in Int,
         NEW t \in Int
  PROVE  Place(K, e, a, b, c, d) \in Int /\ Moves(K, e, a, b, c, d, t)
<1> DEFINE o == Offset(e)
           m == Multiplier(e, a, b, c, d)
<1>1. o \in Int /\ m \in Int
  BY OffsetType, MultiplierIs
<1>2. \A h, i, j, k : Place(K, e, h, i, j, k) = o + K * Multiplier(e, h, i, j, k)
  BY DEF Place
<1> HIDE DEF o
<1>3. ASSUME NEW r \in Int
      PROVE  o + K * (m + t * r) = (o + K * m) + t * (r * K)
  <2> HIDE DEF m
  <2>1. K * (m + t * r) = K * m + t * (r * K)
    BY <1>1, SMT
  <2>2. K * m \in Int /\ t * (r * K) \in Int
    BY <1>1
  <2> QED
    BY <1>1, <2>1, <2>2, SMT
<1>4. Val(PRES5) \in Int /\ Val(PRES6) \in Int /\ Val(PRES7) \in Int /\ Val(PRES8) \in Int
  BY NumbersAre, SMT
<1>5. o + K * m \in Int
  BY <1>1
<1>6. /\ Multiplier(e, a - t, b, c, d) = m + t * Val(PRES5)
      /\ Multiplier(e, a, b - t, c, d) = m + t * Val(PRES6)
      /\ Multiplier(e, a, b, c - t, d) = m + t * Val(PRES7)
      /\ Multiplier(e, a, b, c, d - t) = m + t * Val(PRES8)
  BY MultiplierIs
<1>7. Place(K, e, a, b, c, d) = o + K * m
  BY <1>2
<1> HIDE DEF m
<1>8. Place(K, e, a - t, b, c, d) = (o + K * m) + t * (Val(PRES5) * K)
  <2>1. Place(K, e, a - t, b, c, d) = o + K * Multiplier(e, a - t, b, c, d)
    BY <1>2
  <2>2. o + K * (m + t * Val(PRES5)) = (o + K * m) + t * (Val(PRES5) * K)
    BY <1>3, <1>4
  <2> QED
    BY <1>6, <2>1, <2>2
<1>9. Place(K, e, a, b - t, c, d) = (o + K * m) + t * (Val(PRES6) * K)
  <2>1. Place(K, e, a, b - t, c, d) = o + K * Multiplier(e, a, b - t, c, d)
    BY <1>2
  <2>2. o + K * (m + t * Val(PRES6)) = (o + K * m) + t * (Val(PRES6) * K)
    BY <1>3, <1>4
  <2> QED
    BY <1>6, <2>1, <2>2
<1>10. Place(K, e, a, b, c - t, d) = (o + K * m) + t * (Val(PRES7) * K)
  <2>1. Place(K, e, a, b, c - t, d) = o + K * Multiplier(e, a, b, c - t, d)
    BY <1>2
  <2>2. o + K * (m + t * Val(PRES7)) = (o + K * m) + t * (Val(PRES7) * K)
    BY <1>3, <1>4
  <2> QED
    BY <1>6, <2>1, <2>2
<1>11. Place(K, e, a, b, c, d - t) = (o + K * m) + t * (Val(PRES8) * K)
  <2>1. Place(K, e, a, b, c, d - t) = o + K * Multiplier(e, a, b, c, d - t)
    BY <1>2
  <2>2. o + K * (m + t * Val(PRES8)) = (o + K * m) + t * (Val(PRES8) * K)
    BY <1>3, <1>4
  <2> QED
    BY <1>6, <2>1, <2>2
<1> QED
  BY <1>5, <1>7, <1>8, <1>9, <1>10, <1>11 DEF Moves

\* Steps of a loop lead from one place to another.
LEMMA StepsPlace ==
  ASSUME NEW n, Below(n), NEW S, Below(S), NEW r \in Int, Congruent(Val(S), r, Modulus),
         NEW x \in Int, Congruent(Val(n), x, Modulus), NEW t \in 0 .. 40
  PROVE  /\ Congruent(Val(After(n, S, t)), x + t * r, Modulus)
         /\ Congruent(Val(Advance(n, S)), x + 1 * r, Modulus)
<1> DEFINE m == Modulus
           y == Val(n)
           s == Val(S)
<1>1. y \in Int /\ s \in Int /\ m \in Int /\ t \in Int
  BY Words, ModulusIs, SMT DEF Below
<1>2. Val(After(n, S, t)) \in Int /\ Val(Advance(n, S)) \in Int
  <2>1. After(n, S, t) \in UInt64 /\ Advance(n, S) \in UInt64
    BY AfterClass, AdvanceIs DEF Below
  <2> QED
    BY <2>1, Words
<1>3. /\ Congruent(Val(After(n, S, t)), y + t * s, m)
      /\ Congruent(Val(Advance(n, S)), y + s, m)
  BY AfterClass, AdvanceClass
<1>4. 1 * r = r
  BY SMT
<1> HIDE DEF m, y, s
<1>5. t * s \in Int /\ t * r \in Int
  BY <1>1
<1>6. Congruent(t * s, t * r, m)
  BY <1>1, CongruentMultiple DEF m, s
<1>7. Congruent(y + t * s, x + t * r, m) /\ Congruent(y + s, x + r, m)
  BY <1>1, <1>5, <1>6, CongruentSum DEF m, y, s
<1>8. y + t * s \in Int /\ x + t * r \in Int /\ y + s \in Int /\ x + r \in Int
  BY <1>1, <1>5
<1> QED
  BY <1>1, <1>2, <1>3, <1>4, <1>7, <1>8, CongruentTrans DEF m

\* n is the residue class of the counters a, b, c, d of the loops, from the sampled entry.
Located(n, a, b, c, d) == Congruent(Val(n), Place(start.K, start.entry, a, b, c, d), Modulus)

\* The K is one that is searched, and the locals are the products with it.
Multiplied == start.K \in Searched /\ (pc # "prepare" => Products(q, start.K))
\* Inside the loops every counter is one its loop runs through.
Turned ==
  pc = "row" \/ Walking =>
    /\ i43 \in 1 .. 19 /\ i47 \in 1 .. 23 /\ i53 \in 1 .. 29
    /\ Walking => i59 \in 1 .. 35
\* Every n has counted its own loop and those around it.
Placed ==
  pc = "row" \/ Walking =>
    /\ Located(n43, i43, 23, 29, 35) /\ Located(n47, i43, i47, 29, 35)
    /\ Located(n53, i43, i47, i53, 35)
    /\ Walking => Located(n59, i43, i47, i53, i59)

CInv == IInv /\ Multiplied /\ Turned /\ Placed

LEMMA InitCInv ==
  ASSUME \A s \in Samples : s[2].K \in Searched
  PROVE  Init => CInv
<1> SUFFICES ASSUME Init PROVE CInv
  OBVIOUS
<1>1. PICK s \in Samples : v = s[1] /\ start = s[2]
  BY DEF Init
<1>2. IInv /\ pc = "prepare" /\ start.K \in Searched
  BY <1>1, InitIInv DEF Init
<1>3. ~(pc = "row" \/ Walking)
  BY <1>2 DEF Walking
<1> QED
  BY <1>2, <1>3 DEF CInv, Multiplied, Turned, Placed

\* What the invariant says of the position, inside the loops and before them.
LEMMA PlaceIs ==
  ASSUME CInv
  PROVE  /\ v \in CPU \cup Kernel /\ start.K \in Searched /\ start.K \in Nat /\ start.entry \in Counters
         /\ start.i43 \in 1 .. 19 /\ start.i47 \in 1 .. 23 /\ start.i53 \in 1 .. 29
         /\ Numbered
<1>1. start.K \in Searched
  BY DEF CInv, Multiplied
<1> QED
  BY <1>1, PositionIs, SearchedIs DEF CInv, IInv, Sampled

\* The steps of the four loops.
LEMMA LoopSteps ==
  ASSUME CInv, pc # "prepare", NEW n, Below(n), NEW t \in 0 .. 40,
         NEW a \in Int, NEW b \in Int, NEW c \in Int, NEW d \in Int, Located(n, a, b, c, d)
  PROVE  /\ Located(After(n, q.S43, t), a - t, b, c, d) /\ Located(Advance(n, q.S43), a - 1, b, c, d)
         /\ Located(After(n, q.S47, t), a, b - t, c, d) /\ Located(Advance(n, q.S47), a, b - 1, c, d)
         /\ Located(After(n, q.S53, t), a, b, c - t, d) /\ Located(Advance(n, q.S53), a, b, c - 1, d)
         /\ Located(After(n, q.S59, t), a, b, c, d - t) /\ Located(Advance(n, q.S59), a, b, c, d - 1)
<1> DEFINE K == start.K
           e == start.entry
           x == Place(K, e, a, b, c, d)
<1>1. K \in Nat /\ e \in Counters
  BY PlaceIs
<1>2. Locals(q) /\ Products(q, K)
  BY DEF CInv, IInv, Filled, Multiplied
<1>3. Below(q.S43) /\ Below(q.S47) /\ Below(q.S53) /\ Below(q.S59)
  BY <1>2 DEF Locals
<1>4. /\ Congruent(Val(q.S43), Val(PRES5) * K, Modulus)
      /\ Congruent(Val(q.S47), Val(PRES6) * K, Modulus)
      /\ Congruent(Val(q.S53), Val(PRES7) * K, Modulus)
      /\ Congruent(Val(q.S59), Val(PRES8) * K, Modulus)
  BY <1>2 DEF Products
<1>5. /\ Val(PRES5) * K \in Int /\ Val(PRES6) * K \in Int /\ Val(PRES7) * K \in Int
      /\ Val(PRES8) * K \in Int
  <2>1. Val(PRES5) \in Int /\ Val(PRES6) \in Int /\ Val(PRES7) \in Int /\ Val(PRES8) \in Int
    BY NumbersAre, SMT
  <2> QED
    BY <1>1, <2>1
<1>6. Congruent(Val(n), x, Modulus)
  BY DEF Located
<1>7. t \in Int /\ 1 \in Int
  BY SMT
<1> HIDE DEF K, e
<1>8. x \in Int
  BY <1>1, <1>7, PlaceMoves
<1>9. Moves(K, e, a, b, c, d, t) /\ Moves(K, e, a, b, c, d, 1)
  BY <1>1, <1>7, PlaceMoves
<1>10. /\ Place(K, e, a - t, b, c, d) = x + t * (Val(PRES5) * K)
       /\ Place(K, e, a, b - t, c, d) = x + t * (Val(PRES6) * K)
       /\ Place(K, e, a, b, c - t, d) = x + t * (Val(PRES7) * K)
       /\ Place(K, e, a, b, c, d - t) = x + t * (Val(PRES8) * K)
       /\ Place(K, e, a - 1, b, c, d) = x + 1 * (Val(PRES5) * K)
       /\ Place(K, e, a, b - 1, c, d) = x + 1 * (Val(PRES6) * K)
       /\ Place(K, e, a, b, c - 1, d) = x + 1 * (Val(PRES7) * K)
       /\ Place(K, e, a, b, c, d - 1) = x + 1 * (Val(PRES8) * K)
  BY <1>9 DEF Moves
<1> HIDE DEF x
<1>11. /\ Congruent(Val(After(n, q.S43, t)), x + t * (Val(PRES5) * K), Modulus)
       /\ Congruent(Val(Advance(n, q.S43)), x + 1 * (Val(PRES5) * K), Modulus)
  BY <1>3, <1>4, <1>5, <1>6, <1>8, StepsPlace
<1>12. /\ Congruent(Val(After(n, q.S47, t)), x + t * (Val(PRES6) * K), Modulus)
       /\ Congruent(Val(Advance(n, q.S47)), x + 1 * (Val(PRES6) * K), Modulus)
  BY <1>3, <1>4, <1>5, <1>6, <1>8, StepsPlace
<1>13. /\ Congruent(Val(After(n, q.S53, t)), x + t * (Val(PRES7) * K), Modulus)
       /\ Congruent(Val(Advance(n, q.S53)), x + 1 * (Val(PRES7) * K), Modulus)
  BY <1>3, <1>4, <1>5, <1>6, <1>8, StepsPlace
<1>14. /\ Congruent(Val(After(n, q.S59, t)), x + t * (Val(PRES8) * K), Modulus)
       /\ Congruent(Val(Advance(n, q.S59)), x + 1 * (Val(PRES8) * K), Modulus)
  BY <1>3, <1>4, <1>5, <1>6, <1>8, StepsPlace
<1> QED
  BY <1>10, <1>11, <1>12, <1>13, <1>14 DEF Located, K, e


LEMMA PrepareCInv == CInv /\ Prepare => CInv'
<1> SUFFICES ASSUME CInv, Prepare PROVE CInv'
  OBVIOUS
<1>1. IInv' /\ pc' = "begin" /\ q' = Prologue(v, start.K) /\ start' = start
  BY PrepareIInv DEF CInv, Prepare
<1>2. Multiplied'
  BY <1>1, PlaceIs, ProductsAre DEF Multiplied
<1>3. ~(pc' = "row" \/ Walking')
  BY <1>1 DEF Walking
<1> QED
  BY <1>1, <1>2, <1>3 DEF CInv, Turned, Placed

\* The loops begin at the entry and count to the sampled position.
LEMMA BeginCInv == CInv /\ Begin => CInv'
<1> SUFFICES ASSUME CInv, Begin PROVE CInv'
  OBVIOUS
<1> DEFINE s43 == 43 - 24 - start.i43
           s47 == 47 - 24 - start.i47
           s53 == 53 - 24 - start.i53
           n == N43(v, q, start.entry)
<1>1. /\ start' = start /\ q' = q /\ pc = "begin" /\ pc' = "row"
      /\ i43' = start.i43 /\ i47' = start.i47 /\ i53' = start.i53
      /\ n43' = After(n, q.S43, s43) /\ n47' = After(n43', q.S47, s47)
      /\ n53' = After(n47', q.S53, s53)
  BY DEF Begin, tables, PRIME5, PRIME6, PRIME7
<1>2. IInv'
  BY BeginIInv DEF CInv
<1>3. Below(n43') /\ Below(n47')
  BY <1>2 DEF IInv, Numbered
<1>4. /\ s43 \in 0 .. 40 /\ s47 \in 0 .. 40 /\ s53 \in 0 .. 40
      /\ 19 - s43 = start.i43 /\ 23 - s47 = start.i47 /\ 29 - s53 = start.i53
      /\ start.i43 \in Int /\ start.i47 \in Int /\ 19 \in Int /\ 23 \in Int /\ 29 \in Int /\ 35 \in Int
  BY PlaceIs, SMT
<1>5. Locals(q) /\ Products(q, start.K)
  BY <1>1 DEF CInv, IInv, Filled, Multiplied
<1>6. Below(n) /\ Located(n, 19, 23, 29, 35)
  BY <1>5, PlaceIs, N43Is, EntryClass DEF Located
<1> HIDE DEF n, s43, s47, s53
<1>7. Located(n43', start.i43, 23, 29, 35)
  <2>1. Located(After(n, q.S43, s43), 19 - s43, 23, 29, 35)
    BY <1>1, <1>4, <1>6, LoopSteps
  <2> QED
    BY <1>1, <1>4, <2>1
<1>8. Located(n47', start.i43, start.i47, 29, 35)
  <2>1. Located(After(n43', q.S47, s47), start.i43, 23 - s47, 29, 35)
    BY <1>1, <1>3, <1>4, <1>7, LoopSteps
  <2> QED
    BY <1>1, <1>4, <2>1
<1>9. Located(n53', start.i43, start.i47, start.i53, 35)
  <2>1. Located(After(n47', q.S53, s53), start.i43, start.i47, 29 - s53, 35)
    BY <1>1, <1>3, <1>4, <1>8, LoopSteps
  <2> QED
    BY <1>1, <1>4, <2>1
<1>10. ~Walking'
  BY <1>1 DEF Walking
<1>11. Multiplied'
  BY <1>1 DEF CInv, Multiplied
<1>12. Turned'
  BY <1>1, <1>10, PlaceIs DEF Turned
<1>13. Placed'
  BY <1>1, <1>7, <1>8, <1>9, <1>10 DEF Placed, Located
<1> QED
  BY <1>2, <1>11, <1>12, <1>13 DEF CInv

\* A row begins where n53 is.
LEMMA Row35CInv == CInv /\ Row35 => CInv'
<1> SUFFICES ASSUME CInv, Row35 PROVE CInv'
  OBVIOUS
<1>1. /\ start' = start /\ q' = q /\ pc = "row" /\ pc' = "look" /\ n59' = n53 /\ i59' = 59 - 24
      /\ i43' = i43 /\ i47' = i47 /\ i53' = i53 /\ n43' = n43 /\ n47' = n47 /\ n53' = n53
  BY DEF Row35, tables, PRIME8
<1>2. 59 - 24 = 35 /\ 35 \in 1 .. 35
  BY SMT
<1>3. i59' = 35
  BY <1>1, <1>2
<1>4. Turned /\ Placed
  BY DEF CInv
<1>5. Turned'
  BY <1>1, <1>2, <1>3, <1>4 DEF Turned
<1>6. Placed'
  BY <1>1, <1>3, <1>4 DEF Placed, Located
<1> QED
  BY <1>1, <1>5, <1>6, Row35IInv DEF CInv, Multiplied

\* While the tables are looked up and the bits are tested nothing moves.
LEMMA StandingCInv ==
  ASSUME CInv, Walking, IInv', pc' # "prepare", pc' # "row",
         start' = start, q' = q, i43' = i43, i47' = i47, i53' = i53, i59' = i59,
         n43' = n43, n47' = n47, n53' = n53, n59' = n59
  PROVE  CInv'
<1>1. pc # "prepare" /\ Turned /\ Placed /\ Multiplied
  BY DEF CInv, Walking
<1>2. Multiplied'
  BY <1>1 DEF Multiplied
<1>3. Turned'
  BY <1>1 DEF Turned
<1>4. Placed'
  BY <1>1 DEF Placed, Located
<1> QED
  BY <1>2, <1>3, <1>4 DEF CInv

LEMMA LookCInv == CInv /\ Look => CInv'
<1> SUFFICES ASSUME CInv, Look PROVE CInv'
  OBVIOUS
<1>1. /\ start' = start /\ q' = q /\ i43' = i43 /\ i47' = i47 /\ i53' = i53 /\ i59' = i59
      /\ n43' = n43 /\ n47' = n47 /\ n53' = n53 /\ n59' = n59 /\ pc = "look"
  BY DEF Look, tables
<1>2. pc' # "prepare" /\ pc' # "row"
  BY DEF Look, LeavePart
<1>3. IInv' /\ Walking
  BY <1>1, LookIInv DEF CInv, Walking
<1> QED
  BY <1>1, <1>2, <1>3, StandingCInv

LEMMA CheckCInv == CInv /\ Check => CInv'
<1> SUFFICES ASSUME CInv, Check PROVE CInv'
  OBVIOUS
<1>1. /\ start' = start /\ q' = q /\ i43' = i43 /\ i47' = i47 /\ i53' = i53 /\ i59' = i59
      /\ n43' = n43 /\ n47' = n47 /\ n53' = n53 /\ n59' = n59 /\ pc \in {"check", "bits"}
  BY DEF Check, tables
<1>2. pc' # "prepare" /\ pc' # "row"
  BY DEF Check, LeavePart
<1>3. IInv' /\ Walking
  BY <1>1, CheckIInv DEF CInv, Walking
<1> QED
  BY <1>1, <1>2, <1>3, StandingCInv

\* Inside a row only the innermost counter and n59 move, one step together.
LEMMA NextN59CInv == CInv /\ NextN59 => CInv'
<1> SUFFICES ASSUME CInv, NextN59 PROVE CInv'
  OBVIOUS
<1>1. /\ start' = start /\ q' = q /\ i43' = i43 /\ i47' = i47 /\ i53' = i53 /\ i59' = i59 - 1
      /\ n43' = n43 /\ n47' = n47 /\ n53' = n53 /\ n59' = Advance(n59, q.S59)
      /\ pc = "advance" /\ pc' = "look" /\ i59 > 1
  BY DEF NextN59, tables
<1>2. Turned /\ Placed /\ Walking /\ Below(n59)
  BY <1>1, PlaceIs DEF CInv, Walking, Numbered
<1>3. i43 \in Int /\ i47 \in Int /\ i53 \in Int /\ i59 \in Int /\ i59 - 1 \in 1 .. 35
  BY <1>1, <1>2, SMT DEF Turned
<1>4. Located(n59, i43, i47, i53, i59)
  BY <1>2 DEF Placed
<1>5. Located(Advance(n59, q.S59), i43, i47, i53, i59 - 1)
  <2>1. 0 \in 0 .. 40
    BY SMT
  <2> QED
    BY <1>1, <1>2, <1>3, <1>4, <2>1, LoopSteps
<1>6. Turned'
  BY <1>1, <1>2, <1>3 DEF Turned
<1>7. Placed'
  BY <1>1, <1>2, <1>5 DEF Placed, Located
<1> QED
  BY <1>1, <1>6, <1>7, NextN59IInv DEF CInv, Multiplied

\* At the end of a row a loop moves one step, and those inside it begin again.
LEMMA NextRowCInv == CInv /\ NextRow => CInv'
<1> SUFFICES ASSUME CInv, NextRow PROVE CInv'
  OBVIOUS
<1>1. start' = start /\ q' = q /\ pc = "advance" /\ pc' = "row" /\ i59 = 1
  BY DEF NextRow, NextN53, NextN47, NextN43, RowEnds, tables
<1>2. /\ Turned /\ Placed /\ Walking /\ ~Walking' /\ Below(n43) /\ Below(n47) /\ Below(n53)
      /\ IInv' /\ Multiplied'
  BY <1>1, PlaceIs, NextRowIInv DEF CInv, Walking, Numbered, Multiplied
<1>3. i43 \in 1 .. 19 /\ i47 \in 1 .. 23 /\ i53 \in 1 .. 29
  BY <1>2 DEF Turned
<1>4. /\ i43 \in Int /\ i47 \in Int /\ i53 \in Int /\ 23 \in Int /\ 29 \in Int /\ 35 \in Int
      /\ 0 \in 0 .. 40
  BY <1>3, SMT
<1>5. /\ Located(n43, i43, 23, 29, 35) /\ Located(n47, i43, i47, 29, 35)
      /\ Located(n53, i43, i47, i53, 35)
  BY <1>2 DEF Placed
<1>6. Turned' /\ Placed'
  <2>1. CASE NextN53
    <3>1. /\ i53 > 1 /\ i53' = i53 - 1 /\ i43' = i43 /\ i47' = i47 /\ n43' = n43 /\ n47' = n47
          /\ n53' = Advance(n53, q.S53)
      BY <2>1 DEF NextN53
    <3>2. Located(Advance(n53, q.S53), i43, i47, i53 - 1, 35)
      BY <1>1, <1>2, <1>4, <1>5, LoopSteps
    <3>3. i53' \in 1 .. 29
      BY <1>3, <3>1, SMT
    <3> QED
      BY <1>1, <1>2, <1>3, <1>5, <3>1, <3>2, <3>3 DEF Turned, Placed, Located
  <2>2. CASE NextN47
    <3>1. /\ i47 > 1 /\ i47' = i47 - 1 /\ i43' = i43 /\ i53' = 53 - 24 /\ n43' = n43
          /\ n47' = Advance(n47, q.S47) /\ n53' = n47'
      BY <2>2 DEF NextN47, PRIME7
    <3>2. Located(Advance(n47, q.S47), i43, i47 - 1, 29, 35)
      BY <1>1, <1>2, <1>4, <1>5, LoopSteps
    <3>3. i47' \in 1 .. 23 /\ i53' = 29 /\ 29 \in 1 .. 29
      BY <1>3, <3>1, SMT
    <3> QED
      BY <1>1, <1>2, <1>3, <1>5, <3>1, <3>2, <3>3 DEF Turned, Placed, Located
  <2>3. CASE NextN43
    <3>1. /\ i43 > 1 /\ i43' = i43 - 1 /\ i47' = 47 - 24 /\ i53' = 53 - 24
          /\ n43' = Advance(n43, q.S43) /\ n47' = n43' /\ n53' = n43'
      BY <2>3 DEF NextN43, PRIME6, PRIME7
    <3>2. Located(Advance(n43, q.S43), i43 - 1, 23, 29, 35)
      BY <1>1, <1>2, <1>4, <1>5, LoopSteps
    <3>3. i43' \in 1 .. 19 /\ i47' = 23 /\ 23 \in 1 .. 23 /\ i53' = 29 /\ 29 \in 1 .. 29
      BY <1>3, <3>1, SMT
    <3> QED
      BY <1>1, <1>2, <3>1, <3>2, <3>3 DEF Turned, Placed, Located
  <2> QED
    BY <2>1, <2>2, <2>3 DEF NextRow
<1> QED
  BY <1>2, <1>6 DEF CInv

LEMMA NextIterationCInv == CInv /\ NextIteration => CInv'
<1> SUFFICES ASSUME CInv, NextIteration PROVE CInv'
  OBVIOUS
<1>1. /\ start' = start /\ q' = q /\ pc = "advance" /\ pc' \in {"begin", "done"}
  BY DEF NextIteration, tables
<1>2. ~(pc' = "row" \/ Walking')
  BY <1>1 DEF Walking
<1>3. Turned' /\ Placed'
  BY <1>2 DEF Turned, Placed
<1> QED
  BY <1>1, <1>3, NextIterationIInv DEF CInv, Multiplied

LEMMA NextCInv == CInv /\ [Next]_vars => CInv'
<1> SUFFICES ASSUME CInv, [Next]_vars PROVE CInv'
  OBVIOUS
<1>1. CASE Prepare
  BY <1>1, PrepareCInv
<1>2. CASE Begin
  BY <1>2, BeginCInv
<1>3. CASE Row35
  BY <1>3, Row35CInv
<1>4. CASE Look
  BY <1>4, LookCInv
<1>5. CASE Check
  BY <1>5, CheckCInv
<1>6. CASE NextN59
  BY <1>6, NextN59CInv
<1>7. CASE NextRow
  BY <1>7, NextRowCInv
<1>8. CASE NextIteration
  BY <1>8, NextIterationCInv
<1>9. CASE UNCHANGED vars
  <2>1. IInv'
    BY <1>9, NextIInv DEF CInv
  <2> QED
    BY <1>9, <2>1 DEF vars, tables, CInv, Multiplied, Turned, Placed, Walking, Located
<1> QED
  BY <1>1, <1>2, <1>3, <1>4, <1>5, <1>6, <1>7, <1>8, <1>9 DEF Next, Done

LEMMA SpecCInv ==
  ASSUME \A s \in Samples : s[2].K \in Searched
  PROVE  Spec => []CInv
<1>1. Init => CInv
  BY InitCInv
<1>2. CInv /\ [Next]_vars => CInv'
  BY NextCInv
<1> QED
  BY <1>1, <1>2, PTL DEF Spec


-----------------------------------------------------------------------------
\* The classes modulo the small primes.

\* A sum of multiples of R is the multiple of the sum.
LEMMA WeightedSum ==
  ASSUME NEW y \in Int, NEW c \in Int, NEW a \in Int, NEW b \in Int, NEW t \in Int, NEW R \in Int,
         NEW p \in Int, Congruent(y, a * R, p), Congruent(c, b * R, p)
  PROVE  Congruent(y + t * c, (a + t * b) * R, p)
<1>1. a * R \in Int /\ b * R \in Int /\ t * c \in Int /\ t * (b * R) \in Int
  OBVIOUS
<1>2. Congruent(t * c, t * (b * R), p)
  BY <1>1, CongruentMultiple
<1>3. Congruent(y + t * c, a * R + t * (b * R), p)
  BY <1>1, <1>2, CongruentSum
<1>4. a * R + t * (b * R) = (a + t * b) * R
  BY SMT
<1> QED
  BY <1>3, <1>4

\* The constants of the header are multiples h[i] of PRIM23 modulo p.
Weights(p, h) ==
  /\ h \in [1 .. 8 -> Int]
  /\ Congruent(Val(N0), h[1] * Val(PRIM23), p) /\ Congruent(Val(PRES2), h[2] * Val(PRIM23), p)
  /\ Congruent(Val(PRES3), h[3] * Val(PRIM23), p) /\ Congruent(Val(PRES4), h[4] * Val(PRIM23), p)
  /\ Congruent(Val(PRES5), h[5] * Val(PRIM23), p) /\ Congruent(Val(PRES6), h[6] * Val(PRIM23), p)
  /\ Congruent(Val(PRES7), h[7] * Val(PRIM23), p) /\ Congruent(Val(PRES8), h[8] * Val(PRIM23), p)
Weight(h, e, a, b, c, d) ==
  h[1] + e[1] * h[2] + e[2] * h[3] + e[3] * h[4]
    + (19 - a) * h[5] + (23 - b) * h[6] + (29 - c) * h[7] + (35 - d) * h[8]

LEMMA MultiplierClass ==
  ASSUME NEW p \in Int, NEW h, Weights(p, h), NEW e \in Counters,
         NEW a \in Int, NEW b \in Int, NEW c \in Int, NEW d \in Int
  PROVE  /\ Weight(h, e, a, b, c, d) \in Int
         /\ Congruent(Multiplier(e, a, b, c, d), Weight(h, e, a, b, c, d) * Val(PRIM23), p)
<1> DEFINE R == Val(PRIM23)
           k0 == Val(N0)
           k1 == Val(PRES2)
           k2 == Val(PRES3)
           k3 == Val(PRES4)
           k4 == Val(PRES5)
           k5 == Val(PRES6)
           k6 == Val(PRES7)
           k7 == Val(PRES8)
           t1 == e[1]
           t2 == e[2]
           t3 == e[3]
           t4 == 19 - a
           t5 == 23 - b
           t6 == 29 - c
           t7 == 35 - d
<1>1. /\ R \in Int /\ k0 \in Int /\ k1 \in Int /\ k2 \in Int /\ k3 \in Int /\ k4 \in Int
      /\ k5 \in Int /\ k6 \in Int /\ k7 \in Int
  BY NumbersAre, SMT
<1>2. /\ t1 \in Int /\ t2 \in Int /\ t3 \in Int /\ t4 \in Int /\ t5 \in Int /\ t6 \in Int
      /\ t7 \in Int
  BY SMT DEF Counters
<1>3. /\ Congruent(k0, h[1] * R, p) /\ Congruent(k1, h[2] * R, p) /\ Congruent(k2, h[3] * R, p)
      /\ Congruent(k3, h[4] * R, p) /\ Congruent(k4, h[5] * R, p) /\ Congruent(k5, h[6] * R, p)
      /\ Congruent(k6, h[7] * R, p) /\ Congruent(k7, h[8] * R, p)
  BY DEF Weights
<1>4. /\ h[1] \in Int /\ h[2] \in Int /\ h[3] \in Int /\ h[4] \in Int /\ h[5] \in Int
      /\ h[6] \in Int /\ h[7] \in Int /\ h[8] \in Int
  BY SMT DEF Weights
<1>5. /\ Multiplier(e, a, b, c, d) =
           k0 + t1 * k1 + t2 * k2 + t3 * k3 + t4 * k4 + t5 * k5 + t6 * k6 + t7 * k7
      /\ Weight(h, e, a, b, c, d) = h[1] + t1 * h[2] + t2 * h[3] + t3 * h[4] + t4 * h[5]
                                      + t5 * h[6] + t6 * h[7] + t7 * h[8]
  BY DEF Multiplier, Weight
<1> HIDE DEF R, k0, k1, k2, k3, k4, k5, k6, k7, t1, t2, t3, t4, t5, t6, t7
<1> DEFINE y0 == k0
           z0 == h[1]
           y1 == y0 + t1 * k1
           z1 == z0 + t1 * h[2]
           y2 == y1 + t2 * k2
           z2 == z1 + t2 * h[3]
           y3 == y2 + t3 * k3
           z3 == z2 + t3 * h[4]
           y4 == y3 + t4 * k4
           z4 == z3 + t4 * h[5]
           y5 == y4 + t5 * k5
           z5 == z4 + t5 * h[6]
           y6 == y5 + t6 * k6
           z6 == z5 + t6 * h[7]
           y7 == y6 + t7 * k7
           z7 == z6 + t7 * h[8]
<1>6. y0 \in Int /\ z0 \in Int /\ Congruent(y0, z0 * R, p)
  BY <1>1, <1>3, <1>4
<1> HIDE DEF y0, z0
<1>7. y1 \in Int /\ z1 \in Int /\ Congruent(y1, z1 * R, p)
  <2>1. /\ k1 \in Int /\ h[2] \in Int /\ t1 \in Int /\ R \in Int
        /\ Congruent(k1, h[2] * R, p)
    BY <1>1, <1>2, <1>3, <1>4
  <2>2. Congruent(y0 + t1 * k1, (z0 + t1 * h[2]) * R, p)
    BY <1>6, <2>1, WeightedSum
  <2> QED
    BY <1>6, <2>1, <2>2
<1> HIDE DEF y1, z1
<1>8. y2 \in Int /\ z2 \in Int /\ Congruent(y2, z2 * R, p)
  <2>1. /\ k2 \in Int /\ h[3] \in Int /\ t2 \in Int /\ R \in Int
        /\ Congruent(k2, h[3] * R, p)
    BY <1>1, <1>2, <1>3, <1>4
  <2>2. Congruent(y1 + t2 * k2, (z1 + t2 * h[3]) * R, p)
    BY <1>7, <2>1, WeightedSum
  <2> QED
    BY <1>7, <2>1, <2>2
<1> HIDE DEF y2, z2
<1>9. y3 \in Int /\ z3 \in Int /\ Congruent(y3, z3 * R, p)
  <2>1. /\ k3 \in Int /\ h[4] \in Int /\ t3 \in Int /\ R \in Int
        /\ Congruent(k3, h[4] * R, p)
    BY <1>1, <1>2, <1>3, <1>4
  <2>2. Congruent(y2 + t3 * k3, (z2 + t3 * h[4]) * R, p)
    BY <1>8, <2>1, WeightedSum
  <2> QED
    BY <1>8, <2>1, <2>2
<1> HIDE DEF y3, z3
<1>10. y4 \in Int /\ z4 \in Int /\ Congruent(y4, z4 * R, p)
  <2>1. /\ k4 \in Int /\ h[5] \in Int /\ t4 \in Int /\ R \in Int
        /\ Congruent(k4, h[5] * R, p)
    BY <1>1, <1>2, <1>3, <1>4
  <2>2. Congruent(y3 + t4 * k4, (z3 + t4 * h[5]) * R, p)
    BY <1>9, <2>1, WeightedSum
  <2> QED
    BY <1>9, <2>1, <2>2
<1> HIDE DEF y4, z4
<1>11. y5 \in Int /\ z5 \in Int /\ Congruent(y5, z5 * R, p)
  <2>1. /\ k5 \in Int /\ h[6] \in Int /\ t5 \in Int /\ R \in Int
        /\ Congruent(k5, h[6] * R, p)
    BY <1>1, <1>2, <1>3, <1>4
  <2>2. Congruent(y4 + t5 * k5, (z4 + t5 * h[6]) * R, p)
    BY <1>10, <2>1, WeightedSum
  <2> QED
    BY <1>10, <2>1, <2>2
<1> HIDE DEF y5, z5
<1>12. y6 \in Int /\ z6 \in Int /\ Congruent(y6, z6 * R, p)
  <2>1. /\ k6 \in Int /\ h[7] \in Int /\ t6 \in Int /\ R \in Int
        /\ Congruent(k6, h[7] * R, p)
    BY <1>1, <1>2, <1>3, <1>4
  <2>2. Congruent(y5 + t6 * k6, (z5 + t6 * h[7]) * R, p)
    BY <1>11, <2>1, WeightedSum
  <2> QED
    BY <1>11, <2>1, <2>2
<1> HIDE DEF y6, z6
<1>13. y7 \in Int /\ z7 \in Int /\ Congruent(y7, z7 * R, p)
  <2>1. /\ k7 \in Int /\ h[8] \in Int /\ t7 \in Int /\ R \in Int
        /\ Congruent(k7, h[8] * R, p)
    BY <1>1, <1>2, <1>3, <1>4
  <2>2. Congruent(y6 + t7 * k7, (z6 + t7 * h[8]) * R, p)
    BY <1>12, <2>1, WeightedSum
  <2> QED
    BY <1>12, <2>1, <2>2
<1> QED
  BY <1>5, <1>13 DEF y0, y1, y2, y3, y4, y5, y6, z0, z1, z2, z3, z4, z5, z6, R

\* A number below 61 without factors below 8 is prime.
LEMMA LoopPrimeIs ==
  ASSUME NEW p \in 29 .. 59, p % 2 # 0, p % 3 # 0, p % 5 # 0, p % 7 # 0
  PROVE  p \in PrimesIn(7, 541) /\ p \in Nat \ {0} /\ 1 < p /\ \A d \in 2 .. p - 1 : p % d # 0
<1>1. p \in Nat \ {0} /\ 1 < p /\ p \in 2 .. 541 /\ 7 <= p /\ p <= 541
  BY SMT
<1>2. \A d \in 2 .. 7 : p % d # 0
  BY SMT
<1>3. ASSUME NEW d \in 2 .. p - 1, p % d = 0
      PROVE  FALSE
  <2> DEFINE c == p \div d
  <2>1. d \in Nat \ {0} /\ p \in Int
    BY <1>1, SMT
  <2>2. p = d * c + (p % d) /\ c \in Int
    BY <2>1, Division
  <2> HIDE DEF c
  <2>3. p = d * c
    BY <1>3, <2>1, <2>2, SMT
  <2>4. 2 <= c
    BY <1>1, <2>1, <2>2, <2>3, SMT
  <2>5. CASE d <= 7
    BY <1>2, <1>3, <2>1, <2>5, SMT
  <2>6. CASE d > 7
    <3>1. c <= 7
      BY <1>1, <2>1, <2>2, <2>3, <2>6, SMT
    <3>2. Congruent(p, 0, c)
      <4>1. p = 0 + d * c /\ d \in Int
        BY <2>1, <2>2, <2>3, SMT
      <4> QED
        BY <4>1 DEF Congruent
    <3>3. p % c = 0 % c /\ 0 % c = 0
      <4>1. c \in Nat \ {0} /\ 0 \in Int
        BY <2>2, <2>4, SMT
      <4>2. 0 % c = 0
        BY <4>1, SMT
      <4> QED
        BY <2>1, <3>2, <4>1, <4>2, SameRemainder
    <3>4. c \in 2 .. 7
      BY <2>2, <2>4, <3>1, SMT
    <3> QED
      BY <1>2, <3>3, <3>4
  <2>7. d <= 7 \/ d > 7
    BY <2>1, SMT
  <2> QED
    BY <2>5, <2>6, <2>7
<1>4. \A d \in 2 .. p - 1 : p % d # 0
  BY <1>3
<1> QED
  BY <1>1, <1>4, SMT DEF PrimesIn, Primes, IsPrime

\* Congruences are read off the remainders.
LEMMA WeightsBy ==
  ASSUME NEW p \in Nat \ {0}, NEW h \in [1 .. 8 -> Int],
         /\ Val(N0) % p = (h[1] * Val(PRIM23)) % p /\ Val(PRES2) % p = (h[2] * Val(PRIM23)) % p
         /\ Val(PRES3) % p = (h[3] * Val(PRIM23)) % p /\ Val(PRES4) % p = (h[4] * Val(PRIM23)) % p
         /\ Val(PRES5) % p = (h[5] * Val(PRIM23)) % p /\ Val(PRES6) % p = (h[6] * Val(PRIM23)) % p
         /\ Val(PRES7) % p = (h[7] * Val(PRIM23)) % p /\ Val(PRES8) % p = (h[8] * Val(PRIM23)) % p
  PROVE  Weights(p, h)
<1>1. /\ Val(N0) \in Int /\ Val(PRES2) \in Int /\ Val(PRES3) \in Int /\ Val(PRES4) \in Int
      /\ Val(PRES5) \in Int /\ Val(PRES6) \in Int /\ Val(PRES7) \in Int /\ Val(PRES8) \in Int
      /\ Val(PRIM23) \in Int
  BY NumbersAre, SMT
<1>2. \A i \in 1 .. 8 : h[i] * Val(PRIM23) \in Int
  BY <1>1
<1>3. /\ h[1] * Val(PRIM23) \in Int /\ h[2] * Val(PRIM23) \in Int /\ h[3] * Val(PRIM23) \in Int
      /\ h[4] * Val(PRIM23) \in Int /\ h[5] * Val(PRIM23) \in Int /\ h[6] * Val(PRIM23) \in Int
      /\ h[7] * Val(PRIM23) \in Int /\ h[8] * Val(PRIM23) \in Int
  BY <1>2, SMT
<1> QED
  BY <1>1, <1>3, SameRemainder DEF Weights

\* PRES2 to PRES8 are PRIM23 modulo their own prime and 0 modulo the other primes of
\* MOD, N0 is PRIM23 modulo every prime of the loops, thrice it modulo 29.
LEMMA WeightsAre ==
  /\ Weights(29, <<3, 0, 0, 0, 0, 0, 0, 0>>)
  /\ Weights(31, <<1, 1, 0, 0, 0, 0, 0, 0>>)
  /\ Weights(37, <<1, 0, 1, 0, 0, 0, 0, 0>>)
  /\ Weights(41, <<1, 0, 0, 1, 0, 0, 0, 0>>)
  /\ Weights(43, <<1, 0, 0, 0, 1, 0, 0, 0>>)
  /\ Weights(47, <<1, 0, 0, 0, 0, 1, 0, 0>>)
  /\ Weights(53, <<1, 0, 0, 0, 0, 0, 1, 0>>)
  /\ Weights(59, <<1, 0, 0, 0, 0, 0, 0, 1>>)
  /\ \A p \in {2, 3, 5} : Weights(p, <<0, 0, 0, 0, 0, 0, 0, 0>>)
<1>1. Weights(29, <<3, 0, 0, 0, 0, 0, 0, 0>>)
  <2> DEFINE h == <<3, 0, 0, 0, 0, 0, 0, 0>>
  <2>1. h \in [1 .. 8 -> Int] /\ h[1] = 3 /\ h[2] = 0 /\ h[3] = 0 /\ h[4] = 0
        /\ h[5] = 0 /\ h[6] = 0 /\ h[7] = 0 /\ h[8] = 0
    BY SMT
  <2>2. /\ Val(N0) % 29 = (3 * Val(PRIM23)) % 29 /\ Val(PRES2) % 29 = (0 * Val(PRIM23)) % 29
        /\ Val(PRES3) % 29 = (0 * Val(PRIM23)) % 29 /\ Val(PRES4) % 29 = (0 * Val(PRIM23)) % 29
        /\ Val(PRES5) % 29 = (0 * Val(PRIM23)) % 29 /\ Val(PRES6) % 29 = (0 * Val(PRIM23)) % 29
        /\ Val(PRES7) % 29 = (0 * Val(PRIM23)) % 29 /\ Val(PRES8) % 29 = (0 * Val(PRIM23)) % 29
    BY NumbersAre, SMT
  <2>3. 29 \in Nat \ {0}
    BY SMT
  <2> HIDE DEF h
  <2>4. Weights(29, h)
    BY <2>1, <2>2, <2>3, WeightsBy
  <2> QED
    BY <2>4 DEF h
<1>2. Weights(31, <<1, 1, 0, 0, 0, 0, 0, 0>>)
  <2> DEFINE h == <<1, 1, 0, 0, 0, 0, 0, 0>>
  <2>1. h \in [1 .. 8 -> Int] /\ h[1] = 1 /\ h[2] = 1 /\ h[3] = 0 /\ h[4] = 0
        /\ h[5] = 0 /\ h[6] = 0 /\ h[7] = 0 /\ h[8] = 0
    BY SMT
  <2>2. /\ Val(N0) % 31 = (1 * Val(PRIM23)) % 31 /\ Val(PRES2) % 31 = (1 * Val(PRIM23)) % 31
        /\ Val(PRES3) % 31 = (0 * Val(PRIM23)) % 31 /\ Val(PRES4) % 31 = (0 * Val(PRIM23)) % 31
        /\ Val(PRES5) % 31 = (0 * Val(PRIM23)) % 31 /\ Val(PRES6) % 31 = (0 * Val(PRIM23)) % 31
        /\ Val(PRES7) % 31 = (0 * Val(PRIM23)) % 31 /\ Val(PRES8) % 31 = (0 * Val(PRIM23)) % 31
    BY NumbersAre, SMT
  <2>3. 31 \in Nat \ {0}
    BY SMT
  <2> HIDE DEF h
  <2>4. Weights(31, h)
    BY <2>1, <2>2, <2>3, WeightsBy
  <2> QED
    BY <2>4 DEF h
<1>3. Weights(37, <<1, 0, 1, 0, 0, 0, 0, 0>>)
  <2> DEFINE h == <<1, 0, 1, 0, 0, 0, 0, 0>>
  <2>1. h \in [1 .. 8 -> Int] /\ h[1] = 1 /\ h[2] = 0 /\ h[3] = 1 /\ h[4] = 0
        /\ h[5] = 0 /\ h[6] = 0 /\ h[7] = 0 /\ h[8] = 0
    BY SMT
  <2>2. /\ Val(N0) % 37 = (1 * Val(PRIM23)) % 37 /\ Val(PRES2) % 37 = (0 * Val(PRIM23)) % 37
        /\ Val(PRES3) % 37 = (1 * Val(PRIM23)) % 37 /\ Val(PRES4) % 37 = (0 * Val(PRIM23)) % 37
        /\ Val(PRES5) % 37 = (0 * Val(PRIM23)) % 37 /\ Val(PRES6) % 37 = (0 * Val(PRIM23)) % 37
        /\ Val(PRES7) % 37 = (0 * Val(PRIM23)) % 37 /\ Val(PRES8) % 37 = (0 * Val(PRIM23)) % 37
    BY NumbersAre, SMT
  <2>3. 37 \in Nat \ {0}
    BY SMT
  <2> HIDE DEF h
  <2>4. Weights(37, h)
    BY <2>1, <2>2, <2>3, WeightsBy
  <2> QED
    BY <2>4 DEF h
<1>4. Weights(41, <<1, 0, 0, 1, 0, 0, 0, 0>>)
  <2> DEFINE h == <<1, 0, 0, 1, 0, 0, 0, 0>>
  <2>1. h \in [1 .. 8 -> Int] /\ h[1] = 1 /\ h[2] = 0 /\ h[3] = 0 /\ h[4] = 1
        /\ h[5] = 0 /\ h[6] = 0 /\ h[7] = 0 /\ h[8] = 0
    BY SMT
  <2>2. /\ Val(N0) % 41 = (1 * Val(PRIM23)) % 41 /\ Val(PRES2) % 41 = (0 * Val(PRIM23)) % 41
        /\ Val(PRES3) % 41 = (0 * Val(PRIM23)) % 41 /\ Val(PRES4) % 41 = (1 * Val(PRIM23)) % 41
        /\ Val(PRES5) % 41 = (0 * Val(PRIM23)) % 41 /\ Val(PRES6) % 41 = (0 * Val(PRIM23)) % 41
        /\ Val(PRES7) % 41 = (0 * Val(PRIM23)) % 41 /\ Val(PRES8) % 41 = (0 * Val(PRIM23)) % 41
    BY NumbersAre, SMT
  <2>3. 41 \in Nat \ {0}
    BY SMT
  <2> HIDE DEF h
  <2>4. Weights(41, h)
    BY <2>1, <2>2, <2>3, WeightsBy
  <2> QED
    BY <2>4 DEF h
<1>5. Weights(43, <<1, 0, 0, 0, 1, 0, 0, 0>>)
  <2> DEFINE h == <<1, 0, 0, 0, 1, 0, 0, 0>>
  <2>1. h \in [1 .. 8 -> Int] /\ h[1] = 1 /\ h[2] = 0 /\ h[3] = 0 /\ h[4] = 0
        /\ h[5] = 1 /\ h[6] = 0 /\ h[7] = 0 /\ h[8] = 0
    BY SMT
  <2>2. /\ Val(N0) % 43 = (1 * Val(PRIM23)) % 43 /\ Val(PRES2) % 43 = (0 * Val(PRIM23)) % 43
        /\ Val(PRES3) % 43 = (0 * Val(PRIM23)) % 43 /\ Val(PRES4) % 43 = (0 * Val(PRIM23)) % 43
        /\ Val(PRES5) % 43 = (1 * Val(PRIM23)) % 43 /\ Val(PRES6) % 43 = (0 * Val(PRIM23)) % 43
        /\ Val(PRES7) % 43 = (0 * Val(PRIM23)) % 43 /\ Val(PRES8) % 43 = (0 * Val(PRIM23)) % 43
    BY NumbersAre, SMT
  <2>3. 43 \in Nat \ {0}
    BY SMT
  <2> HIDE DEF h
  <2>4. Weights(43, h)
    BY <2>1, <2>2, <2>3, WeightsBy
  <2> QED
    BY <2>4 DEF h
<1>6. Weights(47, <<1, 0, 0, 0, 0, 1, 0, 0>>)
  <2> DEFINE h == <<1, 0, 0, 0, 0, 1, 0, 0>>
  <2>1. h \in [1 .. 8 -> Int] /\ h[1] = 1 /\ h[2] = 0 /\ h[3] = 0 /\ h[4] = 0
        /\ h[5] = 0 /\ h[6] = 1 /\ h[7] = 0 /\ h[8] = 0
    BY SMT
  <2>2. /\ Val(N0) % 47 = (1 * Val(PRIM23)) % 47 /\ Val(PRES2) % 47 = (0 * Val(PRIM23)) % 47
        /\ Val(PRES3) % 47 = (0 * Val(PRIM23)) % 47 /\ Val(PRES4) % 47 = (0 * Val(PRIM23)) % 47
        /\ Val(PRES5) % 47 = (0 * Val(PRIM23)) % 47 /\ Val(PRES6) % 47 = (1 * Val(PRIM23)) % 47
        /\ Val(PRES7) % 47 = (0 * Val(PRIM23)) % 47 /\ Val(PRES8) % 47 = (0 * Val(PRIM23)) % 47
    BY NumbersAre, SMT
  <2>3. 47 \in Nat \ {0}
    BY SMT
  <2> HIDE DEF h
  <2>4. Weights(47, h)
    BY <2>1, <2>2, <2>3, WeightsBy
  <2> QED
    BY <2>4 DEF h
<1>7. Weights(53, <<1, 0, 0, 0, 0, 0, 1, 0>>)
  <2> DEFINE h == <<1, 0, 0, 0, 0, 0, 1, 0>>
  <2>1. h \in [1 .. 8 -> Int] /\ h[1] = 1 /\ h[2] = 0 /\ h[3] = 0 /\ h[4] = 0
        /\ h[5] = 0 /\ h[6] = 0 /\ h[7] = 1 /\ h[8] = 0
    BY SMT
  <2>2. /\ Val(N0) % 53 = (1 * Val(PRIM23)) % 53 /\ Val(PRES2) % 53 = (0 * Val(PRIM23)) % 53
        /\ Val(PRES3) % 53 = (0 * Val(PRIM23)) % 53 /\ Val(PRES4) % 53 = (0 * Val(PRIM23)) % 53
        /\ Val(PRES5) % 53 = (0 * Val(PRIM23)) % 53 /\ Val(PRES6) % 53 = (0 * Val(PRIM23)) % 53
        /\ Val(PRES7) % 53 = (1 * Val(PRIM23)) % 53 /\ Val(PRES8) % 53 = (0 * Val(PRIM23)) % 53
    BY NumbersAre, SMT
  <2>3. 53 \in Nat \ {0}
    BY SMT
  <2> HIDE DEF h
  <2>4. Weights(53, h)
    BY <2>1, <2>2, <2>3, WeightsBy
  <2> QED
    BY <2>4 DEF h
<1>8. Weights(59, <<1, 0, 0, 0, 0, 0, 0, 1>>)
  <2> DEFINE h == <<1, 0, 0, 0, 0, 0, 0, 1>>
  <2>1. h \in [1 .. 8 -> Int] /\ h[1] = 1 /\ h[2] = 0 /\ h[3] = 0 /\ h[4] = 0
        /\ h[5] = 0 /\ h[6] = 0 /\ h[7] = 0 /\ h[8] = 1
    BY SMT
  <2>2. /\ Val(N0) % 59 = (1 * Val(PRIM23)) % 59 /\ Val(PRES2) % 59 = (0 * Val(PRIM23)) % 59
        /\ Val(PRES3) % 59 = (0 * Val(PRIM23)) % 59 /\ Val(PRES4) % 59 = (0 * Val(PRIM23)) % 59
        /\ Val(PRES5) % 59 = (0 * Val(PRIM23)) % 59 /\ Val(PRES6) % 59 = (0 * Val(PRIM23)) % 59
        /\ Val(PRES7) % 59 = (0 * Val(PRIM23)) % 59 /\ Val(PRES8) % 59 = (1 * Val(PRIM23)) % 59
    BY NumbersAre, SMT
  <2>3. 59 \in Nat \ {0}
    BY SMT
  <2> HIDE DEF h
  <2>4. Weights(59, h)
    BY <2>1, <2>2, <2>3, WeightsBy
  <2> QED
    BY <2>4 DEF h
<1>9. Weights(2, <<0, 0, 0, 0, 0, 0, 0, 0>>)
  <2> DEFINE h == <<0, 0, 0, 0, 0, 0, 0, 0>>
  <2>1. h \in [1 .. 8 -> Int] /\ h[1] = 0 /\ h[2] = 0 /\ h[3] = 0 /\ h[4] = 0
        /\ h[5] = 0 /\ h[6] = 0 /\ h[7] = 0 /\ h[8] = 0
    BY SMT
  <2>2. /\ Val(N0) % 2 = (0 * Val(PRIM23)) % 2 /\ Val(PRES2) % 2 = (0 * Val(PRIM23)) % 2
        /\ Val(PRES3) % 2 = (0 * Val(PRIM23)) % 2 /\ Val(PRES4) % 2 = (0 * Val(PRIM23)) % 2
        /\ Val(PRES5) % 2 = (0 * Val(PRIM23)) % 2 /\ Val(PRES6) % 2 = (0 * Val(PRIM23)) % 2
        /\ Val(PRES7) % 2 = (0 * Val(PRIM23)) % 2 /\ Val(PRES8) % 2 = (0 * Val(PRIM23)) % 2
    BY NumbersAre, SMT
  <2>3. 2 \in Nat \ {0}
    BY SMT
  <2> HIDE DEF h
  <2>4. Weights(2, h)
    BY <2>1, <2>2, <2>3, WeightsBy
  <2> QED
    BY <2>4 DEF h
<1>10. Weights(3, <<0, 0, 0, 0, 0, 0, 0, 0>>)
  <2> DEFINE h == <<0, 0, 0, 0, 0, 0, 0, 0>>
  <2>1. h \in [1 .. 8 -> Int] /\ h[1] = 0 /\ h[2] = 0 /\ h[3] = 0 /\ h[4] = 0
        /\ h[5] = 0 /\ h[6] = 0 /\ h[7] = 0 /\ h[8] = 0
    BY SMT
  <2>2. /\ Val(N0) % 3 = (0 * Val(PRIM23)) % 3 /\ Val(PRES2) % 3 = (0 * Val(PRIM23)) % 3
        /\ Val(PRES3) % 3 = (0 * Val(PRIM23)) % 3 /\ Val(PRES4) % 3 = (0 * Val(PRIM23)) % 3
        /\ Val(PRES5) % 3 = (0 * Val(PRIM23)) % 3 /\ Val(PRES6) % 3 = (0 * Val(PRIM23)) % 3
        /\ Val(PRES7) % 3 = (0 * Val(PRIM23)) % 3 /\ Val(PRES8) % 3 = (0 * Val(PRIM23)) % 3
    BY NumbersAre, SMT
  <2>3. 3 \in Nat \ {0}
    BY SMT
  <2> HIDE DEF h
  <2>4. Weights(3, h)
    BY <2>1, <2>2, <2>3, WeightsBy
  <2> QED
    BY <2>4 DEF h
<1>11. Weights(5, <<0, 0, 0, 0, 0, 0, 0, 0>>)
  <2> DEFINE h == <<0, 0, 0, 0, 0, 0, 0, 0>>
  <2>1. h \in [1 .. 8 -> Int] /\ h[1] = 0 /\ h[2] = 0 /\ h[3] = 0 /\ h[4] = 0
        /\ h[5] = 0 /\ h[6] = 0 /\ h[7] = 0 /\ h[8] = 0
    BY SMT
  <2>2. /\ Val(N0) % 5 = (0 * Val(PRIM23)) % 5 /\ Val(PRES2) % 5 = (0 * Val(PRIM23)) % 5
        /\ Val(PRES3) % 5 = (0 * Val(PRIM23)) % 5 /\ Val(PRES4) % 5 = (0 * Val(PRIM23)) % 5
        /\ Val(PRES5) % 5 = (0 * Val(PRIM23)) % 5 /\ Val(PRES6) % 5 = (0 * Val(PRIM23)) % 5
        /\ Val(PRES7) % 5 = (0 * Val(PRIM23)) % 5 /\ Val(PRES8) % 5 = (0 * Val(PRIM23)) % 5
    BY NumbersAre, SMT
  <2>3. 5 \in Nat \ {0}
    BY SMT
  <2> HIDE DEF h
  <2>4. Weights(5, h)
    BY <2>1, <2>2, <2>3, WeightsBy
  <2> QED
    BY <2>4 DEF h
<1> QED
  BY <1>1, <1>2, <1>3, <1>4, <1>5, <1>6, <1>7, <1>8, <1>9, <1>10, <1>11

\* The first number of an entry.
LEMMA OffsetClass ==
  ASSUME NEW p \in Nat \ {0}, NEW e \in Counters, NEW o \in Int, NEW o3 \in Int, NEW o5 \in Int,
         Val(N30) % p = o % p, Val(S3) % p = o3 % p, Val(S5) % p = o5 % p
  PROVE  Congruent(Offset(e), o + e[4] * o3 + e[5] * o5, p)
<1> DEFINE x == Val(N30)
           y == Val(S3)
           z == Val(S5)
           i == e[4]
           j == e[5]
<1>1. x \in Int /\ y \in Int /\ z \in Int /\ i \in Int /\ j \in Int /\ p \in Int
  BY NumbersAre, SMT DEF Counters
<1>2. Offset(e) = x + i * y + j * z
  BY DEF Offset
<1>3. Congruent(x, o, p) /\ Congruent(y, o3, p) /\ Congruent(z, o5, p)
  BY <1>1, SameRemainder
<1> HIDE DEF x, y, z, i, j
<1>4. i * y \in Int /\ j * z \in Int /\ i * o3 \in Int /\ j * o5 \in Int
  BY <1>1
<1>5. Congruent(i * y, i * o3, p) /\ Congruent(j * z, j * o5, p)
  BY <1>1, <1>3, CongruentMultiple
<1>6. Congruent(x + i * y, o + i * o3, p) /\ x + i * y \in Int /\ o + i * o3 \in Int
  BY <1>1, <1>3, <1>4, <1>5, CongruentSum
<1>7. Congruent((x + i * y) + j * z, (o + i * o3) + j * o5, p)
  BY <1>1, <1>4, <1>5, <1>6, CongruentSum
<1> QED
  BY <1>2, <1>7 DEF i, j

-----------------------------------------------------------------------------
\* The residues of n59.

\* The residue r that is m*K*R modulo a prime p, which divides neither K nor R, has no
\* term divisible by p in its window, as long as m to m+23 are not multiples of p.
Undivided(p) == p \in Nat /\ 1 < p /\ \A d \in 2 .. p - 1 : p % d # 0
Counts(p, m, K, R) == K % p # 0 /\ R % p # 0 /\ m \in Int /\ 1 <= m /\ m + 24 <= p
OpenWindow(p, m, S, r) == r = (m * S) % p /\ \A t \in 0 .. 23 : (r + t * S) % p # 0
LEMMA OpenClass ==
  ASSUME NEW p, Undivided(p), NEW K \in Nat, NEW R \in Nat, NEW m, Counts(p, m, K, R),
         NEW S \in Int, Congruent(S, K * R, p),
         NEW r \in 0 .. p - 1, Congruent(r, m * (K * R), p)
  PROVE  OpenWindow(p, m, S, r)
<1>0. /\ p \in Nat /\ 1 < p /\ \A d \in 2 .. p - 1 : p % d # 0
      /\ K % p # 0 /\ R % p # 0 /\ m \in Int /\ 1 <= m /\ m + 24 <= p
  BY DEF Undivided, Counts
<1> DEFINE s == K * R
<1>1. s \in Nat /\ s \in Int /\ p \in Nat \ {0} /\ p \in Int /\ r \in Int
  BY <1>0, ProductType, SMT
<1>2. s % p # 0
  BY <1>0, Euclid
<1>3. Congruent(S, s, p) /\ Congruent(r, m * s, p)
  OBVIOUS
<1> HIDE DEF s
<1>4. m * S \in Int /\ m * s \in Int
  BY <1>0, <1>1
<1>5. Congruent(r, m * S, p)
  <2>1. Congruent(m * S, m * s, p)
    BY <1>0, <1>1, <1>3, CongruentMultiple
  <2>2. Congruent(m * s, m * S, p)
    BY <1>1, <1>4, <2>1, CongruentSym
  <2> QED
    BY <1>1, <1>3, <1>4, <2>2, CongruentTrans
<1>6. r = (m * S) % p
  <2> DEFINE a == m * S
  <2>1. a \in Int /\ Congruent(r, a, p)
    BY <1>4, <1>5
  <2> HIDE DEF a
  <2>2. r % p = a % p
    BY <1>1, <2>1, SameRemainder
  <2>3. r % p = r
    BY <1>1, SMT
  <2> QED
    BY <2>2, <2>3 DEF a
<1>7. ASSUME NEW t \in 0 .. 23
      PROVE  (r + t * S) % p # 0
  <2>1. t \in Int /\ t * S \in Int /\ t * s \in Int
    BY <1>1, SMT
  <2>2. Congruent(t * S, t * s, p)
    BY <1>1, <1>3, <2>1, CongruentMultiple
  <2>3. Congruent(r + t * S, m * s + t * s, p)
    BY <1>1, <1>3, <1>4, <2>1, <2>2, CongruentSum
  <2> DEFINE w == m + t
             z == r + t * S
             y == w * s
  <2>4. m * s + t * s = y /\ w \in 1 .. p - 1
    BY <1>0, <1>1, <2>1, SMT
  <2>5. z \in Int
    BY <1>1, <2>1
  <2> HIDE DEF w, z
  <2>6. w \in Nat /\ w % p # 0
    BY <1>0, <1>1, <2>4, SMT
  <2>7. y % p # 0
    BY <1>0, <1>1, <1>2, <2>6, Euclid
  <2>8. y \in Int
    BY <1>1, <2>6
  <2> HIDE DEF y
  <2>9. Congruent(z, y, p)
    BY <2>3, <2>4 DEF z
  <2>10. z % p = y % p
    BY <1>1, <2>5, <2>8, <2>9, SameRemainder
  <2> QED
    BY <2>7, <2>10 DEF z
<1> QED
  BY <1>6, <1>7 DEF OpenWindow

\* n59 is m*STEP modulo a prime whose loop has counted m, and no term of its window
\* is divisible by the prime, which divides none of m + t, K and PRIM23.
LEMMA ClassIs ==
  ASSUME CInv, Walking, NEW p \in 29 .. 59, p % 2 # 0, p % 3 # 0, p % 5 # 0, p % 7 # 0,
         start.K % p # 0, Val(PRIM23) % p # 0, Modulus % p = 0, NEW h, Weights(p, h),
         Congruent(Offset(start.entry), 0, p),
         NEW m \in Int, m = Weight(h, start.entry, i43, i47, i53, i59), 1 <= m, m + 24 <= p
  PROVE  Rem(n59, p) = (m * STEPrem(p)) % p /\ Open(Rem(n59, p), p)
<1> DEFINE K == start.K
           e == start.entry
           R == Val(PRIM23)
           x == Val(n59)
           s == K * R
           o == Offset(e)
           u == Multiplier(e, i43, i47, i53, i59)
<1>1. /\ p \in PrimesIn(7, 541) /\ p \in Nat \ {0} /\ p \in Nat /\ p \in Int /\ 1 < p
      /\ \A d \in 2 .. p - 1 : p % d # 0
  BY LoopPrimeIs, SMT
<1>2. /\ K \in Searched /\ K \in Nat /\ e \in Counters /\ R \in Nat /\ s \in Nat /\ s \in Int
      /\ n59 \in UInt64 /\ x \in Nat /\ x \in Int
  <2>1. n59 \in UInt64 /\ K \in Searched /\ K \in Nat /\ e \in Counters
    BY PlaceIs DEF Numbered, Below
  <2>2. R \in Nat
    BY NumbersAre, SMT
  <2>3. s \in Nat
    BY <2>1, <2>2, ProductType
  <2> QED
    BY <2>1, <2>2, <2>3, Words
<1>3. i43 \in Int /\ i47 \in Int /\ i53 \in Int /\ i59 \in Int /\ Located(n59, i43, i47, i53, i59)
  <2>1. Turned /\ Placed
    BY DEF CInv
  <2> QED
    BY <2>1 DEF Turned, Placed
<1>4. o \in Int /\ u \in Int /\ Congruent(u, m * R, p)
  BY <1>1, <1>2, <1>3, OffsetType, MultiplierIs, MultiplierClass
<1>5. Congruent(x, o + K * u, Modulus)
  BY <1>3 DEF Located, Place
<1>6. Congruent(o, 0, p)
  OBVIOUS
<1>7. Val(q.STEP) = s /\ q.STEP \in UInt64
  BY DEF CInv, Multiplied, Walking, Products, IInv, Filled, Locals
<1>8. Times(Small(K), PRIM23) \in UInt64 /\ Val(Times(Small(K), PRIM23)) = s
  BY <1>2, StepProduct
<1> HIDE DEF o, u, x
<1>9. Congruent(x, o + K * u, p)
  <2> DEFINE M == Modulus
             k == M \div p
  <2>1. M \in Int /\ M % p = 0
    BY ModulusIs, SMT
  <2>2. M = p * k + (M % p) /\ k \in Int
    BY <1>1, <2>1, Division
  <2> HIDE DEF M, k
  <2>3. M = k * p
    BY <1>1, <2>1, <2>2, SMT
  <2>4. Congruent(x, o + K * u, k * p)
    BY <1>5, <2>3 DEF M
  <2>5. o + K * u \in Int
    BY <1>2, <1>4
  <2> QED
    BY <1>1, <1>2, <2>2, <2>4, <2>5, CongruentFactor
<1>10. Congruent(o + K * u, m * s, p) /\ o + K * u \in Int /\ m * s \in Int
  <2>1. K \in Int /\ m * R \in Int /\ K * u \in Int /\ K * (m * R) \in Int /\ 0 \in Int
    BY <1>2, <1>4
  <2>2. Congruent(K * u, K * (m * R), p)
    BY <1>1, <1>4, <2>1, CongruentMultiple
  <2>3. Congruent(o + K * u, 0 + K * (m * R), p)
    BY <1>1, <1>4, <1>6, <2>1, <2>2, CongruentSum
  <2>4. 0 + K * (m * R) = m * s
    BY <1>2, <2>1, SMT
  <2> QED
    BY <1>2, <1>4, <2>1, <2>3, <2>4
<1>11. Congruent(x, m * s, p)
  BY <1>1, <1>2, <1>9, <1>10, CongruentTrans
<1> DEFINE S == s % p
           r == x % p
<1>12. /\ Rem(n59, p) = r /\ STEPrem(p) = S /\ Rem(Times(Small(K), PRIM23), p) = S
       /\ r \in 0 .. p - 1
  <2>1. Rem(n59, p) = r /\ Rem(n59, p) \in 0 .. p - 1
    BY <1>1, <1>2, RemIs DEF x
  <2>2. Rem(q.STEP, p) = S /\ Rem(Times(Small(K), PRIM23), p) = S
    BY <1>1, <1>7, <1>8, RemIs
  <2> QED
    BY <2>1, <2>2 DEF STEPrem
<1>13. /\ S \in Int /\ Congruent(S, s, p) /\ r \in Int /\ Congruent(r, x, p)
  <2>1. S \in 0 .. p - 1 /\ Congruent(S, s, p) /\ r \in 0 .. p - 1 /\ Congruent(r, x, p)
    BY <1>1, <1>2, CongruentRemainder
  <2> HIDE DEF S, r
  <2> QED
    BY <1>1, <2>1, SMT
<1>14. Undivided(p) /\ Counts(p, m, K, R)
  BY <1>1 DEF Undivided, Counts
<1> HIDE DEF s, S, r
<1>15. Congruent(r, m * s, p)
  BY <1>1, <1>2, <1>10, <1>11, <1>13, CongruentTrans
<1> HIDE DEF K, R
<1>16. r = (m * S) % p /\ \A t \in 0 .. 23 : (r + t * S) % p # 0
  <2>1. OpenWindow(p, m, S, r)
    BY <1>2, <1>12, <1>13, <1>14, <1>15, OpenClass DEF s
  <2> QED
    BY <2>1 DEF OpenWindow
<1>17. OpenResidues[K][p]
         = {y \in 0 .. p - 1 : \A t \in 0 .. 23 : (y + t * Rem(Times(Small(K), PRIM23), p)) % p # 0}
  <2>1. <<v, start>>[2].K = start.K /\ <<v, start>> \in Samples
    BY DEF CInv, IInv, Sampled
  <2>2. K \in {y[2].K : y \in Samples}
    BY <2>1, Zenon DEF K
  <2> QED
    BY <1>1, <2>2, Zenon DEF OpenResidues
<1>18. Open(r, p)
  BY <1>12, <1>16, <1>17 DEF Open, K
<1> QED
  BY <1>12, <1>16, <1>18

\* The primes of the loops divide MOD and the first numbers, and not PRIM23.
LEMMA LoopPrimesAre ==
  ASSUME NEW p \in LoopPrimes
  PROVE  /\ p \in 29 .. 59 /\ p \in Nat \ {0} /\ p % 2 # 0 /\ p % 3 # 0 /\ p % 5 # 0 /\ p % 7 # 0
         /\ Modulus % p = 0 /\ Val(PRIM23) % p # 0
         /\ Val(N30) % p = 0 /\ Val(S3) % p = 0 /\ Val(S5) % p = 0
BY NumbersAre, SMT DEF LoopPrimes

LEMMA OffsetZero ==
  ASSUME NEW p \in LoopPrimes, NEW e \in Counters
  PROVE  Congruent(Offset(e), 0, p)
<1>1. p \in Nat \ {0} /\ Val(N30) % p = 0 /\ Val(S3) % p = 0 /\ Val(S5) % p = 0
  BY LoopPrimesAre
<1>2. 0 % p = 0 /\ 0 \in Int
  BY <1>1, SMT
<1>3. Congruent(Offset(e), 0 + e[4] * 0 + e[5] * 0, p)
  BY <1>1, <1>2, OffsetClass
<1>4. e[4] \in Int /\ e[5] \in Int
  BY SMT DEF Counters
<1>5. 0 + e[4] * 0 + e[5] * 0 = 0
  BY <1>4, SMT
<1> QED
  BY <1>3, <1>5

\* Every loop counts the class modulo its prime.
Class(p, m) == Rem(n59, p) = (m * STEPrem(p)) % p /\ Open(Rem(n59, p), p)
LEMMA CountsClass ==
  ASSUME CInv, Walking, NEW p \in LoopPrimes, NEW h, Weights(p, h),
         NEW m \in Int, m = Weight(h, start.entry, i43, i47, i53, i59), 1 <= m, m + 24 <= p
  PROVE  Class(p, m)
<1>1. start.entry \in Counters /\ start.K \in Searched
  BY PlaceIs
<1>2. start.K % p # 0
  BY <1>1 DEF Searched
<1>3. Congruent(Offset(start.entry), 0, p)
  BY <1>1, OffsetZero
<1> QED
  BY <1>2, <1>3, LoopPrimesAre, ClassIs DEF Class

LEMMA LoopClasses ==
  ASSUME CInv, Walking
  PROVE  LET e == start.entry
         IN  /\ Class(29, 3) /\ Class(31, e[1] + 1) /\ Class(37, e[2] + 1) /\ Class(41, e[3] + 1)
             /\ Class(43, 20 - i43) /\ Class(47, 24 - i47) /\ Class(53, 30 - i53) /\ Class(59, 36 - i59)
<1> DEFINE e == start.entry
<1>1. /\ e[1] \in 0 .. 6 /\ e[2] \in 0 .. 12 /\ e[3] \in 0 .. 16
      /\ i43 \in 1 .. 19 /\ i47 \in 1 .. 23 /\ i53 \in 1 .. 29 /\ i59 \in 1 .. 35
  <2>1. e \in Counters /\ Turned
    BY PlaceIs DEF CInv
  <2> QED
    BY <2>1 DEF Counters, Turned
<1>2. Class(29, 3)
  <2> DEFINE h == <<3, 0, 0, 0, 0, 0, 0, 0>>
             m == 3
  <2>1. m = Weight(h, e, i43, i47, i53, i59) /\ m \in Int /\ 1 <= m /\ m + 24 <= 29
    BY <1>1, SMT DEF Weight
  <2>2. Weights(29, h) /\ 29 \in LoopPrimes
    BY WeightsAre, SMT DEF LoopPrimes
  <2> HIDE DEF h, m
  <2>3. Class(29, m)
    BY <2>1, <2>2, CountsClass
  <2> QED
    BY <2>3 DEF m
<1>3. Class(31, e[1] + 1)
  <2> DEFINE h == <<1, 1, 0, 0, 0, 0, 0, 0>>
             m == e[1] + 1
  <2>1. m = Weight(h, e, i43, i47, i53, i59) /\ m \in Int /\ 1 <= m /\ m + 24 <= 31
    BY <1>1, SMT DEF Weight
  <2>2. Weights(31, h) /\ 31 \in LoopPrimes
    BY WeightsAre, SMT DEF LoopPrimes
  <2> HIDE DEF h, m
  <2>3. Class(31, m)
    BY <2>1, <2>2, CountsClass
  <2> QED
    BY <2>3 DEF m
<1>4. Class(37, e[2] + 1)
  <2> DEFINE h == <<1, 0, 1, 0, 0, 0, 0, 0>>
             m == e[2] + 1
  <2>1. m = Weight(h, e, i43, i47, i53, i59) /\ m \in Int /\ 1 <= m /\ m + 24 <= 37
    BY <1>1, SMT DEF Weight
  <2>2. Weights(37, h) /\ 37 \in LoopPrimes
    BY WeightsAre, SMT DEF LoopPrimes
  <2> HIDE DEF h, m
  <2>3. Class(37, m)
    BY <2>1, <2>2, CountsClass
  <2> QED
    BY <2>3 DEF m
<1>5. Class(41, e[3] + 1)
  <2> DEFINE h == <<1, 0, 0, 1, 0, 0, 0, 0>>
             m == e[3] + 1
  <2>1. m = Weight(h, e, i43, i47, i53, i59) /\ m \in Int /\ 1 <= m /\ m + 24 <= 41
    BY <1>1, SMT DEF Weight
  <2>2. Weights(41, h) /\ 41 \in LoopPrimes
    BY WeightsAre, SMT DEF LoopPrimes
  <2> HIDE DEF h, m
  <2>3. Class(41, m)
    BY <2>1, <2>2, CountsClass
  <2> QED
    BY <2>3 DEF m
<1>6. Class(43, 20 - i43)
  <2> DEFINE h == <<1, 0, 0, 0, 1, 0, 0, 0>>
             m == 20 - i43
  <2>1. m = Weight(h, e, i43, i47, i53, i59) /\ m \in Int /\ 1 <= m /\ m + 24 <= 43
    BY <1>1, SMT DEF Weight
  <2>2. Weights(43, h) /\ 43 \in LoopPrimes
    BY WeightsAre, SMT DEF LoopPrimes
  <2> HIDE DEF h, m
  <2>3. Class(43, m)
    BY <2>1, <2>2, CountsClass
  <2> QED
    BY <2>3 DEF m
<1>7. Class(47, 24 - i47)
  <2> DEFINE h == <<1, 0, 0, 0, 0, 1, 0, 0>>
             m == 24 - i47
  <2>1. m = Weight(h, e, i43, i47, i53, i59) /\ m \in Int /\ 1 <= m /\ m + 24 <= 47
    BY <1>1, SMT DEF Weight
  <2>2. Weights(47, h) /\ 47 \in LoopPrimes
    BY WeightsAre, SMT DEF LoopPrimes
  <2> HIDE DEF h, m
  <2>3. Class(47, m)
    BY <2>1, <2>2, CountsClass
  <2> QED
    BY <2>3 DEF m
<1>8. Class(53, 30 - i53)
  <2> DEFINE h == <<1, 0, 0, 0, 0, 0, 1, 0>>
             m == 30 - i53
  <2>1. m = Weight(h, e, i43, i47, i53, i59) /\ m \in Int /\ 1 <= m /\ m + 24 <= 53
    BY <1>1, SMT DEF Weight
  <2>2. Weights(53, h) /\ 53 \in LoopPrimes
    BY WeightsAre, SMT DEF LoopPrimes
  <2> HIDE DEF h, m
  <2>3. Class(53, m)
    BY <2>1, <2>2, CountsClass
  <2> QED
    BY <2>3 DEF m
<1>9. Class(59, 36 - i59)
  <2> DEFINE h == <<1, 0, 0, 0, 0, 0, 0, 1>>
             m == 36 - i59
  <2>1. m = Weight(h, e, i43, i47, i53, i59) /\ m \in Int /\ 1 <= m /\ m + 24 <= 59
    BY <1>1, SMT DEF Weight
  <2>2. Weights(59, h) /\ 59 \in LoopPrimes
    BY WeightsAre, SMT DEF LoopPrimes
  <2> HIDE DEF h, m
  <2>3. Class(59, m)
    BY <2>1, <2>2, CountsClass
  <2> QED
    BY <2>3 DEF m
<1> QED
  BY <1>2, <1>3, <1>4, <1>5, <1>6, <1>7, <1>8, <1>9

\* Modulo 2, 3 and 5, which divide PRIM23, the class is that of the entry's first number.
LEMMA EntryClasses ==
  ASSUME CInv, Walking
  PROVE  /\ Rem(n59, 2) = 1 /\ Rem(n59, 3) = 1 + start.entry[4] /\ Rem(n59, 5) = 1 + start.entry[5]
<1> DEFINE e == start.entry
           K == start.K
           h == <<0, 0, 0, 0, 0, 0, 0, 0>>
           u == Multiplier(e, i43, i47, i53, i59)
           x == Val(n59)
           o == Offset(e)
<1>1. /\ e \in Counters /\ K \in Nat /\ n59 \in UInt64 /\ x \in Int
      /\ Located(n59, i43, i47, i53, i59)
      /\ i43 \in Int /\ i47 \in Int /\ i53 \in Int /\ i59 \in Int
  <2>1. Turned /\ Placed /\ n59 \in UInt64 /\ e \in Counters /\ K \in Nat
    BY PlaceIs DEF CInv, Numbered, Below
  <2>2. x \in Int
    BY <2>1, Words
  <2> QED
    BY <2>1, <2>2 DEF Turned, Placed
<1>2. e[4] \in 0 .. 1 /\ e[5] \in 0 .. 3
  BY <1>1 DEF Counters
<1>3. o \in Int /\ u \in Int
  BY <1>1, OffsetType, MultiplierIs
<1>4. Congruent(x, o + K * u, Modulus)
  BY <1>1 DEF Located, Place
<1>5. ASSUME NEW p \in {2, 3, 5}
      PROVE  Congruent(u, 0, p) /\ Modulus % p = 0 /\ p \in Nat \ {0} /\ p \in Int
  <2>1. Weights(p, h) /\ p \in Int /\ p \in Nat \ {0}
    BY WeightsAre, SMT
  <2>2. Congruent(u, Weight(h, e, i43, i47, i53, i59) * Val(PRIM23), p)
    BY <1>1, <2>1, MultiplierClass
  <2>3. Weight(h, e, i43, i47, i53, i59) = 0
    BY <1>1, SMT DEF Weight, Counters
  <2>4. 0 * Val(PRIM23) = 0
    BY NumbersAre, SMT
  <2>5. Modulus % p = 0
    BY NumbersAre, SMT
  <2> QED
    BY <2>1, <2>2, <2>3, <2>4, <2>5
<1> HIDE DEF e, K, h, u, x, o
<1>6. ASSUME NEW p \in {2, 3, 5}, NEW r \in Int, Congruent(o, r, p)
      PROVE  Congruent(x, r, p) /\ x % p = r % p
  <2>1. Congruent(u, 0, p) /\ Modulus % p = 0 /\ p \in Nat \ {0} /\ p \in Int
    BY <1>5
  <2> DEFINE M == Modulus
             k == M \div p
  <2>2. M \in Int
    BY ModulusIs, SMT
  <2>3. M = p * k + (M % p) /\ k \in Int
    BY <2>1, <2>2, Division
  <2> HIDE DEF M, k
  <2>4. M = k * p
    BY <2>1, <2>2, <2>3, SMT DEF M
  <2>5. K * u \in Int /\ o + K * u \in Int /\ K \in Int /\ K * 0 = 0 /\ 0 \in Int /\ r + 0 = r
    BY <1>1, <1>3, <1>6, SMT
  <2>6. Congruent(x, o + K * u, k * p)
    BY <1>4, <2>4 DEF M
  <2>7. Congruent(x, o + K * u, p)
    BY <1>1, <2>1, <2>3, <2>5, <2>6, CongruentFactor
  <2>8. Congruent(K * u, K * 0, p)
    BY <1>3, <2>1, <2>5, CongruentMultiple
  <2>9. Congruent(o + K * u, r + 0, p)
    BY <1>3, <1>6, <2>1, <2>5, <2>8, CongruentSum
  <2>10. Congruent(x, r, p)
    BY <1>1, <1>6, <2>1, <2>5, <2>7, <2>9, CongruentTrans
  <2> QED
    BY <1>1, <1>6, <2>1, <2>10, SameRemainder
<1>7. ASSUME NEW p \in {2, 3, 5}
      PROVE  Rem(n59, p) = x % p
  <2>1. p \in Nat \ {0}
    BY <1>5
  <2> QED
    BY <1>1, <2>1, RemIs DEF x
<1>8. Rem(n59, 2) = 1
  <2>1. Val(N30) % 2 = 1 % 2 /\ Val(S3) % 2 = 0 % 2 /\ Val(S5) % 2 = 0 % 2
        /\ 2 \in Nat \ {0} /\ 0 \in Int /\ 1 \in Int /\ 2 \in {2, 3, 5}
    BY NumbersAre, SMT
  <2>2. Congruent(o, 1 + e[4] * 0 + e[5] * 0, 2)
    BY <1>1, <2>1, OffsetClass DEF o
  <2>3. 1 + e[4] * 0 + e[5] * 0 = 1 /\ 1 % 2 = 1
    BY <1>2, SMT
  <2> QED
    BY <1>6, <1>7, <2>1, <2>2, <2>3
<1>9. Rem(n59, 3) = 1 + e[4]
  <2>1. Val(N30) % 3 = 1 % 3 /\ Val(S3) % 3 = 1 % 3 /\ Val(S5) % 3 = 0 % 3
        /\ 3 \in Nat \ {0} /\ 0 \in Int /\ 1 \in Int /\ 3 \in {2, 3, 5}
    BY NumbersAre, SMT
  <2>2. Congruent(o, 1 + e[4] * 1 + e[5] * 0, 3)
    BY <1>1, <2>1, OffsetClass DEF o
  <2>3. 1 + e[4] * 1 + e[5] * 0 = 1 + e[4] /\ (1 + e[4]) % 3 = 1 + e[4] /\ 1 + e[4] \in Int
    BY <1>2, SMT
  <2> QED
    BY <1>6, <1>7, <2>1, <2>2, <2>3
<1>10. Rem(n59, 5) = 1 + e[5]
  <2>1. Val(N30) % 5 = 1 % 5 /\ Val(S3) % 5 = 0 % 5 /\ Val(S5) % 5 = 1 % 5
        /\ 5 \in Nat \ {0} /\ 0 \in Int /\ 1 \in Int /\ 5 \in {2, 3, 5}
    BY NumbersAre, SMT
  <2>2. Congruent(o, 1 + e[4] * 0 + e[5] * 1, 5)
    BY <1>1, <2>1, OffsetClass DEF o
  <2>3. 1 + e[4] * 0 + e[5] * 1 = 1 + e[5] /\ (1 + e[5]) % 5 = 1 + e[5] /\ 1 + e[5] \in Int
    BY <1>2, SMT
  <2> QED
    BY <1>6, <1>7, <2>1, <2>2, <2>3
<1> QED
  BY <1>8, <1>9, <1>10 DEF e

\* The loops reach exactly the residue class their counters stand for, in every variant,
\* from every entry and position: n59, which is only ever stepped by S59 and by the
\* sums of the loops around it, is m_p*STEP modulo each p from 29 to 59 and the chosen
\* residues modulo 2, 3 and 5, and its window of 24 terms is open.  K is one that
\* will_search lets through (the primes of the loops do not divide it), as long as the
\* products of the prologue stay in 64 bits.
THEOREM ClassesAreExact ==
  ASSUME \A s \in Samples : s[2].K \in Searched
  PROVE  Spec => []ClassExact
<1>1. CInv => ClassExact
  <2> SUFFICES ASSUME CInv, pc = "look"
               PROVE  ClassExact
    BY DEF ClassExact
  <2>1. Walking /\ Below(n59)
    BY PlaceIs DEF Walking, Numbered
  <2>2. ~AtLeast(n59, MOD)
    BY <2>1, BelowIs DEF Below
  <2>3. /\ Class(29, 3) /\ Class(31, start.entry[1] + 1) /\ Class(37, start.entry[2] + 1)
        /\ Class(41, start.entry[3] + 1) /\ Class(43, 20 - i43) /\ Class(47, 24 - i47)
        /\ Class(53, 30 - i53) /\ Class(59, 36 - i59)
    BY <2>1, LoopClasses
  <2>4. /\ Rem(n59, 2) = 1 /\ Rem(n59, 3) = 1 + start.entry[4]
        /\ Rem(n59, 5) = 1 + start.entry[5]
    BY <2>1, EntryClasses
  <2> QED
    BY <2>2, <2>3, <2>4 DEF ClassExact, Class
<1> QED
  BY <1>1, SpecCInv, PTL

-----------------------------------------------------------------------------
\* Candidates as numbers.

\* A number below m and a multiple of m are known by their sum.
LEMMA SumUnique ==
  ASSUME NEW m \in Nat \ {0}, NEW x \in Nat, x < m, NEW y \in Nat, y < m, NEW s \in Nat, NEW t \in Nat,
         x + s * m = y + t * m
  PROVE  x = y /\ s = t
<1>1. x - y = (t - s) * m
  BY SMT
<1>2. x = y + (t - s) * m /\ t - s \in Int
  BY <1>1, SMT
<1>3. Congruent(x, y, m)
  BY <1>2 DEF Congruent
<1>4. x \in 0 .. m - 1 /\ y \in 0 .. m - 1
  BY SMT
<1>5. x = y
  BY <1>3, <1>4, CongruentUnique
<1>6. s * m = t * m
  BY <1>5, SMT
<1>7. s = t
  BY <1>6, SMT
<1> QED
  BY <1>5, <1>7

\* No two shifts and no two numbers below MOD share a candidate.
LEMMA CandidateUnique ==
  ASSUME NEW n, Below(n), NEW s, InWord(s), NEW k, Below(k), NEW t, InWord(t),
         Candidate(n, s) = Candidate(k, t)
  PROVE  n = k /\ s = t
<1>1. /\ Val(Candidate(n, s)) = Val(n) + s * Modulus /\ Val(n) \in Nat /\ Val(n) < Modulus /\ s \in Nat
      /\ Val(Candidate(k, t)) = Val(k) + t * Modulus /\ Val(k) \in Nat /\ Val(k) < Modulus /\ t \in Nat
  BY CandidateIs
<1>2. Modulus \in Nat \ {0}
  BY HundredIs
<1>3. Val(n) + s * Modulus = Val(k) + t * Modulus
  BY <1>1
<1>4. Val(n) = Val(k) /\ s = t
  BY <1>1, <1>2, <1>3, SumUnique
<1> QED
  BY <1>4, ValUnique DEF Below

-----------------------------------------------------------------------------
\* Places of the loops.

\* The counters i43, i47, i53, i59 of a place, and its number in the order of the loops.
Places == (1 .. 19) \X (1 .. 23) \X (1 .. 29) \X (1 .. 35)
Index(x) == (((19 - x[1]) * 23 + (23 - x[2])) * 29 + (29 - x[3])) * 35 + (35 - x[4])
At(n, x) == Below(n) /\ Located(n, x[1], x[2], x[3], x[4])

LEMMA PlaceType ==
  ASSUME NEW x \in Places
  PROVE  /\ x[1] \in 1 .. 19 /\ x[2] \in 1 .. 23 /\ x[3] \in 1 .. 29 /\ x[4] \in 1 .. 35
         /\ Index(x) \in Nat /\ x = <<x[1], x[2], x[3], x[4]>>
<1>1. /\ x[1] \in 1 .. 19 /\ x[2] \in 1 .. 23 /\ x[3] \in 1 .. 29 /\ x[4] \in 1 .. 35
      /\ x = <<x[1], x[2], x[3], x[4]>>
  BY DEF Places
<1> DEFINE a == x[1]
           b == x[2]
           c == x[3]
           d == x[4]
<1>2. a \in 1 .. 19 /\ b \in 1 .. 23 /\ c \in 1 .. 29 /\ d \in 1 .. 35
  BY <1>1
<1>3. Index(x) = (((19 - a) * 23 + (23 - b)) * 29 + (29 - c)) * 35 + (35 - d)
  BY DEF Index
<1> HIDE DEF a, b, c, d
<1>4. (((19 - a) * 23 + (23 - b)) * 29 + (29 - c)) * 35 + (35 - d) \in Nat
  BY <1>2, SMT
<1> QED
  BY <1>1, <1>3, <1>4

\* The last digit of a number, and what is left of it.
LEMMA LastDigit ==
  ASSUME NEW P \in Int, NEW Q \in Int, NEW d \in 1 .. 35, NEW k \in 1 .. 35,
         P * 35 + (35 - d) = Q * 35 + (35 - k)
  PROVE  d = k /\ P = Q
<1> DEFINE e == P - Q
<1>1. e \in Int /\ e * 35 = d - k /\ d - k <= 34 /\ d - k >= -34
  BY SMT
<1> HIDE DEF e
<1>2. e = 0
  BY <1>1, SMT
<1> QED
  BY <1>1, <1>2, SMT DEF e

\* The numbers tell places apart, and the last is that of the loops' last turns.
LEMMA IndexUnique ==
  ASSUME NEW x \in Places, NEW y \in Places, Index(x) = Index(y)
  PROVE  x = y
<1> DEFINE a == x[1]
           b == x[2]
           c == x[3]
           d == x[4]
           h == y[1]
           i == y[2]
           j == y[3]
           k == y[4]
<1>1. /\ a \in 1 .. 19 /\ b \in 1 .. 23 /\ c \in 1 .. 29 /\ d \in 1 .. 35 /\ x = <<a, b, c, d>>
      /\ h \in 1 .. 19 /\ i \in 1 .. 23 /\ j \in 1 .. 29 /\ k \in 1 .. 35 /\ y = <<h, i, j, k>>
  BY PlaceType
<1>2. (((19 - a) * 23 + (23 - b)) * 29 + (29 - c)) * 35 + (35 - d)
        = (((19 - h) * 23 + (23 - i)) * 29 + (29 - j)) * 35 + (35 - k)
  BY DEF Index
<1> HIDE DEF a, b, c, d, h, i, j, k
<1> DEFINE u == (19 - a) * 23 + (23 - b)
           w == (19 - h) * 23 + (23 - i)
<1>6. u \in Int /\ w \in Int /\ (u * 29 + (29 - c)) * 35 + (35 - d) = (w * 29 + (29 - j)) * 35 + (35 - k)
  BY <1>1, <1>2, SMT
<1> HIDE DEF u, w
<1> DEFINE P == u * 29 + (29 - c)
           Q == w * 29 + (29 - j)
<1>7. P \in Int /\ Q \in Int /\ P * 35 + (35 - d) = Q * 35 + (35 - k)
  BY <1>1, <1>6, SMT
<1>3. d = k /\ u * 29 + (29 - c) = w * 29 + (29 - j)
  <2> HIDE DEF P, Q
  <2>1. d = k /\ P = Q
    BY <1>1, <1>7, LastDigit, SMT
  <2> QED
    BY <2>1 DEF P, Q
<1>4. c = j /\ u = w
  BY <1>1, <1>3, <1>6, SMT
<1>5. b = i /\ a = h
  BY <1>1, <1>4, SMT DEF u, w
<1> QED
  BY <1>1, <1>3, <1>4, <1>5

LEMMA LastIndex ==
  ASSUME NEW x \in Places
  PROVE  Index(x) <= Index(<<1, 1, 1, 1>>)
<1> DEFINE a == x[1]
           b == x[2]
           c == x[3]
           d == x[4]
<1>1. a \in 1 .. 19 /\ b \in 1 .. 23 /\ c \in 1 .. 29 /\ d \in 1 .. 35
  BY PlaceType
<1>2. Index(x) = (((19 - a) * 23 + (23 - b)) * 29 + (29 - c)) * 35 + (35 - d)
  BY DEF Index
<1>3. Index(<<1, 1, 1, 1>>) = (((19 - 1) * 23 + (23 - 1)) * 29 + (29 - 1)) * 35 + (35 - 1)
  BY DEF Index
<1> HIDE DEF a, b, c, d
<1>4. (((19 - a) * 23 + (23 - b)) * 29 + (29 - c)) * 35 + (35 - d)
        <= (((19 - 1) * 23 + (23 - 1)) * 29 + (29 - 1)) * 35 + (35 - 1)
  BY <1>1, SMT
<1> QED
  BY <1>2, <1>3, <1>4, Zenon

\* A place has one number.
LEMMA AtUnique ==
  ASSUME start.K \in Nat, start.entry \in Counters, NEW x \in Places, NEW n, At(n, x), NEW k, At(k, x)
  PROVE  n = k
<1> DEFINE m == Modulus
           y == Place(start.K, start.entry, x[1], x[2], x[3], x[4])
           a == Val(n)
           b == Val(k)
<1>1. /\ n \in UInt64 /\ k \in UInt64 /\ a \in Nat /\ b \in Nat /\ a < m /\ b < m /\ m \in Nat \ {0}
      /\ Congruent(a, y, m) /\ Congruent(b, y, m)
  BY Words, HundredIs DEF At, Below, Located
<1>2. y \in Int
  <2>1. x[1] \in Int /\ x[2] \in Int /\ x[3] \in Int /\ x[4] \in Int /\ 0 \in Int
    BY PlaceType, SMT
  <2> QED
    BY <2>1, PlaceMoves
<1> HIDE DEF m, y, a, b
<1>3. Congruent(a, b, m)
  <2>1. a \in Int /\ b \in Int /\ m \in Int
    BY <1>1
  <2>2. Congruent(y, b, m)
    BY <1>1, <1>2, <2>1, CongruentSym
  <2> QED
    BY <1>1, <1>2, <2>1, <2>2, CongruentTrans
<1>4. a \in 0 .. m - 1 /\ b \in 0 .. m - 1
  BY <1>1, SMT
<1>5. a = b
  BY <1>1, <1>3, <1>4, CongruentUnique
<1> QED
  BY <1>1, <1>5, ValUnique DEF a, b

\* Multiples of s that agree modulo a prime that does not divide s are the same.
LEMMA CancelBelow ==
  ASSUME NEW p, Undivided(p), NEW s \in Nat, s % p # 0, NEW a \in 1 .. p - 1, NEW b \in 1 .. p - 1, b <= a,
         Congruent(a * s, b * s, p)
  PROVE  a = b
<1>1. /\ p \in Nat /\ p \in Nat \ {0} /\ p \in Int /\ 1 < p /\ \A d \in 2 .. p - 1 : p % d # 0
      /\ a \in Nat /\ b \in Nat
  BY SMT DEF Undivided
<1> DEFINE c == a - b
<1>2. c \in 0 .. p - 1 /\ c \in Nat
  BY <1>1, SMT
<1>3. Congruent(a * s - b * s, b * s - b * s, p)
  <2>1. a * s \in Int /\ b * s \in Int
    BY <1>1
  <2> QED
    BY <1>1, <2>1, CongruentSelf, CongruentSum
<1>4. a * s - b * s = c * s /\ b * s - b * s = 0
  BY <1>1, SMT
<1>5. Congruent(c * s, 0, p)
  BY <1>3, <1>4
<1> HIDE DEF c
<1>6. c * s \in Int /\ 0 \in Int
  BY <1>2
<1>7. (c * s) % p = 0 % p /\ 0 % p = 0
  <2>1. 0 % p = 0
    BY <1>1, SMT
  <2> DEFINE z == c * s
  <2>2. z \in Int /\ Congruent(z, 0, p)
    BY <1>5, <1>6
  <2> HIDE DEF z
  <2>3. z % p = 0 % p
    BY <1>1, <1>6, <2>2, SameRemainder
  <2> QED
    BY <2>1, <2>3 DEF z
<1>8. c % p = 0
  BY <1>1, <1>2, <1>7, Euclid
<1>9. c = 0
  BY <1>1, <1>2, <1>8, SMT
<1> QED
  BY <1>1, <1>9, SMT DEF c

LEMMA CancelClass ==
  ASSUME NEW p, Undivided(p), NEW s \in Nat, s % p # 0, NEW a \in 1 .. p - 1, NEW b \in 1 .. p - 1,
         NEW x \in Int, Congruent(x, a * s, p), Congruent(x, b * s, p)
  PROVE  a = b
<1>1. p \in Int /\ a \in Int /\ b \in Int /\ a * s \in Int /\ b * s \in Int
  BY SMT DEF Undivided
<1>2. Congruent(a * s, x, p) /\ Congruent(b * s, x, p)
  BY <1>1, CongruentSym
<1>3. Congruent(a * s, b * s, p) /\ Congruent(b * s, a * s, p)
  BY <1>1, <1>2, CongruentTrans
<1>4. CASE b <= a
  BY <1>3, <1>4, CancelBelow
<1>5. CASE a <= b
  BY <1>3, <1>5, CancelBelow
<1> QED
  BY <1>1, <1>4, <1>5, SMT

\* What is congruent modulo MOD is congruent modulo a prime of the loops.
LEMMA LoopModulus ==
  ASSUME NEW p \in LoopPrimes, NEW x \in Int, NEW y \in Int, Congruent(x, y, Modulus)
  PROVE  Congruent(x, y, p)
<1> DEFINE M == Modulus
           k == M \div p
<1>1. M \in Int /\ M % p = 0 /\ p \in Nat \ {0} /\ p \in Int
  BY LoopPrimesAre, ModulusIs, SMT
<1>2. M = p * k + (M % p) /\ k \in Int
  BY <1>1, Division
<1> HIDE DEF M, k
<1>3. M = k * p
  BY <1>1, <1>2, SMT
<1>4. Congruent(x, y, k * p)
  BY <1>3 DEF M
<1> QED
  BY <1>1, <1>2, <1>4, CongruentFactor

\* The number of a place is, modulo the prime of a loop, what the loop has counted.
LEMMA PlaceClass ==
  ASSUME start.K \in Searched, start.entry \in Counters, NEW n, NEW x \in Places, At(n, x),
         NEW p \in LoopPrimes, NEW h, Weights(p, h)
  PROVE  /\ Weight(h, start.entry, x[1], x[2], x[3], x[4]) \in Int
         /\ Congruent(Val(n), Weight(h, start.entry, x[1], x[2], x[3], x[4])
                                * (start.K * Val(PRIM23)), p)
<1> DEFINE K == start.K
           e == start.entry
           R == Val(PRIM23)
           y == Val(n)
           o == Offset(e)
           m == Weight(h, e, x[1], x[2], x[3], x[4])
           u == Multiplier(e, x[1], x[2], x[3], x[4])
<1>1. K \in Nat /\ K \in Int /\ e \in Counters /\ R \in Nat /\ y \in Int
  <2>1. K \in Nat
    BY SearchedIs
  <2>2. R \in Nat
    BY NumbersAre, SMT
  <2>3. y \in Nat
    BY Words DEF At, Below
  <2> QED
    BY <2>1, <2>2, <2>3
<1>2. x[1] \in Int /\ x[2] \in Int /\ x[3] \in Int /\ x[4] \in Int /\ p \in Int /\ 0 \in Int
  BY PlaceType, LoopPrimesAre, SMT
<1>3. o \in Int /\ u \in Int /\ m \in Int /\ Congruent(u, m * R, p)
  BY <1>1, <1>2, OffsetType, MultiplierIs, MultiplierClass
<1>4. Congruent(y, o + K * u, Modulus)
  BY DEF At, Located, Place
<1>5. Congruent(o, 0, p)
  BY <1>1, OffsetZero
<1> HIDE DEF K, e, R, y, o, m, u
<1>6. K * u \in Int /\ o + K * u \in Int /\ m * R \in Int /\ K * (m * R) \in Int /\ m * (K * R) \in Int
  BY <1>1, <1>3
<1>7. Congruent(y, o + K * u, p)
  BY <1>1, <1>4, <1>6, LoopModulus
<1>8. Congruent(K * u, K * (m * R), p)
  BY <1>1, <1>2, <1>3, <1>6, CongruentMultiple
<1>9. Congruent(o + K * u, 0 + K * (m * R), p)
  BY <1>2, <1>3, <1>5, <1>6, <1>8, CongruentSum
<1>10. 0 + K * (m * R) = m * (K * R)
  BY <1>1, <1>3, <1>6, SMT
<1>11. Congruent(y, m * (K * R), p)
  BY <1>1, <1>2, <1>6, <1>7, <1>9, <1>10, CongruentTrans
<1> QED
  BY <1>3, <1>11 DEF m, K, R, y, e

\* One loop counts the same at two places with the same number.
LEMMA SameCount ==
  ASSUME start.K \in Searched, start.entry \in Counters, NEW n, NEW x \in Places, At(n, x),
         NEW y \in Places, At(n, y), NEW p \in LoopPrimes, NEW h, Weights(p, h),
         Weight(h, start.entry, x[1], x[2], x[3], x[4]) \in 1 .. p - 1,
         Weight(h, start.entry, y[1], y[2], y[3], y[4]) \in 1 .. p - 1
  PROVE  Weight(h, start.entry, x[1], x[2], x[3], x[4]) = Weight(h, start.entry, y[1], y[2], y[3], y[4])
<1> DEFINE K == start.K
           R == Val(PRIM23)
           s == K * R
           a == Weight(h, start.entry, x[1], x[2], x[3], x[4])
           b == Weight(h, start.entry, y[1], y[2], y[3], y[4])
<1>1. /\ p \in 29 .. 59 /\ p % 2 # 0 /\ p % 3 # 0 /\ p % 5 # 0 /\ p % 7 # 0 /\ R % p # 0
  BY LoopPrimesAre
<1>2. Undivided(p) /\ p \in Nat /\ 1 < p /\ \A d \in 2 .. p - 1 : p % d # 0
  BY <1>1, LoopPrimeIs, SMT DEF Undivided
<1>3. K \in Nat /\ K % p # 0
  BY SearchedIs DEF Searched
<1>4. R \in Nat
  BY NumbersAre, SMT
<1>5. Congruent(Val(n), a * s, p) /\ Congruent(Val(n), b * s, p)
  BY PlaceClass
<1>6. Val(n) \in Int
  BY Words DEF At, Below
<1>7. a \in 1 .. p - 1 /\ b \in 1 .. p - 1
  OBVIOUS
<1> HIDE DEF K, R, a, b
<1>8. s \in Nat /\ s % p # 0
  BY <1>1, <1>2, <1>3, <1>4, ProductType, Euclid
<1> HIDE DEF s
<1> QED
  BY <1>2, <1>5, <1>6, <1>7, <1>8, CancelClass DEF a, b

\* No two places have the same number.
LEMMA PlaceUnique ==
  ASSUME start.K \in Searched, start.entry \in Counters, NEW n, NEW x \in Places, At(n, x),
         NEW y \in Places, At(n, y)
  PROVE  x = y
<1> DEFINE e == start.entry
<1>1. /\ x[1] \in 1 .. 19 /\ x[2] \in 1 .. 23 /\ x[3] \in 1 .. 29 /\ x[4] \in 1 .. 35
      /\ y[1] \in 1 .. 19 /\ y[2] \in 1 .. 23 /\ y[3] \in 1 .. 29 /\ y[4] \in 1 .. 35
      /\ x = <<x[1], x[2], x[3], x[4]>> /\ y = <<y[1], y[2], y[3], y[4]>>
  BY PlaceType
<1>2. e[1] \in Int /\ e[2] \in Int /\ e[3] \in Int
  BY DEF Counters
<1>3. x[1] = y[1]
  <2> DEFINE h == <<1, 0, 0, 0, 1, 0, 0, 0>>
  <2>1. Weights(43, h) /\ 43 \in LoopPrimes
    BY WeightsAre, SMT DEF LoopPrimes
  <2>2. \A z \in Places : Weight(h, e, z[1], z[2], z[3], z[4]) = 20 - z[1]
    <3> SUFFICES ASSUME NEW z \in Places PROVE Weight(h, e, z[1], z[2], z[3], z[4]) = 20 - z[1]
      OBVIOUS
    <3> QED
      BY <1>2, PlaceType, SMT DEF Weight
  <2>3. 20 - x[1] \in 1 .. 43 - 1 /\ 20 - y[1] \in 1 .. 43 - 1
    BY <1>1, SMT
  <2> HIDE DEF h, e
  <2>4. 20 - x[1] = 20 - y[1]
    BY <2>1, <2>2, <2>3, SameCount DEF e
  <2> QED
    BY <1>1, <2>4, SMT
<1>4. x[2] = y[2]
  <2> DEFINE h == <<1, 0, 0, 0, 0, 1, 0, 0>>
  <2>1. Weights(47, h) /\ 47 \in LoopPrimes
    BY WeightsAre, SMT DEF LoopPrimes
  <2>2. \A z \in Places : Weight(h, e, z[1], z[2], z[3], z[4]) = 24 - z[2]
    <3> SUFFICES ASSUME NEW z \in Places PROVE Weight(h, e, z[1], z[2], z[3], z[4]) = 24 - z[2]
      OBVIOUS
    <3> QED
      BY <1>2, PlaceType, SMT DEF Weight
  <2>3. 24 - x[2] \in 1 .. 47 - 1 /\ 24 - y[2] \in 1 .. 47 - 1
    BY <1>1, SMT
  <2> HIDE DEF h, e
  <2>4. 24 - x[2] = 24 - y[2]
    BY <2>1, <2>2, <2>3, SameCount DEF e
  <2> QED
    BY <1>1, <2>4, SMT
<1>5. x[3] = y[3]
  <2> DEFINE h == <<1, 0, 0, 0, 0, 0, 1, 0>>
  <2>1. Weights(53, h) /\ 53 \in LoopPrimes
    BY WeightsAre, SMT DEF LoopPrimes
  <2>2. \A z \in Places : Weight(h, e, z[1], z[2], z[3], z[4]) = 30 - z[3]
    <3> SUFFICES ASSUME NEW z \in Places PROVE Weight(h, e, z[1], z[2], z[3], z[4]) = 30 - z[3]
      OBVIOUS
    <3> QED
      BY <1>2, PlaceType, SMT DEF Weight
  <2>3. 30 - x[3] \in 1 .. 53 - 1 /\ 30 - y[3] \in 1 .. 53 - 1
    BY <1>1, SMT
  <2> HIDE DEF h, e
  <2>4. 30 - x[3] = 30 - y[3]
    BY <2>1, <2>2, <2>3, SameCount DEF e
  <2> QED
    BY <1>1, <2>4, SMT
<1>6. x[4] = y[4]
  <2> DEFINE h == <<1, 0, 0, 0, 0, 0, 0, 1>>
  <2>1. Weights(59, h) /\ 59 \in LoopPrimes
    BY WeightsAre, SMT DEF LoopPrimes
  <2>2. \A z \in Places : Weight(h, e, z[1], z[2], z[3], z[4]) = 36 - z[4]
    <3> SUFFICES ASSUME NEW z \in Places PROVE Weight(h, e, z[1], z[2], z[3], z[4]) = 36 - z[4]
      OBVIOUS
    <3> QED
      BY <1>2, PlaceType, SMT DEF Weight
  <2>3. 36 - x[4] \in 1 .. 59 - 1 /\ 36 - y[4] \in 1 .. 59 - 1
    BY <1>1, SMT
  <2> HIDE DEF h, e
  <2>4. 36 - x[4] = 36 - y[4]
    BY <2>1, <2>2, <2>3, SameCount DEF e
  <2> QED
    BY <1>1, <2>4, SMT
<1> QED
  BY <1>1, <1>3, <1>4, <1>5, <1>6

-----------------------------------------------------------------------------
\* The primes of the tests.

\* Each prime from 7 on is tested by the loops, the look-ups or what follows them.
LEMMA PrimesSplit ==
  ASSUME NEW p \in PrimesIn(7, 541)
  PROVE  p \in PrimesIn(7, 23) \/ p \in LoopPrimes \/ p \in PrimesIn(61, 277) \/ p \in PrimesIn(281, 541)
<1>1. p \in 7 .. 541 /\ p \in Primes /\ IsPrime(p)
  BY SMT DEF PrimesIn, Primes
<1>2. ASSUME NEW d \in {2, 3, 5, 7}, d * d <= p
      PROVE  p % d # 0
  <2>1. d \in 2 .. p - 1
    BY <1>1, <1>2, SMT
  <2> QED
    BY <1>1, <1>2, <2>1 DEF IsPrime
<1>3. p % 2 # 0 /\ (9 <= p => p % 3 # 0) /\ (25 <= p => p % 5 # 0) /\ (49 <= p => p % 7 # 0)
  BY <1>1, <1>2, SMT
<1>4. p <= 23 \/ p \in LoopPrimes \/ (61 <= p /\ p <= 277) \/ 281 <= p
  BY <1>1, <1>3, SMT DEF LoopPrimes
<1> QED
  BY <1>1, <1>4, SMT DEF PrimesIn

LEMMA SmallPrimes ==
  ASSUME NEW p \in PrimesIn(7, 23)
  PROVE  p \in {7, 11, 13, 17, 19, 23} /\ p \in Primes /\ p \in PrimesIn(7, 541)
<1>1. p \in 7 .. 23 /\ p \in Primes /\ IsPrime(p)
  BY SMT DEF PrimesIn, Primes
<1>2. ASSUME NEW d \in {2, 3}, d * d <= p
      PROVE  p % d # 0
  <2>1. d \in 2 .. p - 1
    BY <1>1, <1>2, SMT
  <2> QED
    BY <1>1, <1>2, <2>1 DEF IsPrime
<1>3. p % 2 # 0 /\ (9 <= p => p % 3 # 0)
  BY <1>1, <1>2, SMT
<1>4. p \in {7, 11, 13, 17, 19, 23}
  BY <1>1, <1>3, SMT
<1> QED
  BY <1>1, <1>4, SMT DEF PrimesIn

\* The primes a variant looks up.
LookedUp(u) == IF u \in CPU THEN PrimesIn(61, 277) ELSE PrimesIn(61, 541)

LEMMA CpuCover ==
  ASSUME NEW p \in PrimesIn(61, 277)
  PROVE  \E h \in 1 .. 3 : p \in CpuGroups[h]
<1>1. p \in PrimesIn(61, 541) /\ 61 <= p /\ p <= 277 /\ p \in Int /\ p \in Primes
  BY SMT DEF PrimesIn, Primes
<1>2. PICK i \in 1 .. 83 : g_primes[i] = p
  BY <1>1, PrimesListed
<1>3. \A j \in 1 .. 83 : g_primes[j] <= 137 \/ (139 <= g_primes[j] /\ g_primes[j] <= 199) \/ 211 <= g_primes[j]
  BY SMTT(60) DEF g_primes
<1>4. p <= 137 \/ (139 <= p /\ p <= 199) \/ 211 <= p
  BY <1>2, <1>3
<1>5. p \in PrimesIn(61, 137) \/ p \in PrimesIn(139, 199) \/ p \in PrimesIn(211, 277)
  BY <1>1, <1>4 DEF PrimesIn
<1> QED
  BY <1>5, SMT DEF CpuGroups

LEMMA NvCover ==
  ASSUME NEW p \in PrimesIn(61, 541)
  PROVE  \E h \in 1 .. Len(NvGroups_cuda) : p \in NvGroups_cuda[h]
<1>1. 61 <= p /\ p <= 541 /\ p \in Int /\ p \in Primes
  BY SMT DEF PrimesIn, Primes
<1>2. PICK i \in 1 .. 83 : g_primes[i] = p
  BY <1>1, PrimesListed
<1>3. \A j \in 1 .. 83 :
        \/ g_primes[j] <= 257
        \/ 263 <= g_primes[j] /\ g_primes[j] <= 307
        \/ 311 <= g_primes[j] /\ g_primes[j] <= 353
        \/ 359 <= g_primes[j] /\ g_primes[j] <= 401
        \/ 409 <= g_primes[j] /\ g_primes[j] <= 449
        \/ 457 <= g_primes[j] /\ g_primes[j] <= 499
        \/ 503 <= g_primes[j]
  BY SMTT(60) DEF g_primes
<1>4. \/ p <= 257
      \/ 263 <= p /\ p <= 307
      \/ 311 <= p /\ p <= 353
      \/ 359 <= p /\ p <= 401
      \/ 409 <= p /\ p <= 449
      \/ 457 <= p /\ p <= 499
      \/ 503 <= p
  BY <1>2, <1>3
<1>5. \/ p \in PrimesIn(61, 257) \/ p \in PrimesIn(263, 307) \/ p \in PrimesIn(311, 353)
      \/ p \in PrimesIn(359, 401) \/ p \in PrimesIn(409, 449) \/ p \in PrimesIn(457, 499)
      \/ p \in PrimesIn(503, 541)
  BY <1>1, <1>4 DEF PrimesIn
<1>6. /\ Len(NvGroups_cuda) = 7
      /\ NvGroups_cuda[1] = PrimesIn(61, 257) /\ NvGroups_cuda[2] = PrimesIn(263, 307)
      /\ NvGroups_cuda[3] = PrimesIn(311, 353) /\ NvGroups_cuda[4] = PrimesIn(359, 401)
      /\ NvGroups_cuda[5] = PrimesIn(409, 449) /\ NvGroups_cuda[6] = PrimesIn(457, 499)
      /\ NvGroups_cuda[7] = PrimesIn(503, 541)
  BY SMT DEF NvGroups_cuda
<1>7. /\ 1 \in 1 .. 7 /\ 2 \in 1 .. 7 /\ 3 \in 1 .. 7 /\ 4 \in 1 .. 7 /\ 5 \in 1 .. 7 /\ 6 \in 1 .. 7
      /\ 7 \in 1 .. 7
  BY SMT
<1>8. \/ p \in NvGroups_cuda[1] \/ p \in NvGroups_cuda[2] \/ p \in NvGroups_cuda[3]
      \/ p \in NvGroups_cuda[4] \/ p \in NvGroups_cuda[5] \/ p \in NvGroups_cuda[6]
      \/ p \in NvGroups_cuda[7]
  BY <1>5, <1>6
<1>9. \E h \in 1 .. 7 : p \in NvGroups_cuda[h]
  BY <1>7, <1>8
<1> QED
  BY <1>6, <1>9

LEMMA StdCover ==
  ASSUME NEW p \in PrimesIn(61, 541)
  PROVE  \E h \in 1 .. Len(StdGroups) : p \in StdGroups[h]
<1> DEFINE s == <<PrimesIn(61, 79), PrimesIn(83, 103), PrimesIn(107, 131),
                  PrimesIn(137, 151), PrimesIn(157, 173)>>
           t == [i \in 1 .. 30 |-> {g_primes[22 + 2 * i], g_primes[23 + 2 * i]}]
           X == {s[i] : i \in 1 .. 5} \cup {t[i] : i \in 1 .. 30}
<1>1. 61 <= p /\ p <= 541 /\ p \in Int /\ p \in Primes
  BY SMT DEF PrimesIn, Primes
<1>2. PICK i \in 1 .. 83 : g_primes[i] = p
  BY <1>1, PrimesListed
<1>3. Len(s) = 5 /\ s = [j \in 1 .. 5 |-> s[j]] /\ Len(t) = 30
  BY SMT
<1>4. s \in Seq(X) /\ t \in Seq(X)
  BY SMT
<1>5. /\ s[1] = PrimesIn(61, 79) /\ s[2] = PrimesIn(83, 103) /\ s[3] = PrimesIn(107, 131)
      /\ s[4] = PrimesIn(137, 151) /\ s[5] = PrimesIn(157, 173)
  BY SMT
<1>6. \A k \in 1 .. 30 : t[k] = {g_primes[22 + 2 * k], g_primes[23 + 2 * k]}
  BY Zenon
<1> HIDE DEF s, t, X
<1>7. /\ Len(s \o t) = 35
      /\ \A j \in 1 .. 5 : (s \o t)[j] = s[j]
      /\ \A k \in 1 .. 30 : (s \o t)[5 + k] = t[k]
  <2>1. /\ Len(s \o t) = Len(s) + Len(t)
        /\ \A j \in 1 .. Len(s) + Len(t) : (s \o t)[j] = IF j <= Len(s) THEN s[j] ELSE t[j - Len(s)]
    BY <1>4, ConcatProperties
  <2>5. Len(s) + Len(t) = 35 /\ Len(s) = 5
    BY <1>3, SMT
  <2>2. \A j \in 1 .. 35 : (s \o t)[j] = IF j <= 5 THEN s[j] ELSE t[j - 5]
    BY <2>1, <2>5
  <2>3. Len(s \o t) = 35
    BY <2>1, <2>5
  <2>4. ASSUME NEW k \in 1 .. 30
        PROVE  (s \o t)[5 + k] = t[k]
    <3>1. 5 + k \in 1 .. 35 /\ ~(5 + k <= 5) /\ (5 + k) - 5 = k
      BY SMT
    <3> QED
      BY <2>2, <3>1
  <2>6. ASSUME NEW j \in 1 .. 5
        PROVE  (s \o t)[j] = s[j]
    <3>1. j \in 1 .. 35 /\ j <= 5
      BY SMT
    <3> QED
      BY <2>2, <3>1
  <2> QED
    BY <2>3, <2>4, <2>6
<1>8. StdGroups = s \o t
  BY DEF StdGroups, s, t
<1>9. CASE i <= 23
  <2>1. \A j \in 1 .. 23 :
          \/ g_primes[j] <= 79
          \/ 83 <= g_primes[j] /\ g_primes[j] <= 103
          \/ 107 <= g_primes[j] /\ g_primes[j] <= 131
          \/ 137 <= g_primes[j] /\ g_primes[j] <= 151
          \/ 157 <= g_primes[j] /\ g_primes[j] <= 173
    BY SMTT(60) DEF g_primes
  <2>2. i \in 1 .. 23
    BY <1>9, SMT
  <2>3. \/ p <= 79
        \/ 83 <= p /\ p <= 103
        \/ 107 <= p /\ p <= 131
        \/ 137 <= p /\ p <= 151
        \/ 157 <= p /\ p <= 173
    BY <1>2, <2>1, <2>2
  <2>4. \/ p \in PrimesIn(61, 79) \/ p \in PrimesIn(83, 103) \/ p \in PrimesIn(107, 131)
        \/ p \in PrimesIn(137, 151) \/ p \in PrimesIn(157, 173)
    BY <1>1, <2>3 DEF PrimesIn
  <2>5. \E j \in 1 .. 5 : p \in s[j]
    <3>1. 1 \in 1 .. 5 /\ 2 \in 1 .. 5 /\ 3 \in 1 .. 5 /\ 4 \in 1 .. 5 /\ 5 \in 1 .. 5
      BY SMT
    <3>2. p \in s[1] \/ p \in s[2] \/ p \in s[3] \/ p \in s[4] \/ p \in s[5]
      BY <1>5, <2>4
    <3> QED
      BY <3>1, <3>2
  <2>6. PICK j \in 1 .. 5 : p \in s[j]
    BY <2>5
  <2>7. j \in 1 .. 35
    BY SMT
  <2> QED
    BY <1>7, <1>8, <2>6, <2>7
<1>10. CASE ~(i <= 23)
  <2>1. PICK k \in 1 .. 30 : i = 22 + 2 * k \/ i = 23 + 2 * k
    <3> DEFINE k == (i - 22) \div 2
    <3>1. k \in 1 .. 30 /\ (i = 22 + 2 * k \/ i = 23 + 2 * k)
      BY <1>10, SMT
    <3> QED
      BY <3>1
  <2>2. p \in t[k]
    BY <1>2, <1>6, <2>1
  <2>3. 5 + k \in 1 .. 35
    BY SMT
  <2> QED
    BY <1>7, <1>8, <2>2, <2>3
<1> QED
  BY <1>9, <1>10

\* The groups of a variant are its primes, none left out.
LEMMA GroupsCover ==
  ASSUME NEW u \in CPU \cup Kernel, NEW p
  PROVE  p \in LookedUp(u) <=> \E h \in 1 .. Len(Groups(u)) : p \in Groups(u)[h]
<1>1. CASE u \in CPU
  <2>1. /\ Groups(u) = CpuGroups /\ Len(Groups(u)) = 3
        /\ \A h \in 1 .. 3 : CpuGroups[h] \subseteq PrimesIn(61, 277)
    <3>1. /\ Groups(u) = CpuGroups /\ Len(CpuGroups) = 3
          /\ \A h \in 1 .. 3 : CpuGroups[h] \subseteq PrimesIn(61, 277) /\ CpuGroups[h] # {}
      BY <1>1, CpuGroupsAre
    <3> QED
      BY <3>1
  <2>2. LookedUp(u) = PrimesIn(61, 277)
    BY <1>1 DEF LookedUp
  <2> QED
    BY <2>1, <2>2, CpuCover
<1>2. CASE u \in Kernel
  <2>1. u \notin CPU
    BY <1>2, SMT DEF CPU, Kernel, Cuda, OpenCL
  <2>2. LookedUp(u) = PrimesIn(61, 541)
    BY <2>1 DEF LookedUp
  <2>3. p \in PrimesIn(61, 541) => \E h \in 1 .. Len(Groups(u)) : p \in Groups(u)[h]
    BY <1>2, KernelGroupsAre, StdCover, NvCover
  <2>4. \A h \in 1 .. Len(Groups(u)) : Groups(u)[h] \subseteq PrimesIn(61, 541)
    BY <1>2, KernelGroups
  <2> QED
    BY <2>2, <2>3, <2>4
<1> QED
  BY <1>1, <1>2

-----------------------------------------------------------------------------
\* What a candidate that survived the look-ups still has to pass.

\* The whole window of the shift is free of the primes.
AllClean(n, s) == \A p \in PrimesIn(7, 541) : Clean(n, s, p)

\* The residues that are open, as they are defined.
LEMMA OpenResiduesAre ==
  ASSUME <<v, start>> \in Samples, NEW p \in PrimesIn(7, 541), NEW x \in 0 .. p - 1
  PROVE  Open(x, p) <=> \A t \in 0 .. 23 : (x + t * Rem(Times(Small(start.K), PRIM23), p)) % p # 0
<1> DEFINE S == Rem(Times(Small(start.K), PRIM23), p)
<1>1. OpenResidues[start.K][p] = {y \in 0 .. p - 1 : \A t \in 0 .. 23 : (y + t * S) % p # 0}
  <2>1. <<v, start>>[2].K = start.K
    OBVIOUS
  <2>2. start.K \in {s[2].K : s \in Samples}
    BY <2>1, Zenon
  <2> QED
    BY <2>2, Zenon DEF OpenResidues
<1> HIDE DEF S
<1>2. Open(x, p) <=> \A t \in 0 .. 23 : (x + t * S) % p # 0
  BY <1>1, Zenon DEF Open
<1> QED
  BY <1>2 DEF S

\* STEP is a multiple of the primes to 23, so one term of a window decides it.
LEMMA OpenSmall ==
  ASSUME <<v, start>> \in Samples, start.K \in Searched, NEW p \in PrimesIn(7, 23), NEW x \in 0 .. p - 1
  PROVE  Open(x, p) <=> x # 0
<1> DEFINE K == start.K
           R == Val(PRIM23)
           T == Times(Small(K), PRIM23)
<1>1. p \in PrimesIn(7, 541) /\ p \in {7, 11, 13, 17, 19, 23}
  BY SmallPrimes
<1>2. p \in Nat \ {0} /\ p \in Int
  BY <1>1, SMT
<1>3. R \in Nat /\ R \in Int /\ R % p = 0
  BY <1>1, NumbersAre, SMT
<1>4. T \in UInt64 /\ Val(T) = K * R /\ K \in Nat /\ K \in Int
  BY StepProduct, SearchedIs
<1>5. Open(x, p) <=> \A t \in 0 .. 23 : (x + t * Rem(T, p)) % p # 0
  BY <1>1, OpenResiduesAre
<1>6. Rem(T, p) = (K * R) % p
  BY <1>2, <1>4, RemIs
<1> HIDE DEF K, R, T
<1>7. Rem(T, p) = 0
  <2>1. 0 % p = 0 /\ 0 \in Int
    BY <1>2, SMT
  <2>2. Congruent(R, 0, p)
    BY <1>2, <1>3, <2>1, SameRemainder
  <2>6. PICK o \in Int : o = 0
    BY <2>1
  <2>9. o \in Int /\ Congruent(R, o, p)
    BY <2>2, <2>6
  <2>7. Congruent(K * R, K * o, p) /\ K * R \in Int
    <3>1. R \in Int /\ K \in Int /\ p \in Int
      BY <1>2, <1>3, <1>4
    <3>2. Congruent(K * R, K * o, p)
      BY <2>9, <3>1, CongruentMultiple
    <3>3. K * R \in Int
      BY <3>1, SMT
    <3> QED
      BY <3>2, <3>3
  <2>8. K * o = 0
    BY <1>4, <2>6, SMT
  <2>3. Congruent(K * R, 0, p) /\ K * R \in Int
    BY <2>7, <2>8
  <2> DEFINE z == K * R
  <2>4. z \in Int /\ Congruent(z, 0, p) /\ Rem(T, p) = z % p
    BY <1>6, <2>1, <2>3
  <2> HIDE DEF z
  <2>5. z % p = 0 % p
    BY <1>2, <2>1, <2>4, SameRemainder
  <2> QED
    BY <2>1, <2>4, <2>5
<1>8. \A t \in 0 .. 23 : x + t * 0 = x
  BY <1>2, SMT
<1>9. 0 \in 0 .. 23 /\ x % p = x
  BY <1>2, SMT
<1>10. (\A t \in 0 .. 23 : (x + t * 0) % p # 0) <=> x # 0
  BY <1>8, <1>9, Zenon
<1> QED
  BY <1>5, <1>7, <1>10

LEMMA CleanSmall ==
  ASSUME <<v, start>> \in Samples, start.K \in Searched, NEW n, Below(n), NEW s, InWord(s),
         NEW p \in PrimesIn(7, 23)
  PROVE  Clean(n, s, p) <=> Rem(Candidate(n, s), p) # 0
<1>1. p \in Primes
  BY SmallPrimes
<1>2. Spot(Rem(n, p), s, p) = Rem(Candidate(n, s), p) /\ Rem(Candidate(n, s), p) \in 0 .. p - 1
  BY <1>1, RowOfCandidate
<1> QED
  BY <1>2, OpenSmall DEF Clean

\* The loops leave the primes of their counters to no test.
LEMMA CleanLoops ==
  ASSUME CInv, Walking, NEW s \in Nat, NEW p \in LoopPrimes
  PROVE  Clean(n59, s, p)
<1> DEFINE r == Rem(n59, p)
<1>1. p \in Nat \ {0} /\ p \in Primes /\ p \in Int /\ Modulus % p = 0
  <2>1. /\ p \in 29 .. 59 /\ p \in Nat \ {0} /\ p % 2 # 0 /\ p % 3 # 0 /\ p % 5 # 0 /\ p % 7 # 0
        /\ Modulus % p = 0
    BY LoopPrimesAre
  <2>2. p \in PrimesIn(7, 541)
    BY <2>1, LoopPrimeIs
  <2> QED
    BY <2>1, <2>2 DEF PrimesIn
<1>2. n59 \in UInt64 /\ MOD \in UInt64 /\ Val(MOD) = Modulus
  BY PlaceIs, ModulusIs DEF Numbered, Below
<1>3. r \in 0 .. p - 1 /\ MODrem[p] = 0
  <2>1. r \in 0 .. p - 1
    BY <1>1, <1>2, RemIs
  <2>2. Rem(MOD, p) = Modulus % p
    BY <1>1, <1>2, RemIs
  <2> QED
    BY <1>1, <2>1, <2>2 DEF MODrem
<1>4. Open(r, p)
  <2>1. LET e == start.entry
        IN  /\ Class(29, 3) /\ Class(31, e[1] + 1) /\ Class(37, e[2] + 1) /\ Class(41, e[3] + 1)
            /\ Class(43, 20 - i43) /\ Class(47, 24 - i47) /\ Class(53, 30 - i53) /\ Class(59, 36 - i59)
    BY LoopClasses
  <2>2. \A m, d : Class(d, m) => Open(Rem(n59, d), d)
    BY DEF Class
  <2>3. /\ Open(Rem(n59, 29), 29) /\ Open(Rem(n59, 31), 31) /\ Open(Rem(n59, 37), 37)
        /\ Open(Rem(n59, 41), 41) /\ Open(Rem(n59, 43), 43) /\ Open(Rem(n59, 47), 47)
        /\ Open(Rem(n59, 53), 53) /\ Open(Rem(n59, 59), 59)
    BY <2>1, <2>2
  <2> QED
    BY <2>3 DEF LoopPrimes
<1> HIDE DEF r
<1>5. Spot(r, s, p) = r
  <2> DEFINE z == s % p
  <2>1. z \in Int
    BY <1>1, Division
  <2> HIDE DEF z
  <2>2. (r + z * 0) % p = r
    BY <1>1, <1>3, <2>1, SMT
  <2> QED
    BY <1>3, <2>2 DEF Spot, z
<1> QED
  BY <1>4, <1>5 DEF Clean, r

\* A cell of a CPU table, at the residue of a candidate.
LEMMA CleanTested ==
  ASSUME IInv, Made, pc # "prepare", v \in CPU, NEW P \in PrimesIn(61, 541), NEW n, Below(n),
         NEW s, InWord(s)
  PROVE  Rem(Candidate(n, s), P) \notin ok[P] <=> Clean(n, s, P)
<1>1. P \in Primes /\ <<v, start>> \in Samples
  BY DEF PrimesIn, IInv, Sampled
<1>2. OKPrimes(v) = PrimesIn(61, 541)
  BY OfIs DEF OKPrimes, Of5, CPU, OKPrimes_sse2, OKPrimes_sse41, OKPrimes_avx, OKPrimes_avx2,
     OKPrimes_avx512
<1>3. STEPofK \in UInt64
  BY <1>1, PositionIs, IntIs, ConstantsAre, TimesIs DEF STEPofK
<1>4. MakeOK(v, P, STEPofK) = MakeOK_sse2(P, STEPofK)
  BY <1>2, <1>3, MakeOKIs
<1>5. ok[P] = MakeOK(v, P, STEPofK)
  <2>1. ok = [Q \in OKPrimes(v) |-> MakeOK(v, Q, STEPofK)]
    BY DEF Made
  <2> QED
    BY <1>2, <2>1
<1>6. Spot(Rem(n, P), s, P) = Rem(Candidate(n, s), P) /\ Rem(Candidate(n, s), P) \in 0 .. P - 1
  BY <1>1, RowOfCandidate
<1> DEFINE x == Rem(Candidate(n, s), P)
<1> HIDE DEF x
<1>7. Open(x, P) <=> x \notin MakeOK_sse2(P, STEPofK)
  BY <1>1, <1>6, OpenIs DEF x, STEPofK
<1> QED
  BY <1>4, <1>5, <1>6, <1>7 DEF Clean, x

\* The tests in front of the walk, for any candidate.
LEMMA PassesAre ==
  ASSUME v \in CPU \cup Kernel, NEW c
  PROVE  Passes(c) <=> /\ \A p \in PrimesIn(7, 23) : Rem(c, p) # 0
                       /\ v \in CPU => \A P \in PrimesIn(281, 541) : Rem(c, P) \notin ok[P]
<1> DEFINE a == \A p \in PrimesIn(7, 23) : Rem(c, p) # 0
           b == a /\ \A P \in PrimesIn(281, 541) : Rem(c, P) \notin ok[P]
<1>1. Passes(c) = Of(v, Passes_sse2(c, ok), Passes_sse41(c, ok), Passes_avx(c, ok), Passes_avx2(c, ok),
                     Passes_avx512(c, ok), Kept_cuda(c), Kept_opencl(c))
  BY DEF Passes
<1>2. /\ Passes_sse2(c, ok) = b /\ Passes_sse41(c, ok) = b /\ Passes_avx(c, ok) = b
      /\ Passes_avx2(c, ok) = b /\ Passes_avx512(c, ok) = b
  BY DEF Passes_sse2, Passes_sse41, Passes_avx, Passes_avx2, Passes_avx512, Tested_sse2, Tested_sse41,
     Tested_avx, Tested_avx2, Tested_avx512
<1>3. Kept_cuda(c) = a /\ Kept_opencl(c) = a
  BY DEF Kept_cuda, Kept_opencl
<1>4. b <=> a /\ \A P \in PrimesIn(281, 541) : Rem(c, P) \notin ok[P]
  OBVIOUS
<1> HIDE DEF a, b
<1>5. Passes(c) = Of(v, b, b, b, b, b, a, a)
  BY <1>1, <1>2, <1>3
<1>6. v \in CPU \/ v \in Cuda \/ v \in OpenCL
  BY VariantsAre
<1>7. CASE v \in CPU
  BY <1>4, <1>5, <1>7, OfSame DEF a
<1>8. CASE v \in Cuda
  <2>1. v \notin CPU
    BY <1>8, SMT DEF CPU, Cuda
  <2>2. Passes(c) = a
    BY <1>5, <1>8, OfCuda
  <2> QED
    BY <2>1, <2>2 DEF a
<1>9. CASE v \in OpenCL
  <2>1. v \notin CPU
    BY <1>9, SMT DEF CPU, OpenCL
  <2>2. Passes(c) = a
    BY <1>5, <1>9, OfOpenCL
  <2> QED
    BY <2>1, <2>2 DEF a
<1> QED
  BY <1>6, <1>7, <1>8, <1>9

\* Of what survives every group, the tests let through what has a clean window.
LEMMA PassesIs ==
  ASSUME CInv, Made, Walking, NEW s, InWord(s), \A p \in LookedUp(v) : Clean(n59, s, p)
  PROVE  Passes(Candidate(n59, s)) <=> AllClean(n59, s)
<1>1. /\ v \in CPU \cup Kernel /\ <<v, start>> \in Samples /\ start.K \in Searched /\ Below(n59)
      /\ IInv /\ pc # "prepare" /\ s \in Nat
  <2>1. s \in Nat
    BY IntMaxIs, SMT DEF InWord
  <2> QED
    BY <2>1, PlaceIs DEF CInv, IInv, Sampled, Numbered, Walking
<1>2. (\A p \in PrimesIn(7, 23) : Rem(Candidate(n59, s), p) # 0)
        <=> \A p \in PrimesIn(7, 23) : Clean(n59, s, p)
  BY <1>1, CleanSmall
<1>3. \A p \in LoopPrimes : Clean(n59, s, p)
  BY <1>1, CleanLoops
<1>4. /\ \A p \in PrimesIn(281, 541) : p \in PrimesIn(61, 541)
      /\ \A p \in PrimesIn(61, 277) : p \in PrimesIn(61, 541)
      /\ \A p \in PrimesIn(61, 541) : p \in PrimesIn(7, 541)
      /\ \A p \in PrimesIn(7, 23) : p \in PrimesIn(7, 541)
  BY SMT DEF PrimesIn, Primes
<1>5. CASE v \in CPU
  <2>1. (\A P \in PrimesIn(281, 541) : Rem(Candidate(n59, s), P) \notin ok[P])
          <=> \A P \in PrimesIn(281, 541) : Clean(n59, s, P)
    BY <1>1, <1>4, <1>5, CleanTested
  <2>2. \A p \in PrimesIn(61, 277) : Clean(n59, s, p)
    BY <1>5 DEF LookedUp
  <2>3. Passes(Candidate(n59, s))
          <=> /\ \A p \in PrimesIn(7, 23) : Clean(n59, s, p)
              /\ \A P \in PrimesIn(281, 541) : Clean(n59, s, P)
    BY <1>1, <1>2, <1>5, <2>1, PassesAre
  <2> QED
    BY <1>3, <1>4, <2>2, <2>3, PrimesSplit DEF AllClean
<1>6. CASE v \notin CPU
  <2>1. \A p \in PrimesIn(61, 541) : Clean(n59, s, p)
    BY <1>6 DEF LookedUp
  <2>2. Passes(Candidate(n59, s)) <=> \A p \in PrimesIn(7, 23) : Clean(n59, s, p)
    BY <1>1, <1>2, <1>6, PassesAre
  <2> QED
    BY <1>3, <1>4, <2>1, <2>2, PrimesSplit DEF AllClean
<1> QED
  BY <1>5, <1>6

-----------------------------------------------------------------------------
\* What the iterations have gone through.

\* The bits of the words are the shifts of the iteration, in one part each.
BitsUpTo(u, w) ==
  /\ \A s \in Nat : NextSHIFT(u, s) = s + w
  /\ \A b \in Int : b \in 0 .. w - 1 <=> \E h \in 1 .. Len(Bits(u)) : b \in Bits(u)[h]
  /\ \A b, h, k : h \in 1 .. Len(Bits(u)) /\ k \in 1 .. Len(Bits(u)) /\ b \in Bits(u)[h] /\ b \in Bits(u)[k] => h = k
LEMMA OnePart ==
  ASSUME NEW u, NEW w \in Nat, NEW l \in Nat, w = l + 1, \A s \in Nat : NextSHIFT(u, s) = s + w,
         Bits(u) = <<0 .. l>>
  PROVE  BitsUpTo(u, w)
<1>1. Len(Bits(u)) = 1 /\ Bits(u)[1] = 0 .. w - 1 /\ \A h : h \in 1 .. 1 <=> h = 1
  BY SMT
<1>2. \A b \in Int : b \in 0 .. w - 1 <=> \E h \in 1 .. Len(Bits(u)) : b \in Bits(u)[h]
  BY <1>1
<1>3. \A b, h, k : h \in 1 .. Len(Bits(u)) /\ k \in 1 .. Len(Bits(u)) /\ b \in Bits(u)[h] /\ b \in Bits(u)[k]
                     => h = k
  BY <1>1
<1> QED
  BY <1>2, <1>3 DEF BitsUpTo

LEMMA BitsCover ==
  ASSUME NEW u \in CPU \cup Kernel
  PROVE  \E w \in 1 .. 640 : BitsUpTo(u, w)
<1>1. u \in {"sse2", "sse41"} \/ u \in {"avx", "avx2"} \/ u = "avx512" \/ u \in Cuda \/ u \in OpenCL
  BY SMT DEF CPU, Kernel
<1>2. CASE u \in {"sse2", "sse41"}
  <2>1. (\A s \in Nat : NextSHIFT(u, s) = s + 128) /\ Bits(u) = <<0 .. 127>>
    BY <1>2, OfIs DEF NextSHIFT, Bits, NextSHIFT_sse2, NextSHIFT_sse41, Bits_sse2, Bits_sse41
  <2>2. 128 \in 1 .. 640 /\ 128 \in Nat /\ 127 \in Nat /\ 128 = 127 + 1
    BY SMT
  <2> QED
    BY <2>1, <2>2, OnePart
<1>3. CASE u \in {"avx", "avx2"}
  <2>1. (\A s \in Nat : NextSHIFT(u, s) = s + 256) /\ Bits(u) = <<0 .. 255>>
    BY <1>3, OfIs DEF NextSHIFT, Bits, NextSHIFT_avx, NextSHIFT_avx2, Bits_avx, Bits_avx2
  <2>2. 256 \in 1 .. 640 /\ 256 \in Nat /\ 255 \in Nat /\ 256 = 255 + 1
    BY SMT
  <2> QED
    BY <2>1, <2>2, OnePart
<1>4. CASE u = "avx512"
  <2>1. (\A s \in Nat : NextSHIFT(u, s) = s + 640) /\ Bits(u) = <<0 .. 511, 512 .. 639>>
    BY <1>4, OfIs DEF NextSHIFT, Bits, NextSHIFT_avx512, Bits_avx512
  <2>2. /\ Len(Bits(u)) = 2 /\ Bits(u)[1] = 0 .. 511 /\ Bits(u)[2] = 512 .. 639
        /\ \A h : h \in 1 .. 2 <=> h = 1 \/ h = 2
    BY <2>1, SMT
  <2> DEFINE X == 0 .. 511
             Y == 512 .. 639
             Z == 0 .. 640 - 1
  <2>3. Bits(u)[1] = X /\ Bits(u)[2] = Y /\ Len(Bits(u)) = 2
    BY <2>2
  <2>5. \A b \in Int : b \in Z <=> b \in X \/ b \in Y
    BY SMT
  <2>6. ASSUME NEW b \in X, b \in Y
        PROVE  FALSE
    <3>1. b \in Int /\ b <= 511
      BY <2>6
    <3>2. 512 <= b
      BY <2>6
    <3> QED
      BY <3>1, <3>2, SMT
  <2> HIDE DEF X, Y
  <2>4. BitsUpTo(u, 640)
    <3>1. \A b \in Int : b \in 0 .. 640 - 1 <=> \E h \in 1 .. Len(Bits(u)) : b \in Bits(u)[h]
      <4>1. \A b \in Int : b \in Z <=> \E h \in 1 .. 2 : b \in Bits(u)[h]
        <5> HIDE DEF Z
        <5> QED
          BY <2>2, <2>3, <2>5
      <4> QED
        BY <2>3, <4>1
    <3>2. \A b, h, k : h \in 1 .. Len(Bits(u)) /\ k \in 1 .. Len(Bits(u)) /\ b \in Bits(u)[h] /\ b \in Bits(u)[k]
                         => h = k
      BY <2>2, <2>3, <2>6
    <3> QED
      BY <2>1, <3>1, <3>2 DEF BitsUpTo
  <2>7. 640 \in 1 .. 640
    BY SMT
  <2> QED
    BY <2>4, <2>7
<1>5. CASE u \in Cuda \/ u \in OpenCL
  <2>1. (\A s \in Nat : NextSHIFT(u, s) = s + 64) /\ Bits(u) = <<0 .. 63>>
    BY <1>5, OfCuda, OfOpenCL DEF NextSHIFT, Bits
  <2>2. 64 \in 1 .. 640 /\ 64 \in Nat /\ 63 \in Nat /\ 64 = 63 + 1
    BY SMT
  <2> QED
    BY <2>1, <2>2, OnePart
<1> QED
  BY <1>1, <1>2, <1>3, <1>4, <1>5

\* The places the loops walk from the sampled position, and how far an iteration has come.
First == <<start.i43, start.i47, start.i53, 35>>
RowFirst == <<i43, i47, i53, 35>>
Here == <<i43, i47, i53, i59>>
InWalk(x) == Index(First) <= Index(x) /\ Index(x) < Index(First) + 35 * start.rows
Progress == IF pc = "row" THEN Index(RowFirst) ELSE IF Walking THEN Index(Here) ELSE Index(First)
\* The bits of the words that were refused or tested.
Seen(b) == (\E h \in 1 .. part : b \in Bits(v)[h]) /\ b \notin sito
\* The place x was sieved at the shift s.
Shifts == start.startSHIFT .. maxshift - 1
Passed(x, s) ==
  \/ s < SHIFT /\ InWalk(x)
  \/ SHIFT <= s /\ s < NextSHIFT(v, SHIFT) /\ Index(First) <= Index(x) /\ Index(x) < Progress
  \/ Walking /\ Index(x) = Progress /\ Seen(s - SHIFT)
\* w is the candidate of the place x and the shift s, and has a clean window.
IsWindow(w, x, s) == \E n : At(n, x) /\ AllClean(n, s) /\ w = Candidate(n, s)

\* The rows were walked one after another.
InRows == pc = "row" \/ Walking => rows < start.rows /\ Index(RowFirst) = Index(First) + 35 * rows
\* What is left when the look-ups of an n59 end, and when the iterations do.
Ended == (pc = "advance" => sito = {} /\ part = Len(Bits(v))) /\ (pc = "done" => maxshift <= SHIFT)
\* The bits that come to be tested survived every group.
Surviving == pc \in {"check", "bits"} => \A b \in sito : \A h \in 1 .. Len(Groups(v)) : Survives(b, h)
\* What is reported is the clean windows of what was sieved, once each.
Right == \A w : w \in ToSet(report) <=> \E x \in Places, s \in Shifts : Passed(x, s) /\ IsWindow(w, x, s)
Once == IsInjective(report)

Ran == Fitting /\ InRows /\ Ended /\ Surviving /\ Right /\ Once
RInv == SInv /\ CInv /\ Ran

LEMMA StandIs ==
  ASSUME CInv
  PROVE  /\ First \in Places /\ Index(First) \in Nat
         /\ Walking => Here \in Places /\ Index(Here) \in Nat /\ At(n59, Here)
         /\ pc = "row" \/ Walking => RowFirst \in Places /\ Index(RowFirst) \in Nat
         /\ Walking => Index(Here) = Index(RowFirst) + (35 - i59)
<1>1. /\ start.i43 \in 1 .. 19 /\ start.i47 \in 1 .. 23 /\ start.i53 \in 1 .. 29 /\ 35 \in 1 .. 35
      /\ Below(n59)
  <2>1. 35 \in 1 .. 35
    BY SMT
  <2> QED
    BY <2>1, PlaceIs DEF Numbered
<1>2. First \in Places
  BY <1>1 DEF First, Places
<1>3. Walking => Here \in Places /\ At(n59, Here)
  BY <1>1 DEF CInv, Turned, Placed, Here, Places, At
<1>4. pc = "row" \/ Walking => RowFirst \in Places
  BY <1>1 DEF CInv, Turned, RowFirst, Places
<1>5. Walking => Index(Here) = Index(RowFirst) + (35 - i59)
  <2> SUFFICES ASSUME Walking PROVE Index(Here) = Index(RowFirst) + (35 - i59)
    OBVIOUS
  <2>1. i43 \in 1 .. 19 /\ i47 \in 1 .. 23 /\ i53 \in 1 .. 29 /\ i59 \in 1 .. 35
    BY DEF CInv, Turned
  <2>2. /\ Index(Here) = (((19 - i43) * 23 + (23 - i47)) * 29 + (29 - i53)) * 35 + (35 - i59)
        /\ Index(RowFirst) = (((19 - i43) * 23 + (23 - i47)) * 29 + (29 - i53)) * 35 + (35 - 35)
    BY DEF Index, Here, RowFirst
  <2> QED
    BY <2>1, <2>2, SMT
<1> QED
  BY <1>2, <1>3, <1>4, <1>5, PlaceType

LEMMA InRange ==
  ASSUME RInv, NEW s \in Shifts
  PROVE  InWord(s) /\ s \in Nat /\ s < maxshift /\ start.startSHIFT <= s
<1> DEFINE a == start.startSHIFT
<1>1. a \in 0 .. INT_MAX - 1280 /\ INT_MAX \in Nat /\ <<v, start>> \in Samples /\ Fitting
  BY PositionIs, IntMaxIs DEF RInv, Ran, SInv, IInv, Sampled
<1>2. s \in a .. (a + 640) - 1
  BY Zenon DEF Shifts, maxshift
<1> HIDE DEF a
<1>3. s \in Nat /\ a <= s /\ s < a + 640
  BY <1>1, <1>2, SMT
<1>4. s < maxshift
  BY <1>3 DEF maxshift, a
<1> QED
  BY <1>1, <1>3, <1>4, ShiftFits DEF a

\* The window of a place and a shift is the candidate of its number.
LEMMA WindowHere ==
  ASSUME CInv, Walking, NEW x \in Places, Index(x) = Index(Here), NEW w, NEW s
  PROVE  x = Here /\ (IsWindow(w, x, s) <=> AllClean(n59, s) /\ w = Candidate(n59, s))
<1>1. x = Here /\ At(n59, Here) /\ Here \in Places
  BY StandIs, IndexUnique
<1>2. start.K \in Nat /\ start.entry \in Counters
  BY PlaceIs
<1>3. \A n : At(n, Here) => n = n59
  BY <1>1, <1>2, AtUnique
<1> QED
  BY <1>1, <1>3 DEF IsWindow

-----------------------------------------------------------------------------
\* The steps keep the invariant.

\* What depends on the sample alone.
LEMMA SampleKept ==
  ASSUME start' = start
  PROVE  /\ Index(First)' = Index(First) /\ Shifts' = Shifts /\ maxshift' = maxshift
         /\ Fitting' <=> Fitting
         /\ \A x : InWalk(x)' <=> InWalk(x)
         /\ \A w, x, s : IsWindow(w, x, s)' <=> IsWindow(w, x, s)
<1>1. Index(First)' = Index(First) /\ maxshift' = maxshift
  BY DEF First, Index, maxshift
<1>2. Shifts' = Shifts /\ (Fitting' <=> Fitting)
  BY <1>1 DEF Shifts, Fitting
<1>3. ASSUME NEW x
      PROVE  InWalk(x)' <=> InWalk(x)
  BY <1>1 DEF InWalk, Index
<1>4. ASSUME NEW w, NEW x, NEW s
      PROVE  IsWindow(w, x, s)' <=> IsWindow(w, x, s)
  <2>1. \A n : At(n, x)' <=> At(n, x)
    BY DEF At, Located, Below, Modulus
  <2>2. \A n : AllClean(n, s)' <=> AllClean(n, s)
    BY DEF AllClean, Clean, Open
  <2> QED
    BY <2>1, <2>2 DEF IsWindow
<1> QED
  BY <1>1, <1>2, <1>3, <1>4

\* A step that reports nothing passes nothing with a clean window.
LEMMA ReportKept ==
  ASSUME RInv, start' = start, report' = report,
         \A x \in Places, s \in Shifts : Passed(x, s) => Passed(x, s)',
         \A x \in Places, s \in Shifts : Passed(x, s)' /\ ~Passed(x, s) => \A w : ~IsWindow(w, x, s)
  PROVE  Right' /\ Once'
<1>1. /\ Shifts' = Shifts /\ \A w, x, s : IsWindow(w, x, s)' <=> IsWindow(w, x, s)
  BY SampleKept
<1>2. Right /\ Once
  BY DEF RInv, Ran
<1>3. ASSUME NEW w
      PROVE  w \in ToSet(report) <=> \E x \in Places, s \in Shifts : Passed(x, s)' /\ IsWindow(w, x, s)
  <2>1. w \in ToSet(report) <=> \E x \in Places, s \in Shifts : Passed(x, s) /\ IsWindow(w, x, s)
    BY <1>2 DEF Right
  <2> QED
    BY <2>1
<1>4. Right'
  <2>1. ToSet(report)' = ToSet(report)
    BY DEF ToSet
  <2> QED
    BY <1>1, <1>3, <2>1 DEF Right
<1>5. Once'
  BY <1>2 DEF Once, IsInjective
<1> QED
  BY <1>4, <1>5

\* The bits of the parts so far were seen, or are left.
LEMMA PartSeen ==
  ASSUME IInv, NEW b
  PROVE  (\E h \in 1 .. part : b \in Bits(v)[h]) <=> Seen(b) \/ b \in sito
<1>1. part \in 1 .. Len(Bits(v)) /\ sito \subseteq Bits(v)[part] /\ Len(Bits(v)) \in Nat
  BY PositionIs, BitsAre DEF IInv, Sampled, Left
<1>2. part \in 1 .. part
  BY <1>1, SMT
<1> QED
  BY <1>1, <1>2 DEF Seen

LEMMA LeavePartSeen ==
  ASSUME IInv, LeavePart, v' = v, NEW b
  PROVE  Seen(b)' <=> Seen(b) \/ b \in sito
<1>1. part \in 1 .. Len(Bits(v)) /\ Len(Bits(v)) \in Nat /\ v \in CPU \cup Kernel /\ part \in Nat
  <2>1. part \in 1 .. Len(Bits(v)) /\ Len(Bits(v)) \in Nat /\ v \in CPU \cup Kernel
    BY PositionIs, BitsAre DEF IInv, Sampled, Left
  <2> QED
    BY <2>1, SMT
<1>2. (\E h \in 1 .. part : b \in Bits(v)[h]) <=> Seen(b) \/ b \in sito
  BY PartSeen
<1>3. CASE part < Len(Bits(v))
  <2>1. part' = part + 1 /\ sito' = Bits(v)[part + 1]
    BY <1>3 DEF LeavePart
  <2>2. \A h : h \in 1 .. part + 1 <=> h \in 1 .. part \/ h = part + 1
    BY <1>1, SMT
  <2>3. PICK w \in 1 .. 640 : BitsUpTo(v, w)
    BY <1>1, BitsCover
  <2>4. ASSUME NEW h \in 1 .. part, b \in Bits(v)[h]
        PROVE  b \notin Bits(v)[part + 1]
    <3>1. h \in 1 .. Len(Bits(v)) /\ part + 1 \in 1 .. Len(Bits(v)) /\ h # part + 1
      BY <1>1, <1>3, SMT
    <3> QED
      BY <2>3, <2>4, <3>1 DEF BitsUpTo
  <2>5. Seen(b)' <=> (\E h \in 1 .. part + 1 : b \in Bits(v)[h]) /\ b \notin Bits(v)[part + 1]
    BY <2>1 DEF Seen
  <2> QED
    BY <1>2, <2>2, <2>4, <2>5
<1>4. CASE ~(part < Len(Bits(v)))
  BY <1>2, <1>4 DEF LeavePart, Seen
<1> QED
  BY <1>3, <1>4

\* At the end of an n59 all the bits of the iteration were seen, at the beginning none.
LEMMA AllSeen ==
  ASSUME IInv, Ended, pc = "advance", NEW w \in 1 .. 640, BitsUpTo(v, w), NEW b \in Int
  PROVE  Seen(b) <=> b \in 0 .. w - 1
<1>1. sito = {} /\ part = Len(Bits(v))
  BY DEF Ended
<1> QED
  BY <1>1 DEF BitsUpTo, Seen

LEMMA NoneSeen ==
  ASSUME part' = 1, sito' = Bits(v)[1], v' = v, NEW b
  PROVE  ~Seen(b)'
<1>1. \A h : h \in 1 .. 1 <=> h = 1
  BY SMT
<1> QED
  BY <1>1 DEF Seen

LEMMA InitRan ==
  ASSUME \A s \in Samples : (s[2].startSHIFT + 640) * Modulus <= W
  PROVE  Init => Ran
<1> SUFFICES ASSUME Init PROVE Ran
  OBVIOUS
<1>1. PICK s \in Samples : v = s[1] /\ start = s[2]
  BY DEF Init
<1>2. pc = "prepare" /\ report = <<>> /\ SHIFT = start.startSHIFT
  BY DEF Init
<1>3. Fitting
  BY <1>1 DEF Fitting
<1>4. InRows /\ Ended /\ Surviving
  BY <1>2 DEF InRows, Ended, Surviving, Walking
<1>5. Once
  BY <1>2 DEF Once, IsInjective
<1>6. Right
  <2>1. ToSet(report) = {}
    BY <1>2 DEF ToSet
  <2>2. Index(First) \in Nat /\ start.startSHIFT \in Nat
    <3>1. /\ start.i43 \in 1 .. 19 /\ start.i47 \in 1 .. 23 /\ start.i53 \in 1 .. 29
          /\ start.startSHIFT \in 0 .. INT_MAX - 1280
      BY InitIInv, PositionIs DEF IInv, Sampled
    <3>2. 35 \in 1 .. 35
      BY SMT
    <3>3. First \in Places
      BY <3>1, <3>2 DEF First, Places
    <3> QED
      BY <3>1, <3>3, PlaceType, IntMaxIs, SMT
  <2>3. ASSUME NEW x \in Places, NEW t \in Shifts
        PROVE  ~Passed(x, t)
    <3>1. ~Walking /\ Progress = Index(First)
      BY <1>2 DEF Walking, Progress
    <3>2. t \in Int /\ ~(t < SHIFT)
      BY <1>2, <2>2, SMT DEF Shifts, maxshift
    <3>3. Index(x) \in Nat
      BY PlaceType
    <3>4. ~(Index(First) <= Index(x) /\ Index(x) < Index(First))
      BY <2>2, <3>3, SMT
    <3> QED
      BY <3>1, <3>2, <3>4 DEF Passed
  <2> QED
    BY <2>1, <2>3 DEF Right
<1> QED
  BY <1>3, <1>4, <1>5, <1>6 DEF Ran

\* Before the rows, and at the beginning of each, nothing passes.
LEMMA PrepareRan == RInv /\ Prepare => Ran'
<1> SUFFICES ASSUME RInv, Prepare PROVE Ran'
  OBVIOUS
<1>1. /\ v' = v /\ start' = start /\ SHIFT' = SHIFT /\ report' = report /\ pc = "prepare" /\ pc' = "begin"
  BY DEF Prepare
<1>2. /\ Index(First)' = Index(First) /\ Shifts' = Shifts /\ (Fitting' <=> Fitting)
      /\ \A x : InWalk(x)' <=> InWalk(x)
  BY <1>1, SampleKept
<1>3. Fitting'
  BY <1>2 DEF RInv, Ran
<1>4. InRows' /\ Ended' /\ Surviving'
  BY <1>1 DEF InRows, Ended, Surviving, Walking
<1>5. ASSUME NEW x, NEW s
      PROVE  Passed(x, s)' <=> Passed(x, s)
  <2>1. Progress' = Progress /\ ~Walking /\ ~Walking'
    BY <1>1, <1>2 DEF Progress, Walking
  <2> QED
    BY <1>1, <1>2, <2>1 DEF Passed, Index
<1>6. Right' /\ Once'
  BY <1>1, <1>5, ReportKept
<1> QED
  BY <1>3, <1>4, <1>6 DEF Ran

LEMMA BeginRan == RInv /\ Begin => Ran'
<1> SUFFICES ASSUME RInv, Begin PROVE Ran'
  OBVIOUS
<1>1. /\ v' = v /\ start' = start /\ SHIFT' = SHIFT /\ report' = report /\ pc = "begin" /\ pc' = "row"
      /\ i43' = start.i43 /\ i47' = start.i47 /\ i53' = start.i53 /\ rows' = 0
  BY DEF Begin
<1>2. /\ Index(First)' = Index(First) /\ Shifts' = Shifts /\ (Fitting' <=> Fitting)
      /\ \A x : InWalk(x)' <=> InWalk(x)
  BY <1>1, SampleKept
<1>3. Fitting'
  BY <1>2 DEF RInv, Ran
<1>7. Index(RowFirst)' = Index(First)
  BY <1>1 DEF RowFirst, First, Index
<1>4. InRows' /\ Ended' /\ Surviving'
  <2>1. start.rows \in Nat \ {0} /\ Index(First) \in Nat
    BY PositionIs, StandIs DEF RInv, SInv, IInv, Sampled
  <2>2. rows' < start'.rows /\ Index(First) = Index(First) + 35 * rows'
    BY <1>1, <2>1, SMT
  <2>3. Ended' /\ Surviving'
    BY <1>1 DEF Ended, Surviving
  <2> QED
    BY <1>2, <1>7, <2>2, <2>3 DEF InRows
<1>5. ASSUME NEW x, NEW s
      PROVE  Passed(x, s)' <=> Passed(x, s)
  <2>1. Progress' = Progress /\ ~Walking /\ ~Walking'
    BY <1>1, <1>7 DEF Progress, Walking
  <2> QED
    BY <1>1, <1>2, <2>1 DEF Passed, Index
<1>6. Right' /\ Once'
  BY <1>1, <1>5, ReportKept
<1> QED
  BY <1>3, <1>4, <1>6 DEF Ran

LEMMA Row35Ran == RInv /\ Row35 => Ran'
<1> SUFFICES ASSUME RInv, Row35 PROVE Ran'
  OBVIOUS
<1>1. /\ v' = v /\ start' = start /\ SHIFT' = SHIFT /\ report' = report /\ pc = "row" /\ pc' = "look"
      /\ i43' = i43 /\ i47' = i47 /\ i53' = i53 /\ i59' = 35 /\ rows' = rows
      /\ part' = 1 /\ sito' = Bits(v)[1]
  <2>1. PRIME8 - 24 = 35
    BY SMT DEF PRIME8
  <2> QED
    BY <2>1 DEF Row35
<1>2. /\ Index(First)' = Index(First) /\ Shifts' = Shifts /\ (Fitting' <=> Fitting)
      /\ \A x : InWalk(x)' <=> InWalk(x)
  BY <1>1, SampleKept
<1>3. Fitting'
  BY <1>2 DEF RInv, Ran
<1>7. Index(RowFirst)' = Index(RowFirst) /\ Index(Here)' = Index(RowFirst)
  BY <1>1 DEF RowFirst, Here, Index
<1>4. InRows' /\ Ended' /\ Surviving'
  BY <1>1, <1>2, <1>7 DEF RInv, Ran, InRows, Ended, Surviving
<1>5. ASSUME NEW x, NEW s
      PROVE  Passed(x, s)' <=> Passed(x, s)
  <2>1. Progress' = Progress /\ ~Walking
    BY <1>1, <1>7 DEF Progress, Walking
  <2>2. ~Seen(s - SHIFT)'
    BY <1>1, NoneSeen
  <2>3. ~(Seen(s - SHIFT))'
    BY <2>2, <1>1 DEF Seen
  <2> QED
    BY <1>1, <1>2, <2>1, <2>3 DEF Passed, Index
<1>6. Right' /\ Once'
  BY <1>1, <1>5, ReportKept
<1> QED
  BY <1>3, <1>4, <1>6 DEF Ran

\* A look-up sees the bits it refuses.
LEMMA LookSeen ==
  ASSUME IInv, Look, NEW b
  PROVE  Seen(b)' <=> Seen(b) \/ (b \in sito /\ b \notin LookUp)
<1>1. v' = v
  BY DEF Look
<1>2. CASE LookUp = {} /\ LeavePart
  BY <1>1, <1>2, LeavePartSeen
<1>3. CASE sito' = LookUp /\ UNCHANGED part
  <2>1. LookUp \subseteq sito
    BY PositionIs, LookUpIn DEF IInv, Sampled
  <2>2. (\E h \in 1 .. part : b \in Bits(v)[h]) <=> Seen(b) \/ b \in sito
    BY PartSeen
  <2>3. Seen(b) => b \notin sito
    BY DEF Seen
  <2>4. Seen(b)' <=> (\E h \in 1 .. part : b \in Bits(v)[h]) /\ b \notin LookUp
    BY <1>1, <1>3 DEF Seen
  <2> QED
    BY <2>1, <2>2, <2>3, <2>4
<1> QED
  BY <1>2, <1>3 DEF Look

\* What a group refuses has no clean window.
LEMMA RefusedIs ==
  ASSUME RInv, pc = "look", NEW b \in sito, b \notin LookUp, SHIFT + b < maxshift
  PROVE  ~AllClean(n59, SHIFT + b)
<1>1. v \in CPU \cup Kernel /\ g \in 1 .. Len(Groups(v))
  BY PositionIs DEF RInv, SInv, IInv, Sampled, Left
<1>2. ~Survives(b, g)
  BY LookUpIs DEF RInv, SInv, Ran
<1>3. PICK P \in Groups(v)[g] : ~Clean(n59, SHIFT + b, P)
  BY <1>2 DEF Survives
<1>4. P \in LookedUp(v)
  BY <1>1, GroupsCover
<1>5. P \in PrimesIn(7, 541)
  BY <1>4, SMT DEF LookedUp, PrimesIn, Primes
<1> QED
  BY <1>3, <1>5 DEF AllClean

LEMMA LookRan == RInv /\ Look => Ran'
<1> SUFFICES ASSUME RInv, Look PROVE Ran'
  OBVIOUS
<1>1. /\ v' = v /\ start' = start /\ SHIFT' = SHIFT /\ report' = report /\ pc = "look"
      /\ i43' = i43 /\ i47' = i47 /\ i53' = i53 /\ i59' = i59 /\ rows' = rows /\ n59' = n59
  BY DEF Look
<1>2. /\ Index(First)' = Index(First) /\ Shifts' = Shifts /\ (Fitting' <=> Fitting)
      /\ maxshift' = maxshift /\ \A x : InWalk(x)' <=> InWalk(x)
  BY <1>1, SampleKept
<1>3. Fitting'
  BY <1>2 DEF RInv, Ran
<1>4. v \in CPU \cup Kernel /\ g \in 1 .. Len(Groups(v)) /\ Len(Groups(v)) \in Nat
  BY PositionIs, GroupsAre DEF RInv, SInv, IInv, Sampled, Left
<1>5. \/ LeavePart
      \/ pc' = "look" /\ sito' = LookUp
      \/ pc' = "check" /\ sito' = LookUp /\ g' = g /\ g = Len(Groups(v))
  <2>1. CASE LookUp = {} /\ LeavePart
    BY <2>1
  <2>2. CASE /\ sito' = LookUp
             /\ IF g < Len(Groups(v)) THEN g' = g + 1 /\ pc' = pc ELSE g' = g /\ pc' = "check"
    <3>1. ~(g < Len(Groups(v))) => g = Len(Groups(v))
      BY <1>4, SMT
    <3> QED
      BY <1>1, <2>2, <3>1
  <2> QED
    BY <2>1, <2>2 DEF Look
<1>6. pc' \in {"look", "check", "advance"} /\ Walking /\ Walking'
  BY <1>1, <1>5 DEF LeavePart, Walking
<1>7. Index(RowFirst)' = Index(RowFirst) /\ Index(Here)' = Index(Here)
  BY <1>1 DEF RowFirst, Here, Index
<1>8. InRows'
  BY <1>1, <1>2, <1>6, <1>7 DEF RInv, Ran, InRows
<1>9. Ended'
  <2>1. ASSUME pc' = "advance" PROVE sito' = {} /\ part' = Len(Bits(v))'
    <3>1. LeavePart
      BY <1>5, <2>1
    <3>2. ~(part < Len(Bits(v))) /\ sito' = {} /\ part' = part
      BY <2>1, <3>1 DEF LeavePart
    <3>3. part \in 1 .. Len(Bits(v)) /\ Len(Bits(v)) \in Nat
      BY <1>4, BitsAre DEF RInv, SInv, IInv, Left
    <3>4. part = Len(Bits(v))
      BY <3>2, <3>3, SMT
    <3> QED
      BY <1>1, <3>2, <3>4
  <2> QED
    BY <1>6, <2>1 DEF Ended
<1>10. Surviving'
  <2> SUFFICES ASSUME pc' = "check" PROVE Surviving'
    BY <1>6 DEF Surviving
  <2>1. sito' = LookUp /\ g' = g /\ g = Len(Groups(v))
    BY <1>5 DEF LeavePart
  <2>2. SInv'
    BY LookSInv DEF RInv, Ran
  <2>3. \A b \in sito' : \A h \in 1 .. g' : Survives(b, h)'
    BY <2>2 DEF SInv, Kept
  <2>4. g' = Len(Groups(v'))
    BY <1>1, <2>1
  <2> QED
    BY <2>3, <2>4 DEF Surviving
<1>11. Progress = Index(Here) /\ Progress' = Index(Here)
  BY <1>6, <1>7 DEF Progress, Walking
<1>12. ASSUME NEW x, NEW s
       PROVE  Passed(x, s)' <=> \/ Passed(x, s)
                                \/ Index(x) = Index(Here) /\ s - SHIFT \in sito /\ s - SHIFT \notin LookUp
  <2>1. \A b : Seen(b)' <=> Seen(b) \/ (b \in sito /\ b \notin LookUp)
    BY LookSeen DEF RInv, SInv
  <2>2. Seen(s - SHIFT)' <=> Seen(s - SHIFT) \/ (s - SHIFT \in sito /\ s - SHIFT \notin LookUp)
    BY <1>1, <2>1 DEF Seen
  <2>3. Index(x)' = Index(x)
    BY DEF Index
  <2> QED
    BY <1>1, <1>2, <1>6, <1>11, <2>2, <2>3 DEF Passed
<1>13. ASSUME NEW x \in Places, NEW s \in Shifts, Passed(x, s)', ~Passed(x, s), NEW w
       PROVE  ~IsWindow(w, x, s)
  <2> DEFINE b == s - SHIFT
  <2>1. Index(x) = Index(Here) /\ b \in sito /\ b \notin LookUp
    BY <1>12, <1>13
  <2>2. SHIFT + b = s /\ s < maxshift
    <3>1. s \in Nat /\ s < maxshift /\ SHIFT \in Nat
      BY InRange DEF RInv, SInv, IInv, Shifted
    <3> QED
      BY <3>1, SMT
  <2> HIDE DEF b
  <2>3. ~AllClean(n59, s)
    BY <1>1, <2>1, <2>2, RefusedIs
  <2> QED
    BY <1>6, <2>1, <2>3, WindowHere DEF RInv
<1>14. Right' /\ Once'
  BY <1>1, <1>12, <1>13, ReportKept
<1> QED
  BY <1>3, <1>8, <1>9, <1>10, <1>14 DEF Ran

\* What is reported when the highest bit is taken out.
LEMMA BitPasses ==
  ASSUME RInv, pc \in {"check", "bits"}, NEW b \in sito
  PROVE  /\ SHIFT + b \in Shifts /\ Decode(b) = Candidate(n59, SHIFT + b)
         /\ Passes(Decode(b)) <=> AllClean(n59, SHIFT + b)
<1>1. /\ v \in CPU \cup Kernel /\ Len(Groups(v)) \in Nat \ {0} /\ start.startSHIFT \in Nat
      /\ SHIFT \in 0 .. INT_MAX - 640 /\ SHIFT \in Nat /\ start.startSHIFT <= SHIFT /\ n59 \in UInt64
  <2>1. v \in CPU \cup Kernel /\ start.startSHIFT \in 0 .. INT_MAX - 1280
    BY PositionIs DEF RInv, SInv, IInv, Sampled
  <2>2. Len(Groups(v)) \in Nat \ {0}
    BY <2>1, GroupsAre
  <2>3. SHIFT \in 0 .. INT_MAX - 640
    BY ShiftedIs DEF RInv, SInv, IInv
  <2>4. SHIFT \in Nat /\ start.startSHIFT <= SHIFT /\ n59 \in UInt64
    BY DEF RInv, SInv, IInv, Shifted, Numbered, Below
  <2>5. start.startSHIFT \in Nat
    BY <2>1, IntMaxIs, SMT
  <2> QED
    BY <2>1, <2>2, <2>3, <2>4, <2>5
<1>2. b \in 0 .. 639
  BY BitIs DEF RInv, SInv, IInv, Left
<1>3. \A h \in 1 .. Len(Groups(v)) : Survives(b, h)
  BY DEF RInv, Ran, Surviving
<1>4. SHIFT + b < maxshift /\ \A p \in LookedUp(v) : Clean(n59, SHIFT + b, p)
  <2>1. 1 \in 1 .. Len(Groups(v))
    BY <1>1, SMT
  <2>2. ASSUME NEW p \in LookedUp(v)
        PROVE  Clean(n59, SHIFT + b, p)
    <3>1. PICK h \in 1 .. Len(Groups(v)) : p \in Groups(v)[h]
      BY <1>1, GroupsCover
    <3> QED
      BY <1>3, <3>1 DEF Survives
  <2> QED
    BY <1>3, <2>1, <2>2 DEF Survives
<1>5. SHIFT + b \in Shifts
  BY <1>1, <1>2, <1>4, SMT DEF Shifts, maxshift
<1>6. Decode(b) = Candidate(n59, SHIFT + b)
  BY <1>1, <1>2, DecodeIs
<1>7. InWord(SHIFT + b)
  BY <1>5, InRange
<1>8. Walking
  BY DEF Walking
<1>9. Passes(Candidate(n59, SHIFT + b)) <=> AllClean(n59, SHIFT + b)
  BY <1>4, <1>7, <1>8, PassesIs DEF RInv, SInv
<1> QED
  BY <1>5, <1>6, <1>9

LEMMA AppendIs ==
  ASSUME NEW S, NEW r \in Seq(S), NEW c \in S
  PROVE  /\ \A w : w \in ToSet(Append(r, c)) <=> w \in ToSet(r) \/ w = c
         /\ IsInjective(r) /\ c \notin ToSet(r) => IsInjective(Append(r, c))
<1> DEFINE n == Len(r)
           a == Append(r, c)
<1>1. /\ n \in Nat /\ DOMAIN r = 1 .. n /\ DOMAIN a = 1 .. n + 1 /\ a[n + 1] = c
      /\ \A i \in 1 .. n : a[i] = r[i]
  BY SMT
<1>2. \A i : i \in 1 .. n + 1 <=> i \in 1 .. n \/ i = n + 1
  BY <1>1, SMT
<1>3. n + 1 \notin 1 .. n
  BY <1>1, SMT
<1> HIDE DEF n, a
<1>4. ASSUME NEW w
      PROVE  w \in ToSet(a) <=> w \in ToSet(r) \/ w = c
  BY <1>1, <1>2 DEF ToSet
<1>5. ASSUME IsInjective(r), c \notin ToSet(r)
      PROVE  IsInjective(a)
  <2>1. \A i \in 1 .. n : a[i] = r[i] /\ r[i] # c
    BY <1>1, <1>5 DEF ToSet
  <2>2. \A i, j \in 1 .. n : r[i] = r[j] => i = j
    BY <1>1, <1>5 DEF IsInjective
  <2>3. ASSUME NEW i \in 1 .. n + 1, NEW j \in 1 .. n + 1, a[i] = a[j]
        PROVE  i = j
    BY <1>1, <1>2, <2>1, <2>2, <2>3
  <2> QED
    BY <1>1, <2>3 DEF IsInjective
<1> QED
  BY <1>4, <1>5 DEF a

\* Taking out a bit sees that bit.
Taken(b) == IF sito = {b} THEN LeavePart ELSE pc' = "bits" /\ sito' = sito \ {b} /\ UNCHANGED <<part, g>>
LEMMA CheckSeen ==
  ASSUME IInv, v' = v, NEW b \in sito, Taken(b), NEW c
  PROVE  Seen(c)' <=> Seen(c) \/ c = b
<1>1. CASE sito = {b}
  BY <1>1, LeavePartSeen DEF Taken
<1>2. CASE sito # {b}
  <2>1. sito' = sito \ {b} /\ part' = part
    BY <1>2 DEF Taken
  <2>2. (\E h \in 1 .. part : c \in Bits(v)[h]) <=> Seen(c) \/ c \in sito
    BY PartSeen
  <2>3. Seen(c) => c \notin sito
    BY DEF Seen
  <2>4. Seen(c)' <=> (\E h \in 1 .. part : c \in Bits(v)[h]) /\ c \notin sito \ {b}
    BY <2>1 DEF Seen
  <2> QED
    BY <2>2, <2>3, <2>4
<1> QED
  BY <1>1, <1>2

LEMMA CheckRan == RInv /\ Check => Ran'
<1> SUFFICES ASSUME RInv, Check PROVE Ran'
  OBVIOUS
<1>1. /\ v' = v /\ start' = start /\ SHIFT' = SHIFT /\ pc \in {"check", "bits"}
      /\ i43' = i43 /\ i47' = i47 /\ i53' = i53 /\ i59' = i59 /\ rows' = rows /\ n59' = n59
  BY DEF Check
<1>2. /\ Index(First)' = Index(First) /\ Shifts' = Shifts /\ (Fitting' <=> Fitting)
      /\ maxshift' = maxshift /\ \A x : InWalk(x)' <=> InWalk(x)
      /\ \A w, x, s : IsWindow(w, x, s)' <=> IsWindow(w, x, s)
  BY <1>1, SampleKept
<1>3. Fitting'
  BY <1>2 DEF RInv, Ran
<1>4. PICK b \in sito :
        /\ report' = IF Passes(Decode(b)) THEN Append(report, Decode(b)) ELSE report
        /\ Taken(b)
  BY DEF Check, Taken
<1>5. LeavePart \/ (pc' = "bits" /\ sito' = sito \ {b})
  BY <1>4 DEF Taken
<1>6. pc' \in {"look", "bits", "advance"} /\ Walking /\ Walking'
  BY <1>1, <1>5 DEF LeavePart, Walking
<1>7. Index(RowFirst)' = Index(RowFirst) /\ Index(Here)' = Index(Here)
  BY <1>1 DEF RowFirst, Here, Index
<1>8. InRows'
  BY <1>1, <1>2, <1>6, <1>7 DEF RInv, Ran, InRows
<1>9. Ended'
  <2>1. ASSUME pc' = "advance" PROVE sito' = {} /\ part' = Len(Bits(v))'
    <3>1. LeavePart
      BY <1>5, <2>1
    <3>2. ~(part < Len(Bits(v))) /\ sito' = {} /\ part' = part
      BY <2>1, <3>1 DEF LeavePart
    <3>3. part \in 1 .. Len(Bits(v)) /\ Len(Bits(v)) \in Nat
      BY PositionIs, BitsAre DEF RInv, SInv, IInv, Left, Sampled
    <3>4. part = Len(Bits(v))
      BY <3>2, <3>3, SMT
    <3> QED
      BY <1>1, <3>2, <3>4
  <2> QED
    BY <1>6, <2>1 DEF Ended
<1>10. Surviving'
  <2> SUFFICES ASSUME pc' = "bits" PROVE Surviving'
    BY <1>6 DEF Surviving
  <2>1. sito' = sito \ {b}
    BY <1>5 DEF LeavePart
  <2>2. \A c \in sito : \A h \in 1 .. Len(Groups(v)) : Survives(c, h)
    BY <1>1 DEF RInv, Ran, Surviving
  <2>3. ASSUME NEW c, NEW h
        PROVE  Survives(c, h)' <=> Survives(c, h)
    BY <1>1 DEF Survives, Clean, Open, maxshift
  <2> QED
    BY <1>1, <2>1, <2>2, <2>3 DEF Surviving
<1>11. Progress = Index(Here) /\ Progress' = Index(Here)
  BY <1>6, <1>7 DEF Progress, Walking
<1> DEFINE t == SHIFT + b
           c == Candidate(n59, t)
<1>12. ASSUME NEW x, NEW s, s - SHIFT = b <=> s = t
       PROVE  Passed(x, s)' <=> Passed(x, s) \/ (Index(x) = Index(Here) /\ s = t)
  <2>1. \A d : Seen(d)' <=> Seen(d) \/ d = b
    BY <1>1, <1>4, CheckSeen DEF RInv, SInv
  <2>2. Seen(s - SHIFT)' <=> Seen(s - SHIFT) \/ s - SHIFT = b
    BY <1>1, <2>1 DEF Seen
  <2>3. Index(x)' = Index(x)
    BY DEF Index
  <2> HIDE DEF t
  <2> QED
    BY <1>1, <1>2, <1>6, <1>11, <1>12, <2>2, <2>3 DEF Passed
<1>13. /\ t \in Shifts /\ Decode(b) = c /\ (Passes(Decode(b)) <=> AllClean(n59, t)) /\ InWord(t)
       /\ SHIFT \in Nat /\ b \in Nat
  <2>1. t \in Shifts /\ Decode(b) = c /\ (Passes(Decode(b)) <=> AllClean(n59, t))
    BY <1>1, BitPasses
  <2>2. b \in 0 .. 639 /\ SHIFT \in Nat
    BY BitIs DEF RInv, SInv, IInv, Left, Shifted
  <2> QED
    BY <2>1, <2>2, InRange
<1>14. \A s \in Shifts : s - SHIFT = b <=> s = t
  <2>1. ASSUME NEW s \in Shifts
        PROVE  s - SHIFT = b <=> s = t
    <3>1. s \in Nat
      BY InRange
    <3> QED
      BY <1>13, <3>1, SMT
  <2> QED
    BY <2>1
<1>15. /\ Here \in Places /\ At(n59, Here) /\ Below(n59) /\ Index(Here) \in Nat
       /\ start.K \in Searched /\ start.K \in Nat /\ start.entry \in Counters
  BY <1>6, StandIs, PlaceIs DEF RInv, Numbered
<1> HIDE DEF t
<1>16. ASSUME NEW x \in Places, NEW s \in Shifts
       PROVE  Passed(x, s)' <=> Passed(x, s) \/ (x = Here /\ s = t)
  <2>1. Index(x) = Index(Here) <=> x = Here
    BY <1>15, IndexUnique
  <2> QED
    BY <1>12, <1>14, <2>1
<1>17. \A w : IsWindow(w, Here, t) <=> AllClean(n59, t) /\ w = c
  BY <1>6, <1>15, WindowHere DEF RInv
<1>18. ~Passed(Here, t)
  <2>1. ~(t < SHIFT) /\ ~(Index(Here) < Index(Here))
    BY <1>13, <1>15, SMT DEF t
  <2>2. t - SHIFT = b
    BY <1>13, <1>14
  <2>3. ~Seen(b)
    BY DEF Seen
  <2>4. ~Seen(t - SHIFT)
    BY <2>2, <2>3
  <2> QED
    BY <1>11, <2>1, <2>4 DEF Passed
<1>19. CASE ~AllClean(n59, t)
  <2>1. report' = report
    BY <1>4, <1>13, <1>19
  <2>2. \A x \in Places, s \in Shifts : Passed(x, s) => Passed(x, s)'
    BY <1>16
  <2>3. \A x \in Places, s \in Shifts : Passed(x, s)' /\ ~Passed(x, s) => \A w : ~IsWindow(w, x, s)
    BY <1>16, <1>17, <1>19
  <2>4. Right' /\ Once'
    BY <1>1, <2>1, <2>2, <2>3, ReportKept
  <2> QED
    BY <1>3, <1>8, <1>9, <1>10, <2>4 DEF Ran
<1>20. CASE AllClean(n59, t)
  <2>1. report' = Append(report, c) /\ report \in Seq(UInt64) /\ c \in UInt64
    <3>1. c \in UInt64
      BY <1>13, <1>15, CandidateIs
    <3> QED
      BY <1>4, <1>13, <1>20, <3>1 DEF RInv, SInv, IInv, Reported
  <2>2. /\ \A w : w \in ToSet(report) <=> \E x \in Places, s \in Shifts : Passed(x, s) /\ IsWindow(w, x, s)
        /\ IsInjective(report)
    BY DEF RInv, Ran, Right, Once
  <2>3. c \notin ToSet(report)
    <3> SUFFICES ASSUME c \in ToSet(report) PROVE FALSE
      OBVIOUS
    <3>1. PICK x \in Places, s \in Shifts : Passed(x, s) /\ IsWindow(c, x, s)
      BY <2>2
    <3>2. PICK n : At(n, x) /\ c = Candidate(n, s)
      BY <3>1 DEF IsWindow
    <3>3. Below(n) /\ InWord(s)
      BY <3>2, InRange DEF At
    <3>4. n = n59 /\ s = t
      BY <1>13, <1>15, <3>2, <3>3, CandidateUnique
    <3>5. x = Here
      BY <1>15, <3>2, <3>4, PlaceUnique
    <3> QED
      BY <1>18, <3>1, <3>4, <3>5
  <2> HIDE DEF c
  <2>4. /\ \A w : w \in ToSet(report') <=> w \in ToSet(report) \/ w = c
        /\ IsInjective(report')
    BY <2>1, <2>2, <2>3, AppendIs
  <2>5. ASSUME NEW w
        PROVE  w \in ToSet(report')
                 <=> \E x \in Places, s \in Shifts : Passed(x, s)' /\ IsWindow(w, x, s)
    <3>1. (\E x \in Places, s \in Shifts : Passed(x, s)' /\ IsWindow(w, x, s))
            <=> \/ \E x \in Places, s \in Shifts : Passed(x, s) /\ IsWindow(w, x, s)
                \/ IsWindow(w, Here, t)
      BY <1>13, <1>15, <1>16
    <3>2. IsWindow(w, Here, t) <=> w = c
      BY <1>17, <1>20
    <3> QED
      BY <2>2, <2>4, <3>1, <3>2
  <2>6. Right'
    BY <1>2, <2>5 DEF Right
  <2>7. Once'
    BY <2>4 DEF Once
  <2> QED
    BY <1>3, <1>8, <1>9, <1>10, <2>6, <2>7 DEF Ran
<1> QED
  BY <1>19, <1>20

\* When an n59 is through, all shifts of the iteration are, up to its place.
LEMMA AdvancePassed ==
  ASSUME RInv, pc = "advance", NEW x \in Places, NEW s \in Shifts
  PROVE  Passed(x, s) <=>
           \/ s < SHIFT /\ InWalk(x)
           \/ /\ SHIFT <= s /\ s < NextSHIFT(v, SHIFT)
              /\ Index(First) <= Index(x) /\ Index(x) < Index(Here) + 1
<1>1. /\ v \in CPU \cup Kernel /\ IInv /\ Ended /\ Walking /\ InRows /\ SHIFT \in Nat /\ s \in Nat
      /\ rows \in Nat /\ start.rows \in Nat /\ Progress = Index(Here)
  <2>1. Walking /\ IInv /\ Ended /\ InRows /\ SHIFT \in Nat /\ rows \in 0 .. start.rows
    BY DEF RInv, Ran, SInv, IInv, Shifted, Walking, Counted
  <2>2. v \in CPU \cup Kernel /\ start.rows \in Nat \ {0}
    BY <2>1, PositionIs DEF IInv, Sampled
  <2>3. rows \in Nat
    BY <2>1, <2>2, SMT
  <2>4. Progress = Index(Here)
    BY <2>1 DEF Progress
  <2> QED
    BY <2>1, <2>2, <2>3, <2>4, InRange
<1>2. PICK w \in 1 .. 640 : BitsUpTo(v, w)
  BY <1>1, BitsCover
<1>3. w \in Nat /\ s - SHIFT \in Int /\ (s - SHIFT \in 0 .. w - 1 <=> SHIFT <= s /\ s < SHIFT + w)
  BY <1>1, SMT
<1>4. NextSHIFT(v, SHIFT) = SHIFT + w
  BY <1>1, <1>2 DEF BitsUpTo
<1>5. Seen(s - SHIFT) <=> SHIFT <= s /\ s < SHIFT + w
  BY <1>1, <1>2, <1>3, AllSeen
<1>6. /\ Index(x) \in Nat /\ Index(Here) \in Nat /\ Index(First) \in Nat
      /\ Index(RowFirst) = Index(First) + 35 * rows /\ Index(Here) = Index(RowFirst) + (35 - i59)
      /\ i59 \in 1 .. 35
  BY <1>1, StandIs, PlaceType DEF RInv, InRows, CInv, Turned
<1>7. Index(First) <= Index(Here)
  BY <1>1, <1>6, SMT
<1>8. Passed(x, s) <=> \/ s < SHIFT /\ InWalk(x)
                       \/ SHIFT <= s /\ s < SHIFT + w /\ Index(First) <= Index(x) /\ Index(x) < Index(Here)
                       \/ Index(x) = Index(Here) /\ SHIFT <= s /\ s < SHIFT + w
  BY <1>1, <1>4, <1>5 DEF Passed
<1>9. Index(x) < Index(Here) + 1 <=> Index(x) < Index(Here) \/ Index(x) = Index(Here)
  BY <1>6, SMT
<1>10. Index(x) = Index(Here) => Index(First) <= Index(x)
  BY <1>7
<1> QED
  BY <1>4, <1>8, <1>9, <1>10, Zenon

LEMMA NextN59Ran == RInv /\ NextN59 => Ran'
<1> SUFFICES ASSUME RInv, NextN59 PROVE Ran'
  OBVIOUS
<1>1. /\ v' = v /\ start' = start /\ SHIFT' = SHIFT /\ report' = report /\ pc = "advance" /\ pc' = "look"
      /\ i43' = i43 /\ i47' = i47 /\ i53' = i53 /\ i59' = i59 - 1 /\ rows' = rows
      /\ part' = 1 /\ sito' = Bits(v)[1]
  BY DEF NextN59
<1>2. /\ Index(First)' = Index(First) /\ Shifts' = Shifts /\ (Fitting' <=> Fitting)
      /\ \A x : InWalk(x)' <=> InWalk(x)
  BY <1>1, SampleKept
<1>3. Fitting'
  BY <1>2 DEF RInv, Ran
<1>4. Walking /\ Walking'
  BY <1>1 DEF Walking
<1>7. Index(RowFirst)' = Index(RowFirst) /\ Index(Here)' = Index(Here) + 1
  <2>1. Index(RowFirst)' = Index(RowFirst)
    BY <1>1 DEF RowFirst, Index
  <2>2. i43 \in 1 .. 19 /\ i47 \in 1 .. 23 /\ i53 \in 1 .. 29 /\ i59 \in 1 .. 35
    BY <1>4 DEF RInv, CInv, Turned
  <2>3. /\ Index(Here)' = (((19 - i43) * 23 + (23 - i47)) * 29 + (29 - i53)) * 35 + (35 - (i59 - 1))
        /\ Index(Here) = (((19 - i43) * 23 + (23 - i47)) * 29 + (29 - i53)) * 35 + (35 - i59)
    BY <1>1 DEF Here, Index
  <2>4. Index(Here)' = Index(Here) + 1
    BY <2>2, <2>3, SMT
  <2> QED
    BY <2>1, <2>4
<1>8. InRows' /\ Ended' /\ Surviving'
  BY <1>1, <1>2, <1>4, <1>7 DEF RInv, Ran, InRows, Ended, Surviving
<1>9. ASSUME NEW x \in Places, NEW s \in Shifts
      PROVE  Passed(x, s)' <=> Passed(x, s)
  <2>1. Progress' = Index(Here) + 1
    BY <1>1, <1>4, <1>7 DEF Progress
  <2>2. \A b : ~Seen(b)'
    BY <1>1, NoneSeen
  <2>3. ~Seen(s - SHIFT)'
    BY <1>1, <2>2 DEF Seen
  <2>4. Passed(x, s)' <=>
           \/ s < SHIFT /\ InWalk(x)
           \/ /\ SHIFT <= s /\ s < NextSHIFT(v, SHIFT)
              /\ Index(First) <= Index(x) /\ Index(x) < Index(Here) + 1
    <3>1. Index(x)' = Index(x)
      BY DEF Index
    <3> QED
      BY <1>1, <1>2, <2>1, <2>3, <3>1 DEF Passed
  <2> QED
    BY <1>1, <2>4, AdvancePassed
<1>10. Right' /\ Once'
  BY <1>1, <1>9, ReportKept
<1> QED
  BY <1>3, <1>8, <1>10 DEF Ran

\* The row after a row.
LEMMA RowAfter ==
  ASSUME CInv, pc = "advance", i59 = 1, NextRow
  PROVE  Index(RowFirst)' = Index(Here) + 1 /\ Index(Here) + 1 = Index(RowFirst) + 35
<1>1. i43 \in 1 .. 19 /\ i47 \in 1 .. 23 /\ i53 \in 1 .. 29 /\ Walking
  BY DEF CInv, Turned, Walking
<1>2. /\ Index(Here) = (((19 - i43) * 23 + (23 - i47)) * 29 + (29 - i53)) * 35 + (35 - 1)
      /\ Index(RowFirst)' = (((19 - i43') * 23 + (23 - i47')) * 29 + (29 - i53')) * 35 + (35 - 35)
      /\ Index(RowFirst) = (((19 - i43) * 23 + (23 - i47)) * 29 + (29 - i53)) * 35 + (35 - 35)
  BY DEF Index, Here, RowFirst
<1>3. CASE NextN53
  <2>1. i43' = i43 /\ i47' = i47 /\ i53' = i53 - 1
    BY <1>3 DEF NextN53
  <2> QED
    BY <1>1, <1>2, <2>1, SMT
<1>4. CASE NextN47
  <2>1. PRIME7 - 24 = 29
    BY SMT DEF PRIME7
  <2>2. i43' = i43 /\ i47' = i47 - 1 /\ i53' = 29 /\ i53 = 1
    BY <1>4, <2>1 DEF NextN47
  <2> QED
    BY <1>1, <1>2, <2>2, SMT
<1>5. CASE NextN43
  <2>1. PRIME7 - 24 = 29 /\ PRIME6 - 24 = 23
    BY SMT DEF PRIME7, PRIME6
  <2>2. i43' = i43 - 1 /\ i47' = 23 /\ i53' = 29 /\ i53 = 1 /\ i47 = 1
    BY <1>5, <2>1 DEF NextN43
  <2> QED
    BY <1>1, <1>2, <2>2, SMT
<1> QED
  BY <1>3, <1>4, <1>5 DEF NextRow

LEMMA NextRowRan == RInv /\ NextRow => Ran'
<1> SUFFICES ASSUME RInv, NextRow PROVE Ran'
  OBVIOUS
<1>1. /\ v' = v /\ start' = start /\ SHIFT' = SHIFT /\ report' = report /\ pc = "advance" /\ pc' = "row"
      /\ i59 = 1 /\ rows + 1 < start.rows /\ rows' = rows + 1
  BY DEF NextRow, NextN53, NextN47, NextN43, RowEnds
<1>2. /\ Index(First)' = Index(First) /\ Shifts' = Shifts /\ (Fitting' <=> Fitting)
      /\ \A x : InWalk(x)' <=> InWalk(x)
  BY <1>1, SampleKept
<1>3. Fitting'
  BY <1>2 DEF RInv, Ran
<1>4. Walking /\ ~Walking'
  BY <1>1 DEF Walking
<1>7. Index(RowFirst)' = Index(Here) + 1 /\ Index(Here) + 1 = Index(RowFirst) + 35
  BY <1>1, RowAfter DEF RInv
<1>8. InRows' /\ Ended' /\ Surviving'
  <2>1. Index(RowFirst) = Index(First) + 35 * rows
    BY <1>4 DEF RInv, Ran, InRows
  <2>2. rows \in Nat /\ Index(First) \in Nat
    <3>1. rows \in 0 .. start.rows /\ start.rows \in Nat \ {0}
      BY PositionIs DEF RInv, SInv, IInv, Sampled, Counted
    <3> QED
      BY <3>1, StandIs, SMT DEF RInv
  <2>3. (Index(First) + 35 * rows) + 35 = Index(First) + 35 * (rows + 1)
    BY <2>2, SMT
  <2>4. Index(RowFirst)' = Index(First)' + 35 * rows' /\ rows' < start'.rows
    BY <1>1, <1>2, <1>7, <2>1, <2>3
  <2> QED
    BY <1>1, <2>4 DEF InRows, Ended, Surviving
<1>9. ASSUME NEW x \in Places, NEW s \in Shifts
      PROVE  Passed(x, s)' <=> Passed(x, s)
  <2>1. Progress' = Index(Here) + 1
    BY <1>1, <1>7 DEF Progress
  <2>4. Passed(x, s)' <=>
           \/ s < SHIFT /\ InWalk(x)
           \/ /\ SHIFT <= s /\ s < NextSHIFT(v, SHIFT)
              /\ Index(First) <= Index(x) /\ Index(x) < Index(Here) + 1
    <3>1. Index(x)' = Index(x)
      BY DEF Index
    <3> QED
      BY <1>1, <1>2, <1>4, <2>1, <3>1 DEF Passed
  <2> QED
    BY <1>1, <2>4, AdvancePassed
<1>10. Right' /\ Once'
  BY <1>1, <1>9, ReportKept
<1> QED
  BY <1>3, <1>8, <1>10 DEF Ran

\* The end of the walk is the end of the rows, or of the loops.
LEMMA WalkEnds ==
  ASSUME RInv, pc = "advance", EntryEnds, NEW x \in Places
  PROVE  InWalk(x) <=> Index(First) <= Index(x) /\ Index(x) < Index(Here) + 1
<1>1. /\ Walking /\ i59 = 1 /\ rows \in Nat /\ start.rows \in Nat /\ rows < start.rows
      /\ Index(x) \in Nat /\ Index(First) \in Nat /\ Index(RowFirst) = Index(First) + 35 * rows
      /\ Index(Here) = Index(RowFirst) + (35 - 1) /\ Index(Here) \in Nat
  <2>1. Walking /\ i59 = 1
    BY DEF Walking, EntryEnds
  <2>2. rows \in Nat /\ start.rows \in Nat
    <3>1. rows \in 0 .. start.rows /\ start.rows \in Nat \ {0}
      BY PositionIs DEF RInv, SInv, IInv, Sampled, Counted
    <3> QED
      BY <3>1, SMT
  <2>3. rows < start.rows /\ Index(RowFirst) = Index(First) + 35 * rows
    BY <2>1 DEF RInv, Ran, InRows
  <2> QED
    BY <2>1, <2>2, <2>3, StandIs, PlaceType DEF RInv
<1>2. CASE rows + 1 = start.rows
  <2>1. Index(Here) + 1 = Index(First) + 35 * start.rows
    BY <1>1, <1>2, SMT
  <2> QED
    BY <2>1 DEF InWalk
<1>3. CASE i53 = 1 /\ i47 = 1 /\ i43 = 1
  <2>1. Here = <<1, 1, 1, 1>>
    BY <1>1, <1>3 DEF Here
  <2>2. Index(x) <= Index(Here)
    BY <2>1, LastIndex
  <2>3. Index(x) < Index(Here) + 1
    BY <1>1, <2>2, SMT
  <2>4. Index(x) < Index(First) + 35 * start.rows
    BY <1>1, <2>2, SMT
  <2> QED
    BY <2>3, <2>4 DEF InWalk
<1> QED
  BY <1>2, <1>3 DEF EntryEnds

LEMMA NextIterationRan == RInv /\ NextIteration => Ran'
<1> SUFFICES ASSUME RInv, NextIteration PROVE Ran'
  OBVIOUS
<1>1. /\ v' = v /\ start' = start /\ SHIFT' = NextSHIFT(v, SHIFT) /\ report' = report /\ pc = "advance"
      /\ pc' = (IF SHIFT' < maxshift THEN "begin" ELSE "done") /\ EntryEnds
  BY DEF NextIteration
<1>2. /\ Index(First)' = Index(First) /\ Shifts' = Shifts /\ (Fitting' <=> Fitting)
      /\ maxshift' = maxshift /\ \A x : InWalk(x)' <=> InWalk(x)
  BY <1>1, SampleKept
<1>3. Fitting'
  BY <1>2 DEF RInv, Ran
<1>4. pc' \in {"begin", "done"} /\ ~Walking' /\ pc' # "row"
  BY <1>1 DEF Walking
<1>5. v \in CPU \cup Kernel /\ SHIFT \in Nat /\ maxshift \in Int
  <2>1. v \in CPU \cup Kernel /\ start.startSHIFT \in 0 .. INT_MAX - 1280 /\ SHIFT \in Nat
    BY PositionIs DEF RInv, SInv, IInv, Sampled, Shifted
  <2> QED
    BY <2>1, IntMaxIs, SMT DEF maxshift
<1>6. PICK w \in 1 .. 640 : BitsUpTo(v, w)
  BY <1>5, BitsCover
<1>7. w \in Nat /\ w > 0 /\ NextSHIFT(v, SHIFT) = SHIFT + w
  <2>1. w \in Nat /\ w > 0
    BY SMT
  <2> QED
    BY <1>5, <1>6, <2>1 DEF BitsUpTo
<1>8. InRows' /\ Ended' /\ Surviving'
  <2>1. pc' = "done" => maxshift' <= SHIFT'
    BY <1>1, <1>2, <1>5, <1>7, SMT
  <2> QED
    BY <1>4, <2>1 DEF InRows, Ended, Surviving
<1>9. ASSUME NEW x \in Places, NEW s \in Shifts
      PROVE  Passed(x, s)' <=> Passed(x, s)
  <2>1. Progress' = Index(First)
    BY <1>2, <1>4 DEF Progress
  <2>2. Index(x)' = Index(x)
    BY DEF Index
  <2>3. Index(x) \in Nat /\ Index(First) \in Nat /\ s \in Nat
    BY PlaceType, StandIs, InRange DEF RInv
  <2>4. ~(Index(First) <= Index(x) /\ Index(x) < Index(First))
    BY <2>3, SMT
  <2>5. Passed(x, s)' <=> s < SHIFT + w /\ InWalk(x)
    BY <1>1, <1>2, <1>4, <1>7, <2>1, <2>2, <2>4 DEF Passed
  <2>6. s < SHIFT + w <=> s < SHIFT \/ (SHIFT <= s /\ s < SHIFT + w)
    BY <1>5, <1>7, <2>3, SMT
  <2>7. Passed(x, s) <=> \/ s < SHIFT /\ InWalk(x)
                         \/ SHIFT <= s /\ s < SHIFT + w /\ InWalk(x)
    BY <1>1, <1>7, AdvancePassed, WalkEnds
  <2> QED
    BY <2>5, <2>6, <2>7
<1>10. Right' /\ Once'
  BY <1>1, <1>9, ReportKept
<1> QED
  BY <1>3, <1>8, <1>10 DEF Ran

LEMMA StutterRan == RInv /\ UNCHANGED vars => Ran'
<1> SUFFICES ASSUME RInv, UNCHANGED vars PROVE Ran'
  OBVIOUS
<1>1. /\ v' = v /\ start' = start /\ SHIFT' = SHIFT /\ report' = report /\ pc' = pc
      /\ i43' = i43 /\ i47' = i47 /\ i53' = i53 /\ i59' = i59 /\ rows' = rows /\ n59' = n59
      /\ part' = part /\ sito' = sito
  BY DEF vars
<1>2. /\ Index(First)' = Index(First) /\ Shifts' = Shifts /\ (Fitting' <=> Fitting)
      /\ maxshift' = maxshift /\ \A x : InWalk(x)' <=> InWalk(x)
  BY <1>1, SampleKept
<1>3. (Walking' <=> Walking) /\ Index(RowFirst)' = Index(RowFirst) /\ Progress' = Progress
  BY <1>1, <1>2 DEF Walking, RowFirst, Here, Index, Progress
<1>4. Fitting' /\ InRows' /\ Ended'
  BY <1>1, <1>2, <1>3 DEF RInv, Ran, InRows, Ended
<1>5. Surviving'
  <2>1. ASSUME NEW c, NEW h
        PROVE  Survives(c, h)' <=> Survives(c, h)
    BY <1>1 DEF Survives, Clean, Open, maxshift
  <2> QED
    BY <1>1, <2>1 DEF RInv, Ran, Surviving
<1>6. ASSUME NEW x, NEW s
      PROVE  Passed(x, s)' <=> Passed(x, s)
  <2>1. Seen(s - SHIFT)' <=> Seen(s - SHIFT)
    BY <1>1 DEF Seen
  <2> QED
    BY <1>1, <1>2, <1>3, <2>1 DEF Passed, Index
<1>7. Right' /\ Once'
  BY <1>1, <1>6, ReportKept
<1> QED
  BY <1>4, <1>5, <1>7 DEF Ran

LEMMA NextRInv == RInv /\ [Next]_vars => RInv'
<1> SUFFICES ASSUME RInv, [Next]_vars PROVE RInv'
  OBVIOUS
<1>1. SInv' /\ CInv'
  BY NextSInv, NextCInv DEF RInv, Ran
<1>2. Ran'
  <2>1. CASE Next
    BY <2>1, PrepareRan, BeginRan, Row35Ran, LookRan, CheckRan, NextN59Ran, NextRowRan, NextIterationRan,
       StutterRan DEF Next, Done
  <2>2. CASE UNCHANGED vars
    BY <2>2, StutterRan
  <2> QED
    BY <2>1, <2>2
<1> QED
  BY <1>1, <1>2 DEF RInv

-----------------------------------------------------------------------------
\* What the runs report.

\* The first row walked, as the loops count it from the entry.
RowStart == After(After(After(N43(v, q, start.entry), q.S43, 19 - start.i43),
                        q.S47, 23 - start.i47), q.S53, 29 - start.i53)
RowPlace(t) == <<start.i43, start.i47, start.i53, 35 - t>>

LEMMA RowStartAt ==
  ASSUME CInv, pc # "prepare"
  PROVE  At(RowStart, First)
<1> DEFINE s43 == 19 - start.i43
           s47 == 23 - start.i47
           s53 == 29 - start.i53
           n == N43(v, q, start.entry)
           x == After(n, q.S43, s43)
           y == After(x, q.S47, s47)
           z == After(y, q.S53, s53)
<1>1. /\ s43 \in 0 .. 40 /\ s47 \in 0 .. 40 /\ s53 \in 0 .. 40
      /\ 19 - s43 = start.i43 /\ 23 - s47 = start.i47 /\ 29 - s53 = start.i53
      /\ start.i43 \in Int /\ start.i47 \in Int /\ 19 \in Int /\ 23 \in Int /\ 29 \in Int /\ 35 \in Int
  BY PlaceIs, SMT
<1>2. Locals(q) /\ Products(q, start.K)
  BY DEF CInv, IInv, Filled, Multiplied
<1>3. Below(q.S43) /\ Below(q.S47) /\ Below(q.S53)
  BY <1>2 DEF Locals
<1>4. Below(n) /\ Located(n, 19, 23, 29, 35)
  BY <1>2, PlaceIs, N43Is, EntryClass DEF Located
<1> HIDE DEF n, s43, s47, s53
<1>5. Below(x) /\ Below(y) /\ Below(z)
  <2>1. Below(x)
    BY <1>1, <1>3, <1>4, AfterClass
  <2> HIDE DEF x
  <2>2. Below(y)
    BY <1>1, <1>3, <2>1, AfterClass
  <2> HIDE DEF y
  <2>3. Below(z)
    BY <1>1, <1>3, <2>2, AfterClass
  <2> QED
    BY <2>1, <2>2, <2>3
<1>6. Located(x, start.i43, 23, 29, 35)
  <2>1. Located(After(n, q.S43, s43), 19 - s43, 23, 29, 35)
    BY <1>1, <1>4, LoopSteps
  <2> QED
    BY <1>1, <2>1
<1> HIDE DEF x
<1>7. Located(y, start.i43, start.i47, 29, 35)
  <2>1. Located(After(x, q.S47, s47), start.i43, 23 - s47, 29, 35)
    BY <1>1, <1>5, <1>6, LoopSteps
  <2> QED
    BY <1>1, <2>1
<1> HIDE DEF y
<1>8. Located(z, start.i43, start.i47, start.i53, 35)
  <2>1. Located(After(y, q.S53, s53), start.i43, start.i47, 29 - s53, 35)
    BY <1>1, <1>5, <1>7, LoopSteps
  <2> QED
    BY <1>1, <2>1
<1>9. z = RowStart
  BY DEF z, y, x, n, s43, s47, s53, RowStart
<1> HIDE DEF z
<1> QED
  BY <1>5, <1>8, <1>9 DEF At, First

\* The 35 steps of the row and their places.
LEMMA RowAt ==
  ASSUME CInv, pc # "prepare", NEW t \in 0 .. 34
  PROVE  /\ RowPlace(t) \in Places /\ At(After(RowStart, q.S59, t), RowPlace(t))
         /\ Index(RowPlace(t)) = Index(First) + t
<1> DEFINE n == RowStart
<1>1. /\ start.i43 \in 1 .. 19 /\ start.i47 \in 1 .. 23 /\ start.i53 \in 1 .. 29
      /\ start.i43 \in Int /\ start.i47 \in Int /\ start.i53 \in Int /\ 35 \in Int
      /\ 35 - t \in 1 .. 35 /\ t \in 0 .. 40
  BY PlaceIs, SMT
<1>2. Below(n) /\ Located(n, start.i43, start.i47, start.i53, 35)
  BY RowStartAt DEF At, First
<1>3. Below(q.S59)
  BY DEF CInv, IInv, Filled, Locals
<1> HIDE DEF n
<1>4. /\ Below(After(n, q.S59, t))
      /\ Located(After(n, q.S59, t), start.i43, start.i47, start.i53, 35 - t)
  BY <1>1, <1>2, <1>3, AfterClass, LoopSteps
<1>5. RowPlace(t) \in Places
  BY <1>1 DEF RowPlace, Places
<1>6. Index(RowPlace(t)) = Index(First) + t
  <2>1. /\ Index(RowPlace(t)) = (((19 - start.i43) * 23 + (23 - start.i47)) * 29 + (29 - start.i53)) * 35
                                  + (35 - (35 - t))
        /\ Index(First) = (((19 - start.i43) * 23 + (23 - start.i47)) * 29 + (29 - start.i53)) * 35
                            + (35 - 35)
    BY DEF Index, RowPlace, First
  <2> QED
    BY <1>1, <2>1, SMT
<1> QED
  BY <1>4, <1>5, <1>6 DEF At, RowPlace, n

\* They are in the walk, and all of it when that is one row.
LEMMA RowWalk ==
  ASSUME CInv, pc # "prepare"
  PROVE  /\ \A t \in 0 .. 34 : InWalk(RowPlace(t))
         /\ start.rows = 1 => \A x \in Places : InWalk(x) => \E t \in 0 .. 34 : x = RowPlace(t)
<1>1. Index(First) \in Nat /\ start.rows \in Nat \ {0}
  BY StandIs, PositionIs DEF CInv, IInv, Sampled
<1>2. ASSUME NEW t \in 0 .. 34
      PROVE  InWalk(RowPlace(t))
  <2>1. Index(RowPlace(t)) = Index(First) + t
    BY RowAt
  <2> QED
    BY <1>1, <2>1, SMT DEF InWalk
<1>3. ASSUME start.rows = 1, NEW x \in Places, InWalk(x)
      PROVE  \E t \in 0 .. 34 : x = RowPlace(t)
  <2> DEFINE t == Index(x) - Index(First)
  <2>1. t \in 0 .. 34 /\ Index(x) = Index(First) + t
    BY <1>1, <1>3, PlaceType, SMT DEF InWalk
  <2> HIDE DEF t
  <2>2. RowPlace(t) \in Places /\ Index(RowPlace(t)) = Index(x)
    BY <2>1, RowAt
  <2>3. x = RowPlace(t)
    BY <2>2, IndexUnique
  <2> QED
    BY <2>1, <2>3
<1> QED
  BY <1>2, <1>3

\* In the end every shift was sieved at every place of the walk.
LEMMA DonePassed ==
  ASSUME RInv, pc = "done", NEW x \in Places, NEW s \in Shifts
  PROVE  Passed(x, s) <=> InWalk(x)
<1>1. ~Walking /\ maxshift <= SHIFT
  BY DEF RInv, Ran, Ended, Walking
<1>2. SHIFT \in Nat /\ maxshift \in Int /\ s \in Nat /\ s < maxshift
  <2>1. start.startSHIFT \in 0 .. INT_MAX - 1280 /\ SHIFT \in Nat
    BY PositionIs DEF RInv, SInv, IInv, Sampled, Shifted
  <2> QED
    BY <2>1, InRange, IntMaxIs, SMT DEF maxshift
<1>3. s < SHIFT /\ ~(SHIFT <= s)
  BY <1>1, <1>2, SMT
<1> QED
  BY <1>1, <1>3 DEF Passed

\* What is reported is the clean windows of the row, and of other rows walked.
LEMMA ReportedIs ==
  ASSUME RInv, pc = "done", NEW w
  PROVE  /\ \A t \in 0 .. 34 : \A s \in Shifts :
              AllClean(After(RowStart, q.S59, t), s) /\ w = Candidate(After(RowStart, q.S59, t), s)
                => w \in ToSet(report)
         /\ start.rows = 1 /\ w \in ToSet(report)
              => \E t \in 0 .. 34 : \E s \in Shifts :
                   AllClean(After(RowStart, q.S59, t), s) /\ w = Candidate(After(RowStart, q.S59, t), s)
<1>1. CInv /\ pc # "prepare" /\ Right /\ start.K \in Nat /\ start.entry \in Counters
  BY PlaceIs DEF RInv, Ran
<1>2. ASSUME NEW t \in 0 .. 34, NEW s \in Shifts, AllClean(After(RowStart, q.S59, t), s),
             w = Candidate(After(RowStart, q.S59, t), s)
      PROVE  w \in ToSet(report)
  <2>1. /\ RowPlace(t) \in Places /\ At(After(RowStart, q.S59, t), RowPlace(t))
        /\ InWalk(RowPlace(t))
    BY <1>1, RowAt, RowWalk
  <2>2. Passed(RowPlace(t), s)
    BY <2>1, DonePassed
  <2>3. IsWindow(w, RowPlace(t), s)
    BY <1>2, <2>1 DEF IsWindow
  <2> QED
    BY <1>1, <2>1, <2>2, <2>3 DEF Right
<1>3. ASSUME start.rows = 1, w \in ToSet(report)
      PROVE  \E t \in 0 .. 34 : \E s \in Shifts :
               AllClean(After(RowStart, q.S59, t), s) /\ w = Candidate(After(RowStart, q.S59, t), s)
  <2>1. PICK x \in Places, s \in Shifts : Passed(x, s) /\ IsWindow(w, x, s)
    BY <1>1, <1>3 DEF Right
  <2>2. PICK t \in 0 .. 34 : x = RowPlace(t)
    BY <1>1, <1>3, <2>1, DonePassed, RowWalk
  <2>3. PICK n : At(n, x) /\ AllClean(n, s) /\ w = Candidate(n, s)
    BY <2>1 DEF IsWindow
  <2>4. At(After(RowStart, q.S59, t), x)
    BY <1>1, <2>2, RowAt
  <2>5. n = After(RowStart, q.S59, t)
    BY <1>1, <2>3, <2>4, AtUnique
  <2> QED
    BY <2>3, <2>5
<1> QED
  BY <1>2, <1>3

\* A number of a window of multiples of m is a number below m and one of those multiples.
LEMMA MultipleIn ==
  ASSUME NEW m \in Nat \ {0}, NEW x \in Nat, x < m, NEW s \in Int, NEW a \in Nat, NEW b \in Nat,
         a * m <= x + s * m, x + s * m < b * m
  PROVE  a <= s /\ s < b
<1>1. ASSUME s < a
      PROVE  FALSE
  <2>1. a - (s + 1) \in Nat
    BY <1>1, SMT
  <2>2. (a - (s + 1)) * m \in Nat /\ a * m = (a - (s + 1)) * m + s * m + m
    BY <2>1, SMT
  <2> DEFINE u == (a - (s + 1)) * m
             y == s * m
             z == a * m
  <2>3. u \in Nat /\ y \in Int /\ z = u + y + m /\ z <= x + y
    BY <2>2
  <2> HIDE DEF u, y, z
  <2> QED
    BY <2>3, SMT
<1>2. ASSUME b <= s
      PROVE  FALSE
  <2>1. s - b \in Nat
    BY <1>2, SMT
  <2>2. (s - b) * m \in Nat /\ s * m = (s - b) * m + b * m
    BY <2>1, SMT
  <2> DEFINE u == (s - b) * m
             y == s * m
             z == b * m
  <2>3. u \in Nat /\ y \in Int /\ z \in Int /\ y = u + z /\ x + y < z
    BY <2>2
  <2> HIDE DEF u, y, z
  <2> QED
    BY <2>3, SMT
<1> QED
  BY <1>1, <1>2, SMT

\* The progression that is known of a position begins in its row: it is a number of
\* the class of one of the 35 places, within the 640 shifts, and no prime from 7 to
\* 541 divides a term of its window.
BeginsInRow(a) ==
  a.known # Zero =>
    /\ \A P \in PrimesIn(7, 541) : Rem(a.known, P) \in OpenResidues[a.K][P]
    /\ \E t \in 0 .. 34 :
         Congruent(Val(a.known), Place(a.K, a.entry, a.i43, a.i47, a.i53, 35 - t), Modulus)
    /\ a.startSHIFT * Modulus <= Val(a.known) /\ Val(a.known) < (a.startSHIFT + 640) * Modulus

LEMMA KnownIs ==
  ASSUME RInv, pc # "prepare", BeginsInRow(start), start.known # Zero
  PROVE  \E t \in 0 .. 34 : \E s \in Shifts :
           /\ AllClean(After(RowStart, q.S59, t), s)
           /\ start.known = Candidate(After(RowStart, q.S59, t), s)
<1> DEFINE k == start.known
           m == Modulus
           a == start.startSHIFT
           V == Val(k)
<1>1. /\ k \in UInt64 /\ V \in Nat /\ a \in Nat /\ a + 640 \in Nat /\ m \in Nat \ {0}
      /\ CInv /\ start.K \in Nat /\ start.entry \in Counters
  <2>1. start \in Position /\ CInv
    <3>1. <<v, start>> \in (CPU \cup Kernel) \X Position
      BY SieveAssumption DEF RInv, SInv, IInv, Sampled
    <3> QED
      BY <3>1 DEF RInv
  <2> QED
    BY <2>1, Words, PlaceIs, IntMaxIs, HundredIs, SMT DEF Position
<1>2. PICK t \in 0 .. 34 :
        Congruent(V, Place(start.K, start.entry, start.i43, start.i47, start.i53, 35 - t), m)
  BY DEF BeginsInRow
<1>3. a * m <= V /\ V < (a + 640) * m
  BY DEF BeginsInRow
<1> DEFINE n == After(RowStart, q.S59, t)
           x == Val(n)
           y == Place(start.K, start.entry, start.i43, start.i47, start.i53, 35 - t)
<1>4. /\ Below(n) /\ n \in UInt64 /\ x \in Nat /\ x < m /\ Congruent(x, y, m)
  BY <1>1, RowAt, Words DEF At, RowPlace, Located, Below
<1>5. y \in Int
  <2>1. start.i43 \in Int /\ start.i47 \in Int /\ start.i53 \in Int /\ 35 - t \in Int /\ 0 \in Int
    BY <1>1, PlaceIs, SMT
  <2> QED
    BY <1>1, <2>1, PlaceMoves
<1>6. Congruent(V, x, m)
  <2> HIDE DEF n, x, y, m, V
  <2>1. x \in Int /\ m \in Int /\ V \in Int
    BY <1>1, <1>4, SMT
  <2>2. Congruent(y, x, m)
    BY <1>4, <1>5, <2>1, CongruentSym
  <2> QED
    BY <1>2, <1>5, <2>1, <2>2, CongruentTrans DEF y
<1>7. PICK s \in Int : V = x + s * m
  BY <1>6 DEF Congruent
<1>8. a <= s /\ s < a + 640
  <2> HIDE DEF n, x, y, m, V, a
  <2> QED
    BY <1>1, <1>3, <1>4, <1>7, MultipleIn
<1>9. s \in Shifts
  <2> HIDE DEF n, x, y, m, V
  <2> QED
    BY <1>1, <1>8, SMT DEF Shifts, maxshift
<1>10. InWord(s)
  BY <1>9, InRange
<1>11. k = Candidate(n, s)
  <2>1. Candidate(n, s) \in UInt64 /\ Val(Candidate(n, s)) = x + s * m
    BY <1>4, <1>10, CandidateIs
  <2>2. Val(Candidate(n, s)) = Val(k)
    BY <1>7, <2>1
  <2> QED
    BY <1>1, <2>1, <2>2, ValUnique
<1>12. AllClean(n, s)
  <2>1. ASSUME NEW P \in PrimesIn(7, 541)
        PROVE  Clean(n, s, P)
    <3>1. P \in Primes
      BY DEF PrimesIn
    <3>2. Spot(Rem(n, P), s, P) = Rem(k, P)
      BY <1>4, <1>10, <1>11, <3>1, RowOfCandidate
    <3>3. Rem(k, P) \in OpenResidues[start.K][P]
      BY DEF BeginsInRow
    <3> QED
      BY <3>2, <3>3 DEF Clean, Open
  <2> QED
    BY <2>1 DEF AllClean
<1> QED
  BY <1>9, <1>11, <1>12

LEMMA SpecRInv ==
  ASSUME \A s \in Samples : s[2].K \in Searched,
         \A s \in Samples : (s[2].startSHIFT + 640) * Modulus <= W
  PROVE  Spec => []RInv
<1>1. Init => RInv
  BY InitSInv, InitCInv, InitRan DEF RInv
<1>2. RInv /\ [Next]_vars => RInv'
  BY NextRInv
<1> QED
  BY <1>1, <1>2, PTL DEF Spec

\* When the iterations of the loop over SHIFT are over, the windows that were reported
\* for the first row are exactly those, over all 640 shifts, that no prime from 7 to
\* 541 divides, each once, in every variant and from every entry and position: the
\* order of the words and of their bits, the parts of the wide vectors, the groups of
\* tables, the tests that follow them and the counters of the five loops lose no window
\* and visit none twice.  So is the progression that is known of a position, when it
\* begins in its row.  The 640 shifts have to leave the candidates in 64 bits, or they
\* wrap around; K is one that will_search lets through.
THEOREM RunsAreExact ==
  ASSUME \A s \in Samples : s[2].K \in Searched,
         \A s \in Samples : (s[2].startSHIFT + 640) * Modulus <= W,
         \A s \in Samples : BeginsInRow(s[2])
  PROVE  Spec => []RunExact
<1>1. RInv => RunExact
  <2> SUFFICES ASSUME RInv, pc = "done" PROVE RunExact
    BY DEF RunExact
  <2> DEFINE row == {After(RowStart, q.S59, t) : t \in 0 .. 34}
             clean(n) == CleanShifts(n, Shifts, PrimesIn(7, 541))
             windows == UNION {{Candidate(n, s) : s \in clean(n)} : n \in row}
  <2>1. \A n : clean(n) = {s \in Shifts : AllClean(n, s)}
    BY CleanShiftsAre DEF AllClean
  <2>2. \A w : w \in windows <=>
          \E t \in 0 .. 34 : \E s \in Shifts :
            AllClean(After(RowStart, q.S59, t), s) /\ w = Candidate(After(RowStart, q.S59, t), s)
    <3> HIDE DEF clean
    <3> QED
      BY <2>1
  <2>3. IsInjective(report)
    BY DEF RInv, Ran, Once
  <2> HIDE DEF windows
  <2>4. windows \subseteq ToSet(report)
    BY <2>2, ReportedIs
  <2>5. start.rows = 1 => ToSet(report) = windows
    <3> SUFFICES ASSUME start.rows = 1, NEW w \in ToSet(report) PROVE w \in windows
      BY <2>4
    <3> QED
      BY <2>2, ReportedIs
  <2>6. start.known # Zero => start.known \in ToSet(report)
    <3>1. BeginsInRow(start)
      <4>1. <<v, start>> \in Samples
        BY DEF RInv, SInv, IInv, Sampled
      <4>2. <<v, start>>[2] = start
        OBVIOUS
      <4> QED
        BY <4>1, <4>2, Zenon
    <3>2. start.known # Zero => start.known \in windows
      BY <2>2, <3>1, KnownIs
    <3> QED
      BY <2>4, <3>2
  <2> QED
    BY <2>3, <2>4, <2>5, <2>6 DEF RunExact, windows, row, clean, RowStart, Shifts
<1> QED
  BY <1>1, SpecRInv, PTL

-----------------------------------------------------------------------------
\* The table of n43s.

\* The windows that start at term j of a progression: boxes of the counters i31, i37
\* and i41, held as nested pairs, that overlap where j is 1.
Box(a, b, c, d, e, f) == ((a .. b) \X (c .. d)) \X (e .. f)
Overlapping == Box(0, 4, 0, 10, 0, 14) \cup Box(1, 5, 1, 11, 1, 15) \cup Box(2, 6, 2, 12, 2, 16)

Sized(a, b, c, d, e, f) ==
  /\ IsFiniteSet(Box(a, b, c, d, e, f))
  /\ Cardinality(Box(a, b, c, d, e, f)) = ((b - a + 1) * (d - c + 1)) * (f - e + 1)
LEMMA BoxIs ==
  ASSUME NEW a \in Int, NEW b \in Int, a <= b, NEW c \in Int, NEW d \in Int, c <= d,
         NEW e \in Int, NEW f \in Int, e <= f
  PROVE  Sized(a, b, c, d, e, f)
<1>1. /\ IsFiniteSet(a .. b) /\ Cardinality(a .. b) = b - a + 1
      /\ IsFiniteSet(c .. d) /\ Cardinality(c .. d) = d - c + 1
      /\ IsFiniteSet(e .. f) /\ Cardinality(e .. f) = f - e + 1
  <2>1. ~(a > b) /\ ~(c > d) /\ ~(e > f)
    BY SMT
  <2> QED
    BY <2>1, FS_Interval
<1> DEFINE A == a .. b
           C == c .. d
           E == e .. f
<1> HIDE DEF A, C, E
<1>2. IsFiniteSet(A \X C) /\ Cardinality(A \X C) = Cardinality(A) * Cardinality(C)
  BY <1>1, FS_Product DEF A, C
<1>3. /\ IsFiniteSet((A \X C) \X E)
      /\ Cardinality((A \X C) \X E) = Cardinality(A \X C) * Cardinality(E)
  BY <1>1, <1>2, FS_Product DEF E
<1> QED
  BY <1>1, <1>2, <1>3 DEF Sized, Box, A, C, E

\* 825 + 825 + 825 - 560 - 560.
LEMMA OverlappingIs == IsFiniteSet(Overlapping) /\ Cardinality(Overlapping) = 1355
<1> DEFINE X == Box(0, 4, 0, 10, 0, 14)
           Y == Box(1, 5, 1, 11, 1, 15)
           Z == Box(2, 6, 2, 12, 2, 16)
<1>1. IsFiniteSet(X) /\ Cardinality(X) = 825
  <2>1. Sized(0, 4, 0, 10, 0, 14)
    <3>1. 0 \in Int /\ 4 \in Int /\ 10 \in Int /\ 14 \in Int
      BY SMT
    <3>2. 0 <= 4 /\ 0 <= 10 /\ 0 <= 14
      BY SMT
    <3> QED
      BY <3>1, <3>2, BoxIs, Zenon
  <2> QED
    BY <2>1, SMT DEF Sized
<1>2. IsFiniteSet(Y) /\ Cardinality(Y) = 825
  <2>1. Sized(1, 5, 1, 11, 1, 15)
    <3>1. 1 \in Int /\ 5 \in Int /\ 11 \in Int /\ 15 \in Int
      BY SMT
    <3>2. 1 <= 5 /\ 1 <= 11 /\ 1 <= 15
      BY SMT
    <3> QED
      BY <3>1, <3>2, BoxIs, Zenon
  <2> QED
    BY <2>1, SMT DEF Sized
<1>3. IsFiniteSet(Z) /\ Cardinality(Z) = 825
  <2>1. Sized(2, 6, 2, 12, 2, 16)
    <3>1. 2 \in Int /\ 6 \in Int /\ 12 \in Int /\ 16 \in Int
      BY SMT
    <3>2. 2 <= 6 /\ 2 <= 12 /\ 2 <= 16
      BY SMT
    <3> QED
      BY <3>1, <3>2, BoxIs, Zenon
  <2> QED
    BY <2>1, SMT DEF Sized
<1>4. Cardinality(X \cap Y) = 560
  <2>1. X \cap Y = Box(1, 4, 1, 10, 1, 14)
    BY SMT DEF Box
  <2>2. Sized(1, 4, 1, 10, 1, 14)
    <3>1. 1 \in Int /\ 4 \in Int /\ 10 \in Int /\ 14 \in Int
      BY SMT
    <3>2. 1 <= 4 /\ 1 <= 10 /\ 1 <= 14
      BY SMT
    <3> QED
      BY <3>1, <3>2, BoxIs, Zenon
  <2> QED
    BY <2>1, <2>2, SMT DEF Sized
<1>5. Cardinality((X \cup Y) \cap Z) = 560
  <2>1. (X \cup Y) \cap Z = Box(2, 5, 2, 11, 2, 15)
    BY SMT DEF Box
  <2>2. Sized(2, 5, 2, 11, 2, 15)
    <3>1. 2 \in Int /\ 5 \in Int /\ 11 \in Int /\ 15 \in Int
      BY SMT
    <3>2. 2 <= 5 /\ 2 <= 11 /\ 2 <= 15
      BY SMT
    <3> QED
      BY <3>1, <3>2, BoxIs, Zenon
  <2> QED
    BY <2>1, <2>2, SMT DEF Sized
<1> HIDE DEF X, Y, Z
<1>6. IsFiniteSet(X \cup Y) /\ Cardinality(X \cup Y) = 825 + 825 - 560
  BY <1>1, <1>2, <1>4, FS_Union
<1>7. /\ IsFiniteSet((X \cup Y) \cup Z)
      /\ Cardinality((X \cup Y) \cup Z) = Cardinality(X \cup Y) + Cardinality(Z) - Cardinality((X \cup Y) \cap Z)
  BY <1>3, <1>6, FS_Union
<1>8. Cardinality((X \cup Y) \cup Z) = 1355
  BY <1>3, <1>5, <1>6, <1>7, SMT
<1> QED
  BY <1>7, <1>8 DEF Overlapping, X, Y, Z

\* The conditions between the counters leave the windows of a progression.
LEMMA NearIs ==
  ASSUME NEW a \in 0 .. 6, NEW b \in 0 .. 12, NEW c \in 0 .. 16
  PROVE  /\ Near(a, b, c) <=> \E j \in 0 .. 2 : /\ a + 1 - j \in 1 .. 31 - 26
                                                /\ b + 1 - j \in 1 .. 37 - 26
                                                /\ c + 1 - j \in 1 .. 41 - 26
         /\ Near(a, b, c) <=> <<<<a, b>>, c>> \in Overlapping
<1>1. Near(a, b, c) <=> \/ a <= 4 /\ b <= 10 /\ c <= 14
                        \/ 1 <= a /\ a <= 5 /\ 1 <= b /\ b <= 11 /\ 1 <= c /\ c <= 15
                        \/ 2 <= a /\ 2 <= b /\ 2 <= c
  BY SMT DEF Near
<1>2. (\E j \in 0 .. 2 : /\ a + 1 - j \in 1 .. 31 - 26 /\ b + 1 - j \in 1 .. 37 - 26
                         /\ c + 1 - j \in 1 .. 41 - 26)
        <=> \/ a <= 4 /\ b <= 10 /\ c <= 14
            \/ 1 <= a /\ a <= 5 /\ 1 <= b /\ b <= 11 /\ 1 <= c /\ c <= 15
            \/ 2 <= a /\ 2 <= b /\ 2 <= c
  <2> DEFINE E(j) == /\ a + 1 - j \in 1 .. 31 - 26 /\ b + 1 - j \in 1 .. 37 - 26
                     /\ c + 1 - j \in 1 .. 41 - 26
  <2>1. (\E j \in 0 .. 2 : E(j)) <=> E(0) \/ E(1) \/ E(2)
    <3>1. \A j : j \in 0 .. 2 <=> j = 0 \/ j = 1 \/ j = 2
      BY SMT
    <3> HIDE DEF E
    <3> QED
      BY <3>1
  <2>2. /\ E(0) <=> a <= 4 /\ b <= 10 /\ c <= 14
        /\ E(1) <=> 1 <= a /\ a <= 5 /\ 1 <= b /\ b <= 11 /\ 1 <= c /\ c <= 15
        /\ E(2) <=> 2 <= a /\ 2 <= b /\ 2 <= c
    BY SMT
  <2> QED
    BY <2>1, <2>2
<1>3. <<<<a, b>>, c>> \in Overlapping
        <=> \/ a <= 4 /\ b <= 10 /\ c <= 14
            \/ 1 <= a /\ a <= 5 /\ 1 <= b /\ b <= 11 /\ 1 <= c /\ c <= 15
            \/ 2 <= a /\ 2 <= b /\ 2 <= c
  BY SMT DEF Overlapping, Box
<1> QED
  BY <1>1, <1>2, <1>3

LEMMA EntriesAre ==
  ASSUME NEW u \in CPU \cup Kernel
  PROVE  Entries(u) = {i \in Counters : Near(i[1], i[2], i[3])}
BY SMT DEF Entries, Of, CPU, Kernel, Cuda, OpenCL, Entries_sse2, Entries_sse41, Entries_avx, Entries_avx2,
   Entries_avx512, Entries_cuda, Entries_opencl

\* Eight entries for each of the windows.
LEMMA EntriesCount ==
  ASSUME NEW u \in CPU \cup Kernel
  PROVE  Cardinality(Entries(u)) = numn43s
<1> DEFINE E == Entries(u)
           R == (0 .. 1) \X (0 .. 3)
           S == Overlapping \X R
           f == [x \in S |-> <<x[1][1][1], x[1][1][2], x[1][2], x[2][1], x[2][2]>>]
<1>1. \A i : i \in E <=> i \in Counters /\ Near(i[1], i[2], i[3])
  BY EntriesAre
<1>2. IsFiniteSet(S) /\ Cardinality(S) = 1355 * 8
  <2>1. /\ IsFiniteSet(0 .. 1) /\ Cardinality(0 .. 1) = 1 - 0 + 1
        /\ IsFiniteSet(0 .. 3) /\ Cardinality(0 .. 3) = 3 - 0 + 1
    <3>1. 0 \in Int /\ 1 \in Int /\ 3 \in Int /\ ~(0 > 1) /\ ~(0 > 3)
      BY SMT
    <3> QED
      BY <3>1, FS_Interval
  <2> DEFINE P == 0 .. 1
             Q == 0 .. 3
  <2>2. IsFiniteSet(P) /\ Cardinality(P) = 2 /\ IsFiniteSet(Q) /\ Cardinality(Q) = 4
    BY <2>1
  <2> HIDE DEF P, Q
  <2>3. IsFiniteSet(P \X Q) /\ Cardinality(P \X Q) = 8
    BY <2>2, FS_Product
  <2>4. R = P \X Q
    BY DEF P, Q
  <2> HIDE DEF R
  <2>5. IsFiniteSet(R) /\ Cardinality(R) = 8
    BY <2>3, <2>4
  <2> QED
    BY <2>5, OverlappingIs, FS_Product
<1>3. \A w \in Overlapping : /\ w = <<<<w[1][1], w[1][2]>>, w[2]>>
                             /\ w[1][1] \in 0 .. 6 /\ w[1][2] \in 0 .. 12 /\ w[2] \in 0 .. 16
  BY SMT DEF Overlapping, Box
<1>4. ASSUME NEW x \in S
      PROVE  f[x] \in E
  <2>1. /\ x[1] \in Overlapping /\ x[2][1] \in 0 .. 1 /\ x[2][2] \in 0 .. 3
        /\ f[x] = <<x[1][1][1], x[1][1][2], x[1][2], x[2][1], x[2][2]>>
    OBVIOUS
  <2> DEFINE a == x[1][1][1]
             b == x[1][1][2]
             c == x[1][2]
  <2>2. a \in 0 .. 6 /\ b \in 0 .. 12 /\ c \in 0 .. 16 /\ <<<<a, b>>, c>> \in Overlapping
    BY <1>3, <2>1
  <2> HIDE DEF a, b, c
  <2>3. Near(a, b, c)
    BY <2>2, NearIs
  <2>4. f[x] = <<a, b, c, x[2][1], x[2][2]>>
    BY <2>1 DEF a, b, c
  <2>5. f[x] \in Counters /\ f[x][1] = a /\ f[x][2] = b /\ f[x][3] = c
    BY <2>1, <2>2, <2>4 DEF Counters
  <2> QED
    BY <1>1, <2>3, <2>5
<1>5. ASSUME NEW x \in S, NEW y \in S, f[x] = f[y]
      PROVE  x = y
  <2>1. /\ x[1] \in Overlapping /\ x[2] = <<x[2][1], x[2][2]>> /\ x = <<x[1], x[2]>>
        /\ y[1] \in Overlapping /\ y[2] = <<y[2][1], y[2][2]>> /\ y = <<y[1], y[2]>>
    OBVIOUS
  <2>2. /\ x[1][1][1] = y[1][1][1] /\ x[1][1][2] = y[1][1][2] /\ x[1][2] = y[1][2]
        /\ x[2][1] = y[2][1] /\ x[2][2] = y[2][2]
    BY <1>5
  <2>3. x[1] = y[1]
    BY <1>3, <2>1, <2>2
  <2>4. x[2] = y[2]
    BY <2>1, <2>2
  <2> QED
    BY <2>1, <2>3, <2>4
<1>6. ASSUME NEW i \in E
      PROVE  \E x \in S : f[x] = i
  <2>1. /\ i[1] \in 0 .. 6 /\ i[2] \in 0 .. 12 /\ i[3] \in 0 .. 16 /\ i[4] \in 0 .. 1 /\ i[5] \in 0 .. 3
        /\ i = <<i[1], i[2], i[3], i[4], i[5]>> /\ Near(i[1], i[2], i[3])
    BY <1>1 DEF Counters
  <2>2. <<<<i[1], i[2]>>, i[3]>> \in Overlapping
    BY <2>1, NearIs
  <2> DEFINE x == <<<<<<i[1], i[2]>>, i[3]>>, <<i[4], i[5]>>>>
  <2>3. x \in S
    BY <2>1, <2>2
  <2>4. f[x] = <<i[1], i[2], i[3], i[4], i[5]>>
    BY <2>3
  <2> QED
    BY <2>1, <2>3, <2>4
<1>7. f \in Bijection(S, E)
  <2>1. f \in [S -> E]
    BY <1>4
  <2> HIDE DEF f, S, E
  <2> QED
    BY <1>5, <1>6, <2>1 DEF Bijection, Injection, Surjection, IsInjective
<1> HIDE DEF f, S, E
<1>8. ExistsBijection(S, E)
  BY <1>7 DEF ExistsBijection
<1>9. Cardinality(E) = 1355 * 8
  BY <1>2, <1>8, FS_Bijection
<1>10. 1355 * 8 = numn43s
  BY SMT DEF numn43s
<1> QED
  BY <1>9, <1>10 DEF E

\* The table of n43s has in every variant the size it is allocated with, and holds an
\* entry for each way in which the residues modulo 31, 37 and 41 can begin one of the
\* three windows of a progression of 26: the conditions between the counters i31, i37
\* and i41 are that, no more and no less.
THEOREM TablesAreExact == Spec => []TableExact
<1>1. IInv => TableExact
  <2> SUFFICES ASSUME IInv PROVE TableExact
    OBVIOUS
  <2> DEFINE Extendable(i31, i37, i41) ==
               \E j \in 0 .. 2 : /\ i31 + 1 - j \in 1 .. 31 - 26
                                 /\ i37 + 1 - j \in 1 .. 37 - 26
                                 /\ i41 + 1 - j \in 1 .. 41 - 26
             T == (0 .. 6) \X (0 .. 12) \X (0 .. 16)
             L == {<<i[1], i[2], i[3]>> : i \in Entries(v)}
  <2>1. v \in CPU \cup Kernel
    BY PositionIs DEF IInv, Sampled
  <2>2. Cardinality(Entries(v)) = numn43s
    BY <2>1, EntriesCount
  <2>3. \A i : i \in Entries(v) <=> i \in Counters /\ Near(i[1], i[2], i[3])
    BY <2>1, EntriesAre
  <2>4. ASSUME NEW i \in Entries(v)
        PROVE  <<i[1], i[2], i[3]>> \in {x \in T : Extendable(x[1], x[2], x[3])}
    <3>1. i[1] \in 0 .. 6 /\ i[2] \in 0 .. 12 /\ i[3] \in 0 .. 16 /\ Near(i[1], i[2], i[3])
      BY <2>3 DEF Counters
    <3>2. Extendable(i[1], i[2], i[3])
      BY <3>1, NearIs
    <3> HIDE DEF Extendable
    <3> QED
      BY <3>1, <3>2
  <2>5. ASSUME NEW x \in T, Extendable(x[1], x[2], x[3])
        PROVE  x \in L
    <3>1. x[1] \in 0 .. 6 /\ x[2] \in 0 .. 12 /\ x[3] \in 0 .. 16 /\ x = <<x[1], x[2], x[3]>>
      OBVIOUS
    <3>2. Near(x[1], x[2], x[3])
      BY <2>5, <3>1, NearIs
    <3> DEFINE i == <<x[1], x[2], x[3], 0, 0>>
    <3>3. i \in Counters
      BY <3>1, SMT DEF Counters
    <3>4. i[1] = x[1] /\ i[2] = x[2] /\ i[3] = x[3]
      OBVIOUS
    <3> HIDE DEF i
    <3>5. i \in Entries(v)
      BY <2>3, <3>2, <3>3, <3>4
    <3> QED
      BY <3>1, <3>4, <3>5
  <2>6. L = {x \in T : Extendable(x[1], x[2], x[3])}
    <3> HIDE DEF Extendable, T
    <3> QED
      BY <2>4, <2>5
  <2> QED
    BY <2>2, <2>6 DEF TableExact
<1> QED
  BY <1>1, SpecIInv, PTL

=============================================================================
