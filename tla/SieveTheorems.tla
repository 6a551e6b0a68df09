--------------------------- MODULE SieveTheorems ---------------------------
(***************************************************************************)
(* What the sieve of one K computes in each of the eleven variants, for    *)
(* every K, position and number of rows that SieveAssumption allows; TLC   *)
(* runs it at sampled positions.                                           *)
(*                                                                         *)
(* The first part is arithmetic.  n59 and the lanes of the quick loop are  *)
(* advanced apart, n59 by an addition and one subtraction of MOD, a lane   *)
(* by an addition and two repairs; a lane stays n59 modulo its prime       *)
(* (LanesFollow).  REM multiplies by a literal INV and corrects once; the  *)
(* literals are shown to be the reciprocals they stand for.  Then the      *)
(* invariants IInv, one conjunct per thing that the loops keep, and SInv,  *)
(* which adds what the tables, the words and the look-ups hold; the        *)
(* theorems about Spec follow from them.                                   *)
(***************************************************************************)
EXTENDS Sieve, ArithmeticTheorems, SequenceTheorems

\* The number n steps to is n + S, or n + S - M when that reaches M.
Stepped(n, S, M) == IF n + S >= M THEN n + S - M ELSE n + S

\* Wrapped and the repair of a lane give the remainder of the number stepped to.
LEMMA LaneStep ==
  ASSUME NEW P \in Nat \ {0}, NEW M \in Nat \ {0}, NEW n \in Nat, n < M, NEW S \in Nat, S < M
  PROVE  LET w == Wrapped((n % P) + (S % P), P, M % P, n + S >= M)
         IN  (IF w >= P THEN w - P ELSE w) = Stepped(n, S, M) % P
<1> DEFINE r == n % P
           s == S % P
           m == M % P
           a == n \div P
           b == S \div P
           c == M \div P
           w == Wrapped(r + s, P, m, n + S >= M)
           lane == IF w >= P THEN w - P ELSE w
<1>1. n = P * a + r /\ a \in Int /\ r \in Nat /\ r < P
  BY Division, SMT
<1>2. S = P * b + s /\ b \in Int /\ s \in Nat /\ s < P
  BY Division, SMT
<1>3. M = P * c + m /\ c \in Int /\ m \in Nat /\ m < P
  BY Division, SMT
<1> HIDE DEF a, b, c
<1> SUFFICES lane = Stepped(n, S, M) % P
  OBVIOUS
<1>4. CASE n + S >= M
  <2>1. w = IF r + s - m < 0 THEN r + s - m + P ELSE r + s - m
    BY <1>4 DEF Wrapped
  <2>2. Stepped(n, S, M) = n + S - M /\ n + S - M \in Int
    BY <1>4, SMT DEF Stepped
  <2> HIDE DEF r, s, m, w
  <2>3. n + S - M = P * (a + b - c) + (r + s - m)
    BY <1>1, <1>2, <1>3, SMT
  <2> DEFINE k == a + b - c
  <2>4. k \in Int
    BY <1>1, <1>2, <1>3, SMT
  <2>5. n + S - M = P * k + (r + s - m)
    BY <2>3
  <2> HIDE DEF k
  <2>6. CASE r + s - m < 0
    <3>1. lane = r + s - m + P /\ lane \in Nat /\ lane < P
      BY <1>1, <1>2, <1>3, <2>1, <2>6, SMT
    <3>2. n + S - M = P * (k - 1) + lane /\ k - 1 \in Int /\ n + S - M \in Int
      <4> HIDE DEF lane
      <4> QED
        BY <1>1, <1>2, <1>3, <2>2, <1>1, <1>2, <1>3, <2>4, <2>5, <3>1, SMT
    <3> DEFINE h == k - 1
               z == n + S - M
    <3>3. z = Stepped(n, S, M) /\ z = P * h + lane /\ h \in Int /\ z \in Int
      BY <2>2, <3>2
    <3> HIDE DEF lane, h, z
    <3>4. (P * h + lane) % P = lane
      BY <3>1, <3>3, RemainderIs
    <3> QED
      BY <3>3, <3>4
  <2>7. CASE r + s - m >= P
    <3>1. lane = r + s - m - P /\ lane \in Nat /\ lane < P
      BY <1>1, <1>2, <1>3, <2>1, <2>7, SMT
    <3>2. n + S - M = P * (k + 1) + lane /\ k + 1 \in Int /\ n + S - M \in Int
      <4> HIDE DEF lane
      <4> QED
        BY <1>1, <1>2, <1>3, <2>2, <1>1, <1>2, <1>3, <2>4, <2>5, <3>1, SMT
    <3> DEFINE h == k + 1
               z == n + S - M
    <3>3. z = Stepped(n, S, M) /\ z = P * h + lane /\ h \in Int /\ z \in Int
      BY <2>2, <3>2
    <3> HIDE DEF lane, h, z
    <3>4. (P * h + lane) % P = lane
      BY <3>1, <3>3, RemainderIs
    <3> QED
      BY <3>3, <3>4
  <2>8. CASE ~(r + s - m < 0) /\ ~(r + s - m >= P)
    <3>1. lane = r + s - m /\ lane \in Nat /\ lane < P
      BY <1>1, <1>2, <1>3, <2>1, <2>8, SMT
    <3>2. n + S - M = P * k + lane /\ k \in Int /\ n + S - M \in Int
      <4> HIDE DEF lane
      <4> QED
        BY <1>1, <1>2, <1>3, <2>2, <2>4, <2>5, <3>1, SMT
    <3> DEFINE h == k
               z == n + S - M
    <3>3. z = Stepped(n, S, M) /\ z = P * h + lane /\ h \in Int /\ z \in Int
      BY <2>2, <3>2
    <3> HIDE DEF lane, h, z
    <3>4. (P * h + lane) % P = lane
      BY <3>1, <3>3, RemainderIs
    <3> QED
      BY <3>3, <3>4
  <2> QED
    BY <2>6, <2>7, <2>8
<1>5. CASE ~(n + S >= M)
  <2>1. w = r + s
    BY <1>5 DEF Wrapped
  <2>2. Stepped(n, S, M) = n + S /\ n + S \in Int
    BY <1>5, SMT DEF Stepped
  <2> HIDE DEF r, s, m, w
  <2> DEFINE k == a + b
  <2>3. k \in Int /\ n + S = P * k + (r + s)
    BY <1>1, <1>2, SMT
  <2> HIDE DEF k
  <2>4. CASE r + s >= P
    <3>1. lane = r + s - P /\ lane \in Nat /\ lane < P
      BY <1>1, <1>2, <2>1, <2>4, SMT
    <3>2. n + S = P * (k + 1) + lane /\ k + 1 \in Int /\ n + S \in Int
      <4> HIDE DEF lane
      <4> QED
        BY <1>1, <1>2, <1>3, <2>2, <1>1, <1>2, <2>3, <3>1, SMT
    <3> DEFINE h == k + 1
               z == n + S
    <3>3. z = Stepped(n, S, M) /\ z = P * h + lane /\ h \in Int /\ z \in Int
      BY <2>2, <3>2
    <3> HIDE DEF lane, h, z
    <3>4. (P * h + lane) % P = lane
      BY <3>1, <3>3, RemainderIs
    <3> QED
      BY <3>3, <3>4
  <2>5. CASE ~(r + s >= P)
    <3>1. lane = r + s /\ lane \in Nat /\ lane < P
      BY <1>1, <1>2, <2>1, <2>5, SMT
    <3>2. n + S = P * k + lane /\ k \in Int /\ n + S \in Int
      <4> HIDE DEF lane
      <4> QED
        BY <1>1, <1>2, <1>3, <2>2, <2>3, <2>3, <3>1, SMT
    <3> DEFINE h == k
               z == n + S
    <3>3. z = Stepped(n, S, M) /\ z = P * h + lane /\ h \in Int /\ z \in Int
      BY <2>2, <3>2
    <3> HIDE DEF lane, h, z
    <3>4. (P * h + lane) % P = lane
      BY <3>1, <3>3, RemainderIs
    <3> QED
      BY <3>3, <3>4
  <2> QED
    BY <2>4, <2>5
<1> QED
  BY <1>4, <1>5

\* The lanes are never computed afresh in a row of 35 numbers: whatever the
\* prime P, the modulus and the step, one update takes n % P to the remainder of
\* the number the row goes on to, in the five CPU builds, of which the oldest
\* four compare with P - 1 by > where the last compares with P by >=.
THEOREM LanesFollow ==
  ASSUME NEW P \in Nat \ {0}, NEW M \in Nat \ {0}, NEW n \in Nat, n < M, NEW S \in Nat, S < M,
         NEW l, NEW u, u.s[l] = S % P, u.m[l] = M % P, u.num1[l] = P, u.num2[l] = P - 1
  PROVE  /\ NextRem_sse2(l, n % P, u, n + S >= M) = Stepped(n, S, M) % P
         /\ NextRem_sse41(l, n % P, u, n + S >= M) = Stepped(n, S, M) % P
         /\ NextRem_avx(l, n % P, u, n + S >= M) = Stepped(n, S, M) % P
         /\ NextRem_avx2(l, n % P, u, n + S >= M) = Stepped(n, S, M) % P
         /\ NextRem_avx512(l, n % P, u, n + S >= M) = Stepped(n, S, M) % P
<1> DEFINE w == Wrapped((n % P) + (S % P), P, M % P, n + S >= M)
<1>1. w \in Int
  <2>1. n % P \in Int /\ S % P \in Int /\ M % P \in Int
    BY Division, SMT
  <2> QED
    BY <2>1, SMT DEF Wrapped
<1>2. (IF w >= P THEN w - P ELSE w) = Stepped(n, S, M) % P
  BY LaneStep
<1>3. NextRem_avx512(l, n % P, u, n + S >= M) = IF w >= P THEN w - P ELSE w
  BY DEF NextRem_avx512, Wrapped
<1>4. /\ NextRem_sse2(l, n % P, u, n + S >= M) = IF w > P - 1 THEN w - P ELSE w
      /\ NextRem_sse41(l, n % P, u, n + S >= M) = IF w > P - 1 THEN w - P ELSE w
      /\ NextRem_avx(l, n % P, u, n + S >= M) = IF w > P - 1 THEN w - P ELSE w
      /\ NextRem_avx2(l, n % P, u, n + S >= M) = IF w > P - 1 THEN w - P ELSE w
  BY DEF NextRem_sse2, NextRem_sse41, NextRem_avx, NextRem_avx2, Wrapped
<1> HIDE DEF w
<1>5. w > P - 1 <=> w >= P
  BY <1>1, SMT
<1> QED
  BY <1>2, <1>3, <1>4, <1>5
-----------------------------------------------------------------------------
\* The literals of the header as numbers.
Bound == 260 * (Million * Million)
LEMMA BoundIs == Bound \in Nat /\ Bound < B * B /\ B * B \in Nat /\ B * B <= W
<1>1. Bound \in Nat /\ Bound < B * B /\ B * B \in Nat
  BY SMT DEF Bound, Million, B
<1>2. Top \in Nat /\ Top >= 1
  BY SMT DEF Top
<1> DEFINE b == B * B
<1> HIDE DEF b
<1>3. b <= Top * b
  <2>1. b \in Nat
    BY <1>1 DEF b
  <2> QED
    BY <1>2, <2>1, SMT
<1> QED
  BY <1>1, <1>3 DEF b, W

LEMMA LiteralIs ==
  ASSUME NEW x \in Nat, NEW y \in Nat, NEW z \in Nat, x < 259, y < Million, z < Million
  PROVE  Dec(<<x, y, z>>) \in UInt64 /\ Val(Dec(<<x, y, z>>)) = Decimal(x, y, z)
<1>1. Million \in Nat /\ x < Million
  BY SMT DEF Million
<1>2. Decimal(x, y, z) \in Nat /\ Decimal(x, y, z) < Bound
  BY SMT DEF Million, Decimal, Bound
<1>3. Decimal(x, y, z) < W
  BY <1>2, BoundIs, Sizes, SMT
<1> QED
  BY <1>1, <1>3, DecIs

\* MOD as a number, and as a divisor of 48 bits.
Modulus == Decimal(258, 559632, 607830)
LEMMA ModulusIs ==
  /\ MOD \in UInt64 /\ Val(MOD) = Modulus /\ Divisor(MOD)
  /\ Modulus \in Nat \ {0} /\ 2 * Modulus < W /\ Modulus < B * B
<1>1. MOD \in UInt64 /\ Val(MOD) = Modulus
  <2>1. Million = 1000000
    BY SMT DEF Million
  <2> QED
    BY <2>1, LiteralIs, SMT DEF MOD, Modulus
<1>2. Modulus = 258559632607830
  BY SMT DEF Modulus, Decimal, Million
<1>3. Modulus \in Nat \ {0} /\ Modulus < B * B /\ B * B <= 2 * Modulus
  BY <1>2, SMT DEF B
<1> DEFINE b == B * B
<1>4. b \in Nat
  BY BoundIs
<1>5. W = Top * b /\ Top \in Nat /\ Top >= 2
  BY SMT DEF W, Top
<1>6. Modulus < b /\ b <= 2 * Modulus
  BY <1>3
<1> HIDE DEF Modulus, b
<1>7. Modulus * Top < W /\ W <= Modulus * (2 * Top) /\ 2 * Modulus < W
  <2>1. Modulus * Top < Top * b
    BY <1>3, <1>4, <1>5, <1>6, SMT
  <2>2. Top * b <= Top * (2 * Modulus)
    BY <1>3, <1>4, <1>5, <1>6, SMT
  <2>3. 2 * Modulus <= Modulus * Top
    BY <1>3, <1>5, SMT
  <2>4. Top * (2 * Modulus) = Modulus * (2 * Top) /\ Modulus * Top \in Int /\ Top * b \in Int
    BY <1>3, <1>4, <1>5, SMT
  <2> QED
    BY <1>3, <1>5, <2>1, <2>2, <2>3, <2>4, SMT
<1> QED
  BY <1>1, <1>3, <1>7 DEF Divisor

\* The constants of the header are words.
LEMMA ConstantsAre ==
  /\ PRIM23 \in UInt64 /\ N0 \in UInt64 /\ N30 \in UInt64 /\ S3 \in UInt64 /\ S5 \in UInt64
  /\ PRES2 \in UInt64 /\ PRES3 \in UInt64 /\ PRES4 \in UInt64 /\ PRES5 \in UInt64
  /\ PRES6 \in UInt64 /\ PRES7 \in UInt64 /\ PRES8 \in UInt64
<1>1. Million = 1000000
  BY SMT DEF Million
<1>2. 223092870 \in Nat /\ 223092870 < B * B
  BY SMT DEF B
<1>3. PRIM23 \in UInt64
  BY <1>2, SmallIs, SMT DEF PRIM23
<1>4. N0 \in UInt64 /\ N30 \in UInt64 /\ S3 \in UInt64 /\ S5 \in UInt64
  BY <1>1, LiteralIs, SMT DEF N0, N30, S3, S5
<1>5. PRES2 \in UInt64 /\ PRES3 \in UInt64 /\ PRES4 \in UInt64 /\ PRES5 \in UInt64
  BY <1>1, LiteralIs, SMT DEF PRES2, PRES3, PRES4, PRES5
<1>6. PRES6 \in UInt64 /\ PRES7 \in UInt64 /\ PRES8 \in UInt64
  BY <1>1, LiteralIs, SMT DEF PRES6, PRES7, PRES8
<1> QED
  BY <1>3, <1>4, <1>5, <1>6

\* A word below MOD.
Below(n) == n \in UInt64 /\ Val(n) < Modulus
LEMMA BelowIs ==
  ASSUME NEW n \in UInt64
  PROVE  Below(n) <=> ~AtLeast(n, MOD)
<1>1. Val(n) \in Nat /\ Modulus \in Nat /\ MOD \in UInt64 /\ Val(MOD) = Modulus
  BY ModulusIs, Words
<1>2. AtLeast(n, MOD) <=> Modulus <= Val(n)
  BY <1>1, AtLeastIs
<1> HIDE DEF Modulus
<1> QED
  BY <1>1, <1>2, SMT DEF Below

\* Mod(n, MOD) is below MOD, whatever the word n.
LEMMA ReducedIs ==
  ASSUME NEW n \in UInt64
  PROVE  Below(Mod(n, MOD)) /\ Val(Mod(n, MOD)) = Val(n) % Modulus
BY ModulusIs, ModIs DEF Below

\* Numbers an int holds are words.
LEMMA IntMaxIs == INT_MAX \in Nat /\ INT_MAX < B * B /\ B * B \in Nat /\ 17835 <= INT_MAX
BY SMT DEF INT_MAX, B

LEMMA IntIs ==
  ASSUME NEW k \in 0 .. INT_MAX
  PROVE  Small(k) \in UInt64 /\ Val(Small(k)) = k
<1>1. k \in Nat /\ k <= INT_MAX
  BY IntMaxIs, SMT
<1>2. k < B * B
  BY <1>1, IntMaxIs, SMT
<1> QED
  BY <1>1, <1>2, SmallIs

-----------------------------------------------------------------------------
\* The locals of a search.

\* c*K reduced by parts.
LEMMA ScaledIs ==
  ASSUME NEW c \in UInt64, NEW K \in 0 .. INT_MAX
  PROVE  Parts(c, K) \in UInt64 /\ Below(Scaled(c, K))
<1> DEFINE z == 17835
           x == K % z
           y == K \div z
<1>1. x \in 0 .. INT_MAX /\ y \in 0 .. INT_MAX /\ z \in 0 .. INT_MAX
  <2>1. z \in Nat \ {0} /\ INT_MAX \in Nat /\ z <= INT_MAX
    BY IntMaxIs, SMT
  <2>2. K \in Int /\ 0 <= K /\ K <= INT_MAX
    BY <2>1, SMT
  <2> HIDE DEF z
  <2>3. K = z * y + x /\ y \in Int /\ x \in 0 .. z - 1
    BY <2>1, <2>2, Division
  <2> HIDE DEF x, y
  <2>4. x \in Int /\ 0 <= x /\ x < z
    BY <2>1, <2>3, SMT
  <2>5. 0 <= y /\ y <= K
    BY <2>1, <2>2, <2>3, <2>4, SMT
  <2> QED
    BY <2>1, <2>2, <2>3, <2>4, <2>5, SMT
<1>2. Small(x) \in UInt64 /\ Small(y) \in UInt64 /\ Small(z) \in UInt64
  BY <1>1, IntIs
<1>3. Parts(c, K) = Plus(Times(c, Small(x)), Times(Mod(Times(c, Small(z)), MOD), Small(y)))
  BY DEF Parts
<1> HIDE DEF x, y, z
<1>4. Times(c, Small(x)) \in UInt64 /\ Times(c, Small(z)) \in UInt64
  BY <1>2, TimesIs
<1>5. Mod(Times(c, Small(z)), MOD) \in UInt64
  BY <1>4, ReducedIs DEF Below
<1>6. Times(Mod(Times(c, Small(z)), MOD), Small(y)) \in UInt64
  BY <1>2, <1>5, TimesIs
<1>7. Parts(c, K) \in UInt64
  BY <1>3, <1>4, <1>6, PlusIs
<1> QED
  BY <1>7, ReducedIs DEF Scaled

\* What the prologue leaves.
Locals(p) ==
  /\ p.STEP \in UInt64 /\ Below(p.n0)
  /\ Below(p.S31) /\ Below(p.S37) /\ Below(p.S41)
  /\ Below(p.S43) /\ Below(p.S47) /\ Below(p.S53) /\ Below(p.S59)

LEMMA PrologueIs ==
  ASSUME NEW u \in CPU \cup Kernel, NEW K \in 0 .. INT_MAX
  PROVE  Locals(Prologue(u, K))
<1> DEFINE p == Prologue_sse2(K)
<1>1. Prologue(u, K) = p
  BY SMT DEF Prologue, Of, CPU, Kernel, Cuda, OpenCL, Prologue_sse2, Prologue_sse41, Prologue_avx,
     Prologue_avx2, Prologue_avx512, Prologue_cuda, Prologue_opencl
<1>2. /\ p.STEP = Times(Small(K), PRIM23) /\ p.n0 = Mod(Plus(Parts(N0, K), N30), MOD)
      /\ p.S31 = Scaled(PRES2, K) /\ p.S37 = Scaled(PRES3, K) /\ p.S41 = Scaled(PRES4, K)
      /\ p.S43 = Scaled(PRES5, K) /\ p.S47 = Scaled(PRES6, K) /\ p.S53 = Scaled(PRES7, K)
      /\ p.S59 = Scaled(PRES8, K)
  BY DEF Prologue_sse2
<1> HIDE DEF p
<1>3. Times(Small(K), PRIM23) \in UInt64
  BY ConstantsAre, IntIs, TimesIs
<1>4. Below(Mod(Plus(Parts(N0, K), N30), MOD))
  <2>1. Parts(N0, K) \in UInt64 /\ N30 \in UInt64
    BY ConstantsAre, ScaledIs
  <2>2. Plus(Parts(N0, K), N30) \in UInt64
    BY <2>1, PlusIs
  <2> QED
    BY <2>2, ReducedIs
<1>5. /\ Below(Scaled(PRES2, K)) /\ Below(Scaled(PRES3, K)) /\ Below(Scaled(PRES4, K))
      /\ Below(Scaled(PRES5, K)) /\ Below(Scaled(PRES6, K)) /\ Below(Scaled(PRES7, K))
      /\ Below(Scaled(PRES8, K))
  BY ConstantsAre, ScaledIs
<1> QED
  BY <1>1, <1>2, <1>3, <1>4, <1>5 DEF Locals

\* An entry of the table.
LEMMA N43Is ==
  ASSUME NEW u \in CPU \cup Kernel, NEW p, Locals(p), NEW e \in Counters
  PROVE  Below(N43(u, p, e))
<1>1. N43(u, p, e) = n43_h_sse2(p, e)
  BY SMT DEF N43, Of, CPU, Kernel, Cuda, OpenCL, n43_h_sse2, n43_h_sse41, n43_h_avx,
     n43_h_avx2, n43_h_avx512, n43_h_cuda, n43_h_opencl
<1>2. /\ e[1] \in 0 .. INT_MAX /\ e[2] \in 0 .. INT_MAX /\ e[3] \in 0 .. INT_MAX
      /\ e[4] \in 0 .. INT_MAX /\ e[5] \in 0 .. INT_MAX
  <2>1. /\ e[1] \in 0 .. 6 /\ e[2] \in 0 .. 12 /\ e[3] \in 0 .. 16 /\ e[4] \in 0 .. 1
        /\ e[5] \in 0 .. 3
    BY DEF Counters
  <2>2. INT_MAX \in Nat /\ 16 <= INT_MAX
    BY SMT DEF INT_MAX
  <2> QED
    BY <2>1, <2>2, SMT
<1> DEFINE Term(k, S) == Times(Small(k), S)
           a == Plus(Plus(p.n0, Term(e[4], S3)), Term(e[5], S5))
           b == Plus(Plus(Term(e[1], p.S31), Term(e[2], p.S37)), Term(e[3], p.S41))
<1>3. n43_h_sse2(p, e) = Mod(Plus(a, b), MOD)
  BY DEF n43_h_sse2
<1>4. ASSUME NEW k \in 0 .. INT_MAX, NEW S \in UInt64
      PROVE  Term(k, S) \in UInt64
  BY IntIs, TimesIs
<1> HIDE DEF Term
<1>5. /\ p.n0 \in UInt64 /\ S3 \in UInt64 /\ S5 \in UInt64
      /\ p.S31 \in UInt64 /\ p.S37 \in UInt64 /\ p.S41 \in UInt64
  BY ConstantsAre DEF Locals, Below
<1>6. a \in UInt64
  BY <1>2, <1>4, <1>5, PlusIs
<1>7. b \in UInt64
  BY <1>2, <1>4, <1>5, PlusIs
<1> HIDE DEF a, b
<1> QED
  BY <1>1, <1>3, <1>6, <1>7, PlusIs, ReducedIs

\* t steps at once.
LEMMA AfterIs ==
  ASSUME NEW n, Below(n), NEW S, Below(S), NEW t \in 0 .. INT_MAX
  PROVE  Below(After(n, S, t))
<1>1. Small(t) \in UInt64 /\ n \in UInt64 /\ S \in UInt64
  BY IntIs DEF Below
<1>2. Plus(n, Times(Small(t), S)) \in UInt64
  BY <1>1, TimesIs, PlusIs
<1> QED
  BY <1>2, ReducedIs DEF After

\* One step is the step of the numbers.
LEMMA AdvanceIs ==
  ASSUME NEW n, Below(n), NEW S, Below(S)
  PROVE  /\ Below(Advance(n, S))
         /\ Val(Advance(n, S)) = Stepped(Val(n), Val(S), Modulus)
         /\ AtLeast(Plus(n, S), MOD) <=> Val(n) + Val(S) >= Modulus
<1> DEFINE m == Plus(n, S)
           x == Val(n)
           y == Val(S)
<1>1. n \in UInt64 /\ S \in UInt64 /\ x \in Nat /\ y \in Nat /\ x < Modulus /\ y < Modulus
  BY Words DEF Below
<1>2. MOD \in UInt64 /\ Val(MOD) = Modulus /\ Modulus \in Nat /\ 2 * Modulus < W /\ W \in Nat
  BY ModulusIs, Sizes
<1> HIDE DEF Modulus, x, y
<1>3. x + y < W
  BY <1>1, <1>2, SMT
<1>4. m \in UInt64 /\ Val(m) = x + y
  BY <1>1, <1>3, PlusExact DEF x, y
<1> HIDE DEF m
<1>5. AtLeast(m, MOD) <=> x + y >= Modulus
  <2>1. AtLeast(m, MOD) <=> Modulus <= x + y
    BY <1>2, <1>4, AtLeastIs
  <2> QED
    BY <1>1, <1>2, <2>1, SMT
<1>6. Advance(n, S) = IF AtLeast(m, MOD) THEN Minus(m, MOD) ELSE m
  BY DEF Advance, m
<1>7. CASE x + y >= Modulus
  <2>1. Val(MOD) <= Val(m)
    BY <1>1, <1>2, <1>4, <1>7, SMT
  <2>2. Minus(m, MOD) \in UInt64 /\ Val(Minus(m, MOD)) = Val(m) - Val(MOD)
    BY <1>2, <1>4, <2>1, MinusExact
  <2>5. Val(m) - Val(MOD) = x + y - Modulus
    BY <1>1, <1>2, <1>4, SMT
  <2>6. Val(Minus(m, MOD)) = x + y - Modulus
    BY <2>2, <2>5
  <2>3. Advance(n, S) = Minus(m, MOD) /\ Stepped(x, y, Modulus) = x + y - Modulus
    BY <1>5, <1>6, <1>7 DEF Stepped
  <2>4. x + y - Modulus < Modulus
    BY <1>1, <1>2, SMT
  <2>7. Below(Minus(m, MOD))
    BY <2>2, <2>4, <2>6 DEF Below
  <2> QED
    BY <1>5, <1>7, <2>3, <2>6, <2>7 DEF x, y, m
<1>8. CASE ~(x + y >= Modulus)
  <2>1. Advance(n, S) = m /\ Stepped(x, y, Modulus) = x + y
    BY <1>5, <1>6, <1>8 DEF Stepped
  <2>2. x + y < Modulus
    BY <1>1, <1>2, <1>8, SMT
  <2>3. Below(m)
    BY <1>4, <2>2 DEF Below
  <2> QED
    BY <1>4, <1>5, <1>8, <2>1, <2>3 DEF x, y, m
<1> QED
  BY <1>7, <1>8

-----------------------------------------------------------------------------
\* The primes of the tables.

\* The list of the kernels has every prime from 61 on.
LEMMA PrimesListed ==
  ASSUME NEW p \in PrimesIn(61, 541)
  PROVE  \E i \in 1 .. 83 : g_primes[i] = p
<1>1. p \in 61 .. 541 /\ IsPrime(p)
  BY SMT DEF PrimesIn, Primes
<1>2. ASSUME NEW d \in {2, 3, 5, 7, 11, 13, 17, 19, 23}, d * d <= p
      PROVE  p % d # 0
  <2>1. d \in 2 .. p - 1
    BY <1>1, SMT
  <2> QED
    BY <1>1, <1>2, <2>1 DEF IsPrime
<1>3. p % 2 # 0 /\ p % 3 # 0 /\ p % 5 # 0 /\ p % 7 # 0
  BY <1>1, <1>2, SMT
<1>4. /\ 121 <= p => p % 11 # 0
      /\ 169 <= p => p % 13 # 0
      /\ 289 <= p => p % 17 # 0
      /\ 361 <= p => p % 19 # 0
      /\ 529 <= p => p % 23 # 0
  BY <1>1, <1>2, SMT
<1> QED
  BY <1>1, <1>3, <1>4, SMTT(60) DEF g_primes

\* What is left is prime.
LEMMA PrimeIs ==
  ASSUME NEW p \in 24 .. 541, p % 2 # 0, p % 3 # 0, p % 5 # 0, p % 7 # 0, p % 11 # 0, p % 13 # 0,
         p % 17 # 0, p % 19 # 0, p % 23 # 0
  PROVE  p \in Primes
<1>1. ASSUME NEW d \in 2 .. p - 1, d * d <= p
      PROVE  p % d # 0
  <2>1. d <= 23
    <3>1. CASE d >= 24
      <4>1. d * d >= 24 * 24
        BY <3>1, SMT
      <4> QED
        BY <1>1, <4>1, SMT
    <3> QED
      BY <3>1, SMT
  <2>2. d \in 2 .. 23
    BY <2>1, SMT
  <2> QED
    BY <2>2, SMTT(60)
<1> QED
  BY <1>1, SMT DEF Primes, IsPrime

\* So the primes of the list are.
LEMMA ListedPrime ==
  ASSUME NEW i \in 1 .. 83
  PROVE  g_primes[i] \in PrimesIn(61, 541)
<1> DEFINE p == g_primes[i]
<1>1. p \in 61 .. 541
  BY SMTT(60) DEF g_primes
<1>2. /\ p % 2 # 0 /\ p % 3 # 0 /\ p % 5 # 0 /\ p % 7 # 0 /\ p % 11 # 0 /\ p % 13 # 0
      /\ p % 17 # 0 /\ p % 19 # 0 /\ p % 23 # 0
  BY SMTT(60) DEF g_primes
<1> HIDE DEF p
<1>3. p \in 24 .. 541
  BY <1>1, SMT
<1>4. p \in Primes
  BY <1>2, <1>3, PrimeIs
<1> QED
  BY <1>1, <1>4 DEF PrimesIn, p

\* The first forty-two are those of the vector tables, the first sixteen the lanes'.
LEMMA SmallListed ==
  ASSUME NEW p \in PrimesIn(61, 277)
  PROVE  \E i \in 1 .. 42 : INVs[i][1] = p
<1>1. p \in PrimesIn(61, 541) /\ p <= 277 /\ p \in Int
  BY SMT DEF PrimesIn, Primes
<1>2. PICK i \in 1 .. 83 : g_primes[i] = p
  BY <1>1, PrimesListed
<1>3. \A j \in 43 .. 83 : g_primes[j] > 277
  BY SMTT(60) DEF g_primes
<1>4. i \in 1 .. 42
  BY <1>1, <1>2, <1>3, SMT
<1>5. \A j \in 1 .. 42 : INVs[j][1] = g_primes[j]
  BY SMTT(60) DEF INVs, g_primes
<1> QED
  BY <1>2, <1>4, <1>5

LEMMA LanesAre ==
  ASSUME NEW l \in 1 .. 16
  PROVE  Lanes[l] \in PrimesIn(61, 277) /\ Lanes[l] \in Nat \ {0} /\ Lanes[l] <= 137
<1>1. Lanes[l] = g_primes[l] /\ Lanes[l] \in 61 .. 137
  BY SMT DEF Lanes, g_primes
<1>2. l \in 1 .. 83
  OBVIOUS
<1>3. Lanes[l] \in PrimesIn(61, 541)
  BY <1>1, <1>2, ListedPrime
<1> QED
  BY <1>1, <1>3, SMT DEF PrimesIn

-----------------------------------------------------------------------------
\* The remainders by multiplication.

\* The quotient of a number between two multiples.
LEMMA QuotientIs ==
  ASSUME NEW d \in Nat \ {0}, NEW t \in Int, NEW z \in Int, d * t <= z, z < d * (t + 1)
  PROVE  z \div d = t
<1> DEFINE u == z \div d
           r == z % d
<1>1. z = d * u + r /\ u \in Int /\ r \in Int /\ 0 <= r /\ r < d
  <2>1. z = d * u + r /\ u \in Int /\ r \in 0 .. d - 1
    BY Division
  <2> HIDE DEF u, r
  <2> QED
    BY <2>1, SMT
<1> SUFFICES u = t
  OBVIOUS
<1> HIDE DEF u, r
<1>2. d * u < d * (t + 1) /\ d * t < d * (u + 1)
  BY <1>1, SMT
<1>3. u < t + 1 /\ t < u + 1
  <2>1. u + 1 \in Int /\ t + 1 \in Int
    BY <1>1, SMT
  <2> QED
    BY <1>1, <1>2, <2>1, Strict
<1> QED
  BY <1>1, <1>3, SMT

\* The two halves of REM as numbers: x shifted right, and the bits of y that are left.
Byte == 256
LEMMA ByteIs ==
  Byte \in Nat \ {0} /\ B = Byte * Top /\ Top = Byte * Byte /\ Top < B /\ Byte < B
BY SMT DEF Byte, B, Top

LEMMA ShiftIs ==
  ASSUME NEW x \in UInt64, NEW a \in Nat \ {0}, NEW b \in Nat \ {0}, a * b = B
  PROVE  LET h == x[1] * b + x[2] \div a
         IN  h \in Nat /\ h * (a * B) <= Val(x) /\ Val(x) < (h + 1) * (a * B)
<1> DEFINE x1 == x[1]
           x2 == x[2]
           x3 == x[3]
           k == x2 \div a
           t == x2 % a
           h == x1 * b + k
<1>1. /\ x1 \in Int /\ 0 <= x1 /\ x2 \in Int /\ 0 <= x2 /\ x3 \in Int /\ 0 <= x3 /\ x3 < B
      /\ Val(x) = (x1 * B + x2) * B + x3
  BY Digits DEF Val
<1>2. x2 = a * k + t /\ k \in Int /\ t \in Int /\ 0 <= t /\ t < a
  <2>1. x2 = a * k + t /\ k \in Int /\ t \in 0 .. a - 1
    BY <1>1, Division
  <2> HIDE DEF k, t
  <2> QED
    BY <2>1, SMT
<1> SUFFICES h \in Nat /\ h * (a * B) <= Val(x) /\ Val(x) < (h + 1) * (a * B)
  OBVIOUS
<1> DEFINE V == Val(x)
<1> HIDE DEF x1, x2, x3, k, t
<1>3. 0 <= k
  <2>1. a * (-1) < a * k
    BY <1>1, <1>2, SMT
  <2>2. -1 < k
    BY <1>2, <2>1, Strict, SMT
  <2> QED
    BY <1>2, <2>2, SMT
<1>4. h \in Nat
  <2>1. x1 \in Nat /\ x1 * b \in Nat
    BY <1>1, ProductType, SMT
  <2> QED
    BY <1>2, <1>3, <2>1, SMT
<1> DEFINE c == B
<1>5. c \in Nat \ {0} /\ a * b = c
  BY Sizes
<1>6. V = (x1 * c + x2) * c + x3 /\ x3 < c
  BY <1>1
<1> HIDE DEF c, V
<1>7. V = h * (a * c) + (t * c + x3)
  <2>1. (x1 * (a * b) + (a * k + t)) * c + x3 = (x1 * b + k) * (a * c) + (t * c + x3)
    BY <1>1, <1>2, <1>5, SMT
  <2> QED
    BY <1>2, <1>5, <1>6, <2>1 DEF h
<1>8. 0 <= t * c + x3 /\ t * c + x3 < a * c /\ t * c + x3 \in Int
  <2>1. t * c >= 0 /\ (t + 1) * c <= a * c /\ (t + 1) * c = t * c + c /\ t * c \in Int /\ a * c \in Int
    <3>1. t \in Nat /\ t + 1 \in Nat /\ t + 1 <= a
      BY <1>2, SMT
    <3>2. (t + 1) * c <= a * c /\ t * c \in Nat /\ a * c \in Nat
      BY <1>5, <3>1, Monotone, ProductType
    <3>3. (t + 1) * c = t * c + c
      BY <1>5, <3>1, SMT
    <3> QED
      BY <3>2, <3>3, SMT
  <2> QED
    BY <1>1, <1>5, <1>6, <2>1, SMT
<1> HIDE DEF h
<1>9. (h + 1) * (a * c) = h * (a * c) + a * c /\ h * (a * c) \in Int /\ a * c \in Int
  BY <1>4, <1>5, SMT
<1>10. h * (a * c) <= V /\ V < (h + 1) * (a * c)
  BY <1>7, <1>8, <1>9, SMT
<1> QED
  BY <1>4, <1>10 DEF V, c

LEMMA TopBitsAre ==
  ASSUME NEW y \in UInt64, NEW b \in Nat \ {0}, NEW r \in Nat, Val(y) < Byte * B,
         r * (Top * b) <= Val(y), Val(y) < (r + 1) * (Top * b)
  PROVE  ((y[2] % 256) * 256 + y[3] \div 65536) \div b = r
<1> DEFINE y1 == y[1]
           y2 == y[2]
           y3 == y[3]
           k == y3 \div Top
           t == y3 % Top
           z == y2 * Byte + k
           V == Val(y)
<1>1. /\ y1 \in Nat /\ y2 \in Nat /\ y3 \in Nat /\ y2 < B /\ y3 < B
      /\ V = (y1 * B + y2) * B + y3
  <2>1. /\ y1 \in Int /\ 0 <= y1 /\ y2 \in Int /\ 0 <= y2 /\ y2 < B
        /\ y3 \in Int /\ 0 <= y3 /\ y3 < B
    BY Digits
  <2>2. V = (y1 * B + y2) * B + y3
    BY DEF Val
  <2> HIDE DEF y1, y2, y3, V
  <2> QED
    BY <2>1, <2>2, SMT
<1>2. y3 = Top * k + t /\ k \in Int /\ t \in Int /\ 0 <= t /\ t < Top
  <2>1. y3 = Top * k + t /\ k \in Int /\ t \in 0 .. Top - 1 /\ Top \in Nat
    <3>1. y3 \in Int /\ Top \in Nat \ {0}
      BY <1>1, Sizes, SMT
    <3> QED
      BY <3>1, Division
  <2> HIDE DEF k, t
  <2> QED
    BY <2>1, SMT
<1>3. Top \in Nat \ {0} /\ Byte \in Nat \ {0} /\ B = Byte * Top /\ B \in Nat \ {0} /\ Byte < B
  BY ByteIs, Sizes
<1>4. V < Byte * B /\ r * (Top * b) <= V /\ V < (r + 1) * (Top * b) /\ V \in Nat
  BY Words
<1> DEFINE c == B
           p == Top
           w == Byte
<1> HIDE DEF y1, y2, y3, k, t, V
<1>5. /\ V = (y1 * c + y2) * c + y3 /\ V < w * c /\ c = w * p /\ y3 = p * k + t /\ t < p
      /\ r * (p * b) <= V /\ V < (r + 1) * (p * b) /\ w < c
      /\ c \in Nat \ {0} /\ w \in Nat \ {0} /\ p \in Nat \ {0}
  BY <1>1, <1>2, <1>3, <1>4
<1> HIDE DEF c, p, w
<1>6. y1 * c + y2 < w /\ y1 * c + y2 \in Nat
  <2>1. y1 * c \in Nat
    BY <1>1, <1>5, ProductType
  <2>2. y1 * c + y2 \in Nat
    BY <1>1, <2>1, SMT
  <2> DEFINE s == y1 * c + y2
  <2>3. s \in Int /\ c * s \in Int /\ c * w \in Int /\ w * c \in Int
    BY <2>2, <1>5, SMT
  <2>4. V = c * s + y3 /\ w * c = c * w
    BY <2>2, <1>5, SMT
  <2> HIDE DEF s
  <2>5. c * s < c * w
    BY <1>1, <1>5, <2>3, <2>4, SMT
  <2>6. s < w
    BY <1>5, <2>3, <2>5, Strict
  <2> QED
    BY <2>2, <2>6 DEF s
<1>7. y1 = 0
  <2>1. CASE y1 >= 1
    <3>1. 1 * c <= y1 * c
      BY <1>1, <1>5, <2>1, Monotone
    <3> QED
      BY <1>1, <1>5, <1>6, <3>1, SMT
  <2> QED
    BY <1>1, <2>1, SMT
<1>8. y2 < w /\ V = p * z + t /\ z \in Int
  <2>1. y2 < w
    BY <1>1, <1>5, <1>6, <1>7, SMT
  <2>2. V = y2 * c + y3
    BY <1>1, <1>5, <1>7, SMT
  <2>3. y2 * (w * p) + (p * k + t) = p * (y2 * w + k) + t
    BY <1>1, <1>2, <1>5, SMT
  <2>4. y2 * w + k \in Int
    BY <1>1, <1>2, <1>5, SMT
  <2> QED
    BY <1>5, <2>1, <2>2, <2>3, <2>4 DEF z, w
<1>9. y2 % 256 = y2
  <2>1. y2 < 256
    BY <1>8 DEF w, Byte
  <2> QED
    BY <1>1, <2>1, SMT
<1>10. (y2 % 256) * 256 + y3 \div 65536 = z
  <2>1. w = 256 /\ p = 65536
    BY SMT DEF w, p, Byte, Top
  <2>2. k = y3 \div p
    BY DEF k, p
  <2>3. z = y2 * w + k
    BY DEF z, w
  <2> HIDE DEF z
  <2> QED
    BY <1>9, <2>1, <2>2, <2>3, SMT
<1> HIDE DEF z
<1>11. b * r <= z /\ z < b * (r + 1)
  <2>1. p * (b * r) < p * (z + 1) /\ p * z < p * (b * (r + 1))
    <3>1. p * (z + 1) = p * z + p /\ p * (b * r) = r * (p * b) /\ p * (b * (r + 1)) = (r + 1) * (p * b)
      BY <1>5, <1>8, SMT
    <3>2. p * z \in Int /\ r * (p * b) \in Int /\ (r + 1) * (p * b) \in Int
      BY <1>5, <1>8, SMT
    <3> QED
      BY <1>2, <1>4, <1>5, <1>8, <3>1, <3>2, SMT
  <2>2. b * r \in Int /\ z + 1 \in Int /\ b * (r + 1) \in Int
    BY <1>8, SMT
  <2>3. b * r < z + 1 /\ z < b * (r + 1)
    BY <1>5, <1>8, <2>1, <2>2, Strict
  <2> QED
    BY <1>8, <2>2, <2>3, SMT
<1>12. z \div b = r
  BY <1>8, <1>11, QuotientIs
<1> QED
  BY <1>10, <1>12 DEF y2, y3

\* REM with the literal c = INV[P], which is 2^64/P cut off, gives the remainder of
\* every number below MOD: the product wraps to c*(N%P+1) less a part too small to
\* reach the bits that are kept.  a and b are 2^(8+S) and 2^(16-S).
LEMMA FastRemainder ==
  ASSUME NEW P \in Nat \ {0}, P <= 2 * Byte, NEW c \in UInt64,
         NEW e \in 1 .. P - 1, Val(c) * P + e = W, NEW N, Below(N),
         NEW a \in Nat \ {0}, NEW b \in Nat \ {0}, a * b = B, Byte * P <= a, a <= 2 * Top
  PROVE  LET x == Times(c, Plus(N, Small(1)))
             h == x[1] * b + x[2] \div a
             y == Times(Small(P), Small(h))
         IN  ((y[2] % 256) * 256 + y[3] \div 65536) \div b = Val(N) % P
<1> DEFINE n == Val(N)
           k == n \div P
           r == n % P
           C == Val(c)
           x == Times(c, Plus(N, Small(1)))
           X == C * (r + 1) - e * k
           h == x[1] * b + x[2] \div a
           y == Times(Small(P), Small(h))
           D == a * B
           E == Top * b
<1> SUFFICES ((y[2] % 256) * 256 + y[3] \div 65536) \div b = r
  OBVIOUS
<1>1. n \in Nat /\ n < B * B /\ N \in UInt64 /\ Modulus \in Nat /\ 2 * Modulus < W /\ n < Modulus
      /\ W \in Nat /\ B * B \in Nat
  BY ModulusIs, Words, Sizes, BoundIs, SMT DEF Below
<1>2. n = P * k + r /\ k \in Nat /\ r \in Nat /\ r < P
  <2>1. P \in Nat \ {0} /\ n \in Int
    BY <1>1, SMT
  <2>2. n = P * k + r /\ k \in Int /\ r \in 0 .. P - 1
    BY <2>1, Division
  <2> HIDE DEF k, r, n
  <2>3. P * (-1) < P * k
    BY <1>1, <2>1, <2>2, SMT
  <2>4. -1 < k
    BY <2>1, <2>2, <2>3, Strict, SMT
  <2> QED
    BY <2>1, <2>2, <2>4, SMT
<1>3. C \in Nat /\ C * P + e = W
  BY Words
<1>4. P \in Nat \ {0} /\ e \in Nat \ {0} /\ e < P
  BY SMT
<1>5. /\ P * k <= n /\ e * (r + 1) \in Nat /\ P * (e * k) \in Nat /\ P * D \in Nat
      /\ e * (r + 1) + P * (e * k) + P * D < W
      /\ e * (r + 1) + P * (e * k) < W
  <2> HIDE DEF n, k, r, C, x, h, y
  <2> DEFINE F == B * B
  <2> DEFINE l == 2 * Byte
             m == 2 * Top
  <2>1. /\ F \in Nat /\ n <= F /\ l \in Nat /\ m \in Nat /\ l * F + l * (m * B) + l * l < W
        /\ e <= l /\ P <= l /\ a <= m
    <3>1. F \in Nat /\ n <= F
      BY <1>1, SMT
    <3>2. l = 512 /\ m \in Nat
      BY SMT DEF Byte, Top
    <3>3. l * F + l * (m * B) + l * l < W
      <4>1. l * (m * B) = 4 * F
        <5>1. (2 * Byte) * ((2 * Top) * B) = 4 * ((Byte * Top) * B)
          BY ByteIs, Sizes, SMT
        <5> QED
          BY <5>1, ByteIs
      <4>2. l * l <= F /\ F > 0
        BY SMT DEF Byte, B
      <4>3. W = 65536 * F
        BY SMT DEF W, Top
      <4> HIDE DEF F, l
      <4> QED
        BY <3>1, <3>2, <4>1, <4>2, <4>3, SMT
    <3>4. e <= l /\ P <= l
      <4> HIDE DEF l
      <4> QED
        BY <1>4, <3>2, SMT DEF l
    <3> HIDE DEF F
    <3> QED
      BY <3>1, <3>2, <3>3, <3>4, SMT
  <2> HIDE DEF F, l, m
  <2>2. P * k <= n /\ P * k \in Nat
    <3>1. P * k \in Nat
      BY <1>2, <1>4, ProductType
    <3> QED
      BY <1>2, <3>1, SMT
  <2>3. e * (r + 1) <= l * l /\ e * (r + 1) \in Nat
    <3>1. r + 1 \in Nat /\ r + 1 <= l /\ e <= l /\ l \in Nat
      BY <1>2, <1>4, <2>1, SMT
    <3>2. e * (r + 1) <= l * (r + 1) /\ e * (r + 1) \in Nat
      BY <1>4, <3>1, Monotone, ProductType
    <3> QED
      BY <3>1, <3>2, SMT
  <2>4. P * (e * k) <= l * F /\ P * (e * k) \in Nat
    <3>1. e * (P * k) <= l * (P * k) /\ e * (P * k) \in Nat
      <4>1. e <= l /\ l \in Nat
        BY <2>1
      <4> QED
        BY <1>4, <2>2, <4>1, Monotone, ProductType
    <3>2. P * (e * k) = e * (P * k)
      BY <1>2, <1>4, SMT
    <3>3. l * (P * k) <= l * F
      BY <1>1, <2>1, <2>2, SMT
    <3> QED
      BY <2>1, <2>2, <3>1, <3>2, <3>3, SMT
  <2>5. P * D <= l * (m * B) /\ P * D \in Nat
    <3>1. B \in Nat /\ D \in Nat /\ l \in Nat /\ P <= l
      BY Sizes, ProductType, <2>1, SMT
    <3>2. D <= m * B
      BY <2>1, <3>1, Monotone
    <3> HIDE DEF D
    <3>3. P * D <= l * D /\ P * D \in Nat
      BY <1>4, <3>1, Monotone, ProductType
    <3>4. D * l <= (m * B) * l /\ m * B \in Nat
      <4>1. m * B \in Nat
        BY <2>1, <3>1, ProductType
      <4> QED
        BY <3>1, <3>2, <4>1, Monotone
    <3>5. D * l = l * D /\ (m * B) * l = l * (m * B) /\ l * D \in Int /\ l * (m * B) \in Int
      BY <2>1, <3>1, <3>4, SMT
    <3> QED
      BY <3>3, <3>4, <3>5, SMT
  <2> QED
    <3> DEFINE u == e * (r + 1)
               w == P * (e * k)
               z == P * D
    <3>1. /\ u \in Nat /\ w \in Nat /\ z \in Nat /\ u <= l * l /\ w <= l * F
          /\ z <= l * (m * B)
      BY <2>3, <2>4, <2>5
    <3> HIDE DEF u, w, z
    <3>2. u + w + z < W /\ u + w < W
      BY <2>1, <3>1, Sizes, SMT
    <3> QED
      BY <2>2, <3>1, <3>2 DEF u, w, z
<1>6. x \in UInt64 /\ Val(x) = X /\ X \in Nat
  <2>1. Plus(N, Small(1)) \in UInt64 /\ Val(Plus(N, Small(1))) = n + 1
    <3>1. 1 \in Nat /\ 1 < B * B
      BY SMT DEF B
    <3>2. Small(1) \in UInt64 /\ Val(Small(1)) = 1
      BY <3>1, SmallIs
    <3>3. n + 1 < W
      <4> HIDE DEF n
      <4> QED
        BY <1>1, SMT
    <3> QED
      BY <1>1, <3>2, <3>3, PlusExact
  <2>2. x \in UInt64 /\ Congruent(Val(x), C * (n + 1), W)
    <3>1. x \in UInt64 /\ Congruent(Val(x), Val(c) * Val(Plus(N, Small(1))), W)
      BY <2>1, TimesIs
    <3> QED
      BY <2>1, <3>1
  <2>3. C * (n + 1) \in Int /\ X \in Int /\ C * (n + 1) = X + k * W
    <3> HIDE DEF n, k, r, C, x, h, y
    <3>1. C * (n + 1) \in Int /\ X \in Int
      BY <1>1, <1>2, <1>3, <1>4, SMT
    <3>2. C * ((P * k + r) + 1) = C * (r + 1) - e * k + k * (C * P + e)
      BY <1>2, <1>3, <1>4, SMT
    <3> QED
      BY <1>2, <1>3, <3>1, <3>2
  <2>4. Congruent(C * (n + 1), X, W)
    <3>1. k \in Int
      BY <1>2, SMT
    <3> QED
      BY <2>3, <3>1 DEF Congruent
  <2>5. X \in Nat /\ X < W
    <3> HIDE DEF n, k, r, C, x, h, y
    <3>1. P * (e * k) < P * C
      BY <1>3, <1>4, <1>5, SMT
    <3>2. e * k \in Nat /\ C \in Int
      BY <1>2, <1>3, <1>4, ProductType
    <3>3. e * k < C
      <4>1. e * k \in Int
        BY <3>2, SMT
      <4> QED
        BY <1>4, <3>1, <3>2, <4>1, Strict
    <3>4. 1 * C <= (r + 1) * C /\ (r + 1) * C <= P * C
      <4>1. r + 1 \in Nat /\ 1 <= r + 1 /\ r + 1 <= P /\ 1 \in Nat /\ P \in Nat
        BY <1>2, <1>4, SMT
      <4> QED
        BY <1>3, <4>1, Monotone
    <3> DEFINE s == e * k
               t == (r + 1) * C
    <3>5. X = t - s /\ t \in Int /\ P * C = C * P /\ C * P \in Int /\ 1 * C = C
      <4>1. C * (r + 1) = (r + 1) * C /\ (r + 1) * C \in Int /\ P * C = C * P /\ C * P \in Int /\ 1 * C = C
        BY <1>2, <1>3, <1>4, SMT
      <4> QED
        BY <4>1
    <3>6. s \in Nat /\ s < C /\ C <= t /\ t <= C * P
      BY <3>2, <3>3, <3>4, <3>5
    <3> HIDE DEF s, t, X
    <3> QED
      BY <1>1, <1>3, <1>4, <3>5, <3>6, SMT
  <2> HIDE DEF x, X, n, C
  <2>6. Congruent(Val(x), X, W)
    <3>1. Val(x) \in Int /\ W \in Int /\ X \in Int
      BY <1>1, <2>2, <2>3, Words, SMT
    <3> QED
      BY <2>2, <2>3, <2>4, <3>1, CongruentTrans
  <2> QED
    BY <2>2, <2>5, <2>6, Exact
<1>7. h \in Nat /\ h * D <= X /\ X < (h + 1) * D
  BY <1>6, ShiftIs
<1>8. D \in Nat \ {0} /\ E \in Nat \ {0} /\ D * E = W /\ P * E <= Byte * B /\ E <= B * B
  <2>1. /\ Top \in Nat \ {0} /\ B \in Nat \ {0} /\ Byte \in Nat \ {0} /\ B = Byte * Top
        /\ Top < B /\ Top = Byte * Byte
    BY Sizes, ByteIs
  <2> DEFINE t == Top
             f == B
             w == Byte
  <2>2. /\ t \in Nat \ {0} /\ f \in Nat \ {0} /\ w \in Nat \ {0} /\ f = w * t /\ t = w * w /\ t < f /\ a * b = f
        /\ D = a * f /\ E = t * b /\ W = t * (f * f) /\ w * P <= a
    BY <2>1 DEF W
  <2> HIDE DEF t, f, w, D, E
  <2>3. D \in Nat \ {0} /\ E \in Nat \ {0}
    BY <2>2, SMT
  <2>4. D * E = W
    <3>1. (a * f) * (t * b) = t * ((a * b) * f)
      BY <2>2, SMT
    <3> QED
      BY <2>2, <3>1
  <2>5. P * E <= w * f
    <3>1. (w * P) * E <= a * E
      <4>1. w * P \in Nat /\ a \in Nat /\ E \in Nat
        BY <1>4, <2>2, <2>3, ProductType, SMT
      <4> QED
        BY <2>2, <4>1, Monotone
    <3>2. a * E = t * f
      <4>1. a * (t * b) = t * (a * b)
        BY <2>2, SMT
      <4> QED
        BY <2>2, <4>1
    <3>3. t * f = w * (w * f)
      <4>1. (w * w) * f = w * (w * f)
        BY <2>2, SMT
      <4> QED
        BY <2>2, <4>1
    <3>4. (w * P) * E = w * (P * E) /\ P * E \in Int /\ w * f \in Int
      BY <1>4, <2>2, <2>3, SMT
    <3> DEFINE u == P * E
               z == w * f
    <3>5. w * u <= w * z /\ u \in Int /\ z \in Int
      BY <3>1, <3>2, <3>3, <3>4
    <3> HIDE DEF u, z
    <3>6. u <= z
      <4>1. CASE z < u
        <5>1. w * (z + 1) <= w * u
          BY <2>2, <3>5, <4>1, SMT
        <5>2. w * (z + 1) = w * z + w /\ w * z \in Int /\ w * u \in Int
          BY <2>2, <3>5, SMT
        <5> QED
          BY <2>2, <3>5, <5>1, <5>2, SMT
      <4> QED
        BY <3>5, <4>1, SMT
    <3> QED
      BY <3>6 DEF u, z
  <2>6. E <= f * f
    <3>1. t \in Nat /\ b \in Nat /\ f \in Nat /\ a \in Nat /\ t <= f /\ 1 <= a /\ 1 \in Nat
      BY <2>2, SMT
    <3>2. t * b <= f * b /\ 1 * b <= a * b
      BY <3>1, Monotone
    <3>3. b <= f
      BY <2>2, <3>1, <3>2, SMT
    <3>4. b * f <= f * f
      BY <3>1, <3>3, Monotone
    <3>5. f * b = b * f /\ f * b \in Int /\ t * b \in Int /\ f * f \in Int
      BY <3>1, SMT
    <3> QED
      BY <2>2, <3>2, <3>4, <3>5, SMT
  <2> QED
    BY <2>3, <2>4, <2>5, <2>6 DEF w, f
<1> DEFINE Y == P * h
<1>9. Y \in Nat /\ h < E
  <2> HIDE DEF n, k, r, C, x, h, y, D, E, X
  <2>1. Y \in Nat
    BY <1>4, <1>7, ProductType
  <2>2. D * h < D * E
    <3>1. X < W
      BY <1>3, <1>6, Words
    <3>2. h * D = D * h /\ h * D \in Int
      BY <1>7, <1>8, SMT
    <3> QED
      BY <1>1, <1>6, <1>7, <1>8, <3>1, <3>2, SMT
  <2>3. h \in Int /\ E \in Int
    BY <1>7, <1>8, SMT
  <2> QED
    BY <1>8, <2>1, <2>2, <2>3, Strict
<1>10. r * E < Y /\ Y < (r + 1) * E
  <2> HIDE DEF n, k, r, C, x, h, y, D, E
  <2>1. P * X = (r + 1) * W - e * (r + 1) - P * (e * k) /\ P * X \in Int
    <3>1. P * (C * (r + 1) - e * k) = (r + 1) * (C * P + e) - e * (r + 1) - P * (e * k)
      BY <1>2, <1>3, <1>4, SMT
    <3>2. P * X \in Int
      BY <1>4, <1>6, SMT
    <3> QED
      BY <1>3, <3>1, <3>2
  <2> HIDE DEF X
  <2> DEFINE u == e * (r + 1)
             z == P * (e * k)
             m == P * D
             R == (r + 1) * W
             T == r * W
  <2>2. /\ u \in Nat /\ z \in Nat /\ m \in Nat /\ u + z + m < W /\ P * X = R - u - z
        /\ R = T + W /\ T \in Int /\ R \in Int
    <3>1. (r + 1) * W = r * W + W /\ r * W \in Int /\ (r + 1) * W \in Int
      BY <1>1, <1>2, SMT
    <3> QED
      BY <1>5, <2>1, <3>1
  <2> HIDE DEF u, z, m, R, T, Y
  <2>3. P * (h * D) <= P * X /\ P * X < P * ((h + 1) * D)
    BY <1>4, <1>6, <1>7, <1>8, SMT
  <2>4. P * (h * D) = D * Y /\ P * ((h + 1) * D) = D * Y + m /\ D * Y \in Int
    <3>1. P * (h * D) = D * (P * h) /\ P * ((h + 1) * D) = D * (P * h) + P * D
      BY <1>4, <1>7, <1>8, SMT
    <3>2. D * Y \in Int
      BY <1>8, <1>9, SMT
    <3> QED
      BY <3>1, <3>2 DEF Y, m
  <2>5. D * Y <= P * X /\ P * X < D * Y + m
    BY <2>3, <2>4
  <2>6. u >= 1
    <3>1. e * (r + 1) >= 1
      BY <1>2, <1>4, SMT
    <3> QED
      BY <3>1 DEF u
  <2>7. D * Y < R /\ T < D * Y
    BY <1>1, <2>1, <2>2, <2>4, <2>5, <2>6, SMT
  <2>8. T = D * (r * E) /\ R = D * ((r + 1) * E)
    <3>1. r * (D * E) = D * (r * E) /\ (r + 1) * (D * E) = D * ((r + 1) * E)
      BY <1>2, <1>8, SMT
    <3> QED
      BY <1>8, <3>1 DEF T, R
  <2>9. r * E \in Int /\ (r + 1) * E \in Int /\ Y \in Int
    BY <1>2, <1>8, <1>9, SMT
  <2> QED
    BY <1>8, <2>7, <2>8, <2>9, Strict
<1>11. y \in UInt64 /\ Val(y) = Y /\ Y < Byte * B
  <2>1. Y < Byte * B
    <3> HIDE DEF n, k, r, C, x, h, y, D, E, X, Y
    <3>1. r + 1 \in Nat /\ P \in Nat /\ E \in Nat /\ r + 1 <= P
      BY <1>2, <1>4, <1>8, SMT
    <3>2. (r + 1) * E <= P * E
      BY <3>1, Monotone
    <3>3. (r + 1) * E \in Nat /\ P * E \in Nat /\ Byte * B \in Nat
      BY <3>1, ProductType, Sizes, ByteIs, SMT
    <3> QED
      BY <1>8, <1>9, <1>10, <3>2, <3>3, SMT
  <2>2. Y < W
    <3>1. Byte * B <= B * B /\ Byte * B \in Nat
      <4>1. Byte \in Nat /\ B \in Nat /\ Byte <= B
        BY Sizes, ByteIs, SMT
      <4> QED
        BY <4>1, Monotone, ProductType
    <3> HIDE DEF Y
    <3> QED
      BY <1>1, <1>9, <2>1, <3>1, BoundIs, SMT
  <2>3. Small(h) \in UInt64 /\ Val(Small(h)) = h
    <3>1. h < B * B
      <4> HIDE DEF h, E
      <4> QED
        BY <1>1, <1>7, <1>8, <1>9, SMT
    <3> QED
      BY <1>7, <3>1, SmallIs
  <2>4. Small(P) \in UInt64 /\ Val(Small(P)) = P
    <3>1. 2 * Byte < B * B /\ 2 * Byte \in Nat
      BY SMT DEF B, Byte
    <3>2. P < B * B /\ P \in Nat
      BY <1>1, <3>1, SMT
    <3> QED
      BY <3>2, SmallIs
  <2> HIDE DEF h
  <2> QED
    BY <2>1, <2>2, <2>3, <2>4, TimesExact
<1> HIDE DEF n, k, C, x, h, X, D, Y
<1>12. r * E <= Val(y) /\ Val(y) < (r + 1) * E
  <2> HIDE DEF y, r, E
  <2>1. r * E \in Int
    BY <1>2, <1>8, SMT
  <2> QED
    BY <1>9, <1>10, <1>11, <2>1, SMT
<1> HIDE DEF y, r
<1> QED
  BY <1>2, <1>11, <1>12, TopBitsAre

\* The literals are words, and each is 2^64/P cut off.
LEMMA INVsAre ==
  \A i \in 1 .. 42 : /\ INVs[i] \in Nat \X Nat \X Nat \X Nat
                     /\ INVs[i][2] < Million /\ INVs[i][3] < Million /\ INVs[i][4] < Million
<1>1. \A i \in 1 .. 42 : INVs[i] \in Nat \X Nat \X Nat \X Nat
  BY SMTT(60) DEF INVs
<1>2. \A i \in 1 .. 42 : INVs[i][2] < Million /\ INVs[i][3] < Million /\ INVs[i][4] < Million
  BY SMTT(60) DEF INVs, Million
<1> QED
  BY <1>1, <1>2
\* The size of a word in groups of six digits.
LEMMA SizeIs == W = (18446744 * Million + 73709) * Million + 551616
<1> DEFINE c == Million
           b == B * B
<1>1. /\ b = 281474976 * c + 710656 /\ Top * 281474976 = 18446744 * c + 27136
      /\ Top * 710656 = 46573 * c + 551616 /\ c \in Int /\ Top \in Int
  BY SMT DEF Million, B, Top
<1>2. W = Top * b
  BY DEF W
<1> HIDE DEF b, c
<1>3. Top * (281474976 * c) = (Top * 281474976) * c
  BY <1>1, SMT
<1>4. W = (18446744 * c + 27136) * c + (46573 * c + 551616)
  <2>1. Top * (281474976 * c + 710656) = Top * (281474976 * c) + Top * 710656
    BY <1>1, SMT
  <2> QED
    BY <1>1, <1>2, <1>3, <2>1
<1>5. W = (18446744 * c + 73709) * c + 551616
  BY <1>1, <1>4, SMT
<1> QED
  BY <1>5 DEF c

\* What 2^64 has over P times the literal, group by group, is positive and below P.
CutOff(s) ==
  LET e == ((18446744 - s[1] * s[2]) * Million + (73709 - s[1] * s[3])) * Million
             + (551616 - s[1] * s[4])
  IN  0 < e /\ e < s[1]
LEMMA INVsCutOff == \A i \in 1 .. 42 : CutOff(INVs[i])
<1>1. CutOff(INVs[1]) /\ CutOff(INVs[2]) /\ CutOff(INVs[3])
  BY SMTT(30) DEF CutOff, INVs, Million
<1>2. CutOff(INVs[4]) /\ CutOff(INVs[5]) /\ CutOff(INVs[6])
  BY SMTT(30) DEF CutOff, INVs, Million
<1>3. CutOff(INVs[7]) /\ CutOff(INVs[8]) /\ CutOff(INVs[9])
  BY SMTT(30) DEF CutOff, INVs, Million
<1>4. CutOff(INVs[10]) /\ CutOff(INVs[11]) /\ CutOff(INVs[12])
  BY SMTT(30) DEF CutOff, INVs, Million
<1>5. CutOff(INVs[13]) /\ CutOff(INVs[14]) /\ CutOff(INVs[15])
  BY SMTT(30) DEF CutOff, INVs, Million
<1>6. CutOff(INVs[16]) /\ CutOff(INVs[17]) /\ CutOff(INVs[18])
  BY SMTT(30) DEF CutOff, INVs, Million
<1>7. CutOff(INVs[19]) /\ CutOff(INVs[20]) /\ CutOff(INVs[21])
  BY SMTT(30) DEF CutOff, INVs, Million
<1>8. CutOff(INVs[22]) /\ CutOff(INVs[23]) /\ CutOff(INVs[24])
  BY SMTT(30) DEF CutOff, INVs, Million
<1>9. CutOff(INVs[25]) /\ CutOff(INVs[26]) /\ CutOff(INVs[27])
  BY SMTT(30) DEF CutOff, INVs, Million
<1>10. CutOff(INVs[28]) /\ CutOff(INVs[29]) /\ CutOff(INVs[30])
  BY SMTT(30) DEF CutOff, INVs, Million
<1>11. CutOff(INVs[31]) /\ CutOff(INVs[32]) /\ CutOff(INVs[33])
  BY SMTT(30) DEF CutOff, INVs, Million
<1>12. CutOff(INVs[34]) /\ CutOff(INVs[35]) /\ CutOff(INVs[36])
  BY SMTT(30) DEF CutOff, INVs, Million
<1>13. CutOff(INVs[37]) /\ CutOff(INVs[38]) /\ CutOff(INVs[39])
  BY SMTT(30) DEF CutOff, INVs, Million
<1>14. CutOff(INVs[40]) /\ CutOff(INVs[41]) /\ CutOff(INVs[42])
  BY SMTT(30) DEF CutOff, INVs, Million
<1> QED
  BY <1>1, <1>2, <1>3, <1>4, <1>5, <1>6, <1>7, <1>8, <1>9, <1>10,
     <1>11, <1>12, <1>13, <1>14, SMT

\* So are the entries of INV.
LEMMA InverseIs ==
  ASSUME NEW p \in PrimesIn(61, 277)
  PROVE  /\ INV[p] \in UInt64 /\ p \in Nat \ {0}
         /\ \E e \in 1 .. p - 1 : Val(INV[p]) * p + e = W
<1> DEFINE j == CHOOSE i \in 1 .. Len(INVs) : INVs[i][1] = p
           s == INVs[j]
           t2 == s[2]
           t3 == s[3]
           t4 == s[4]
<1>1. Len(INVs) = 42
  BY SMT DEF INVs
<1>2. j \in 1 .. 42 /\ s[1] = p
  BY <1>1, SmallListed, Zenon
<1>3. /\ t2 \in Nat /\ t3 \in Nat /\ t4 \in Nat
      /\ t2 < Million /\ t3 < Million /\ t4 < Million /\ Tail(s) = <<t2, t3, t4>>
  <2>1. s \in Nat \X Nat \X Nat \X Nat /\ t2 < Million /\ t3 < Million /\ t4 < Million
    BY <1>2, INVsAre
  <2> HIDE DEF s
  <2>2. t2 \in Nat /\ t3 \in Nat /\ t4 \in Nat /\ s = <<s[1], t2, t3, t4>>
    BY <2>1
  <2> HIDE DEF t2, t3, t4
  <2>3. Tail(<<s[1], t2, t3, t4>>) = <<t2, t3, t4>>
    BY SMT
  <2> QED
    BY <2>1, <2>2, <2>3
<1>4. INV[p] = Dec(<<t2, t3, t4>>)
  BY <1>3, Zenon DEF INV
<1>5. p \in Nat \ {0}
  BY SMT DEF PrimesIn, Primes
<1> DEFINE V == Decimal(t2, t3, t4)
           e == W - p * V
<1>6. V \in Nat /\ e \in 1 .. p - 1
  <2>1. CutOff(s)
    BY <1>2, INVsCutOff
  <2> HIDE DEF s
  <2>2. Million \in Nat /\ W = (18446744 * Million + 73709) * Million + 551616
    BY SizeIs, MillionIs
  <2>3. 0 < e /\ e < p
    <3> DEFINE c == Million
               f == ((18446744 - p * t2) * c + (73709 - p * t3)) * c + (551616 - p * t4)
    <3>1. 0 < f /\ f < p
      BY <1>2, <2>1 DEF CutOff
    <3> HIDE DEF t2, t3, t4, c
    <3>2. V = (t2 * c + t3) * c + t4 /\ W = (18446744 * c + 73709) * c + 551616
      BY <2>2 DEF Decimal, c
    <3>3. c \in Int /\ p \in Int
      BY <1>5, <2>2, SMT DEF c
    <3> HIDE DEF V
    <3>4. f = W - p * V
      BY <1>3, <3>2, <3>3, SMT
    <3> QED
      BY <3>1, <3>4
  <2>4. V \in Nat
    <3> HIDE DEF t2, t3, t4
    <3> QED
      BY <1>3, <2>2, SMT DEF Decimal
  <2> HIDE DEF V
  <2>5. e \in Int
    BY <1>5, <2>4, Sizes, SMT
  <2> HIDE DEF e
  <2> QED
    BY <1>5, <2>3, <2>4, <2>5, SMT
<1>7. V < W
  <2> HIDE DEF V
  <2>1. p * V = W - e /\ e >= 1 /\ W \in Nat /\ e \in Int
    <3>1. p * V \in Int /\ W \in Nat
      BY <1>5, <1>6, Sizes, SMT
    <3> QED
      BY <1>5, <1>6, <3>1, SMT
  <2>2. 1 * V <= p * V
    <3>1. 1 \in Nat /\ p \in Nat /\ 1 <= p
      BY <1>5, SMT
    <3> QED
      BY <1>6, <3>1, Monotone
  <2> HIDE DEF e
  <2> QED
    BY <1>6, <2>1, <2>2, SMT
<1>8. INV[p] \in UInt64 /\ Val(INV[p]) = V
  <2> HIDE DEF t2, t3, t4
  <2> QED
    BY <1>3, <1>4, <1>7, DecIs
<1> HIDE DEF V
<1>9. Val(INV[p]) * p + e = W
  <2>1. V * p + (W - p * V) = W
    BY <1>5, <1>6, Sizes, SMT
  <2> QED
    BY <1>8, <2>1
<1> QED
  BY <1>5, <1>6, <1>8, <1>9

\* So REM is the remainder, for every n below MOD, with the shifts that are used.
LEMMA REMIs ==
  ASSUME NEW n, Below(n), NEW p \in PrimesIn(61, 277), NEW S \in 6 .. 9, p <= 2 ^ S
  PROVE  REM(n, p, S) = Rem(n, p) /\ REM(n, p, S) = Val(n) % p
<1> DEFINE a == 2 ^ (8 + S)
           b == 2 ^ (16 - S)
<1>1. PICK e \in 1 .. p - 1 : Val(INV[p]) * p + e = W
  BY InverseIs
<1>2. INV[p] \in UInt64 /\ p \in Nat \ {0} /\ n \in UInt64
  BY InverseIs DEF Below
<1>3. a \in Nat \ {0} /\ b \in Nat \ {0} /\ a * b = B /\ a <= 2 * Top /\ Byte * p <= a /\ p <= 2 * Byte
  <2>1. S = 6 \/ S = 7 \/ S = 8 \/ S = 9
    BY SMT
  <2>2. CASE S = 6
    <3>1. a = 16384 /\ b = 1024 /\ p <= 64
      BY <2>2, SMT
    <3> HIDE DEF a, b
    <3> QED
      BY <1>2, <3>1, SMT DEF B, Top, Byte
  <2>3. CASE S = 7
    <3>1. a = 32768 /\ b = 512 /\ p <= 128
      BY <2>3, SMT
    <3> HIDE DEF a, b
    <3> QED
      BY <1>2, <3>1, SMT DEF B, Top, Byte
  <2>4. CASE S = 8
    <3>1. a = 65536 /\ b = 256 /\ p <= 256
      BY <2>4, SMT
    <3> HIDE DEF a, b
    <3> QED
      BY <1>2, <3>1, SMT DEF B, Top, Byte
  <2>5. CASE S = 9
    <3>1. a = 131072 /\ b = 128 /\ p <= 512
      BY <2>5, SMT
    <3> HIDE DEF a, b
    <3> QED
      BY <1>2, <3>1, SMT DEF B, Top, Byte
  <2> QED
    BY <2>1, <2>2, <2>3, <2>4, <2>5
<1> DEFINE c == INV[p]
           x == Times(c, Plus(n, Small(1)))
           h == x[1] * b + x[2] \div a
           y == Times(Small(p), Small(h))
           z == (y[2] % 256) * 256 + y[3] \div 65536
<1>4. REM(n, p, S) = z \div b
  BY SMT DEF REM
<1> HIDE DEF a, b, c
<1>5. c \in UInt64 /\ Val(c) * p + e = W
  BY <1>1, <1>2 DEF c
<1>6. z \div b = Val(n) % p
  BY <1>2, <1>3, <1>5, FastRemainder, SMT
<1> QED
  BY <1>2, <1>4, <1>6, RemIs


-----------------------------------------------------------------------------
\* The rows of the look-ups.

\* What Of takes for each variant.
LEMMA OfIs ==
  ASSUME NEW a, NEW b, NEW c, NEW d, NEW e, NEW f, NEW h
  PROVE  /\ Of("sse2", a, b, c, d, e, f, h) = a /\ Of("sse41", a, b, c, d, e, f, h) = b
         /\ Of("avx", a, b, c, d, e, f, h) = c /\ Of("avx2", a, b, c, d, e, f, h) = d
         /\ Of("avx512", a, b, c, d, e, f, h) = e
<1>1. Of("sse2", a, b, c, d, e, f, h) = a /\ Of("sse41", a, b, c, d, e, f, h) = b
  BY SMT DEF Of, Cuda, OpenCL
<1>2. Of("avx", a, b, c, d, e, f, h) = c /\ Of("avx2", a, b, c, d, e, f, h) = d
  BY SMT DEF Of, Cuda, OpenCL
<1>3. Of("avx512", a, b, c, d, e, f, h) = e
  BY SMT DEF Of, Cuda, OpenCL
<1> QED
  BY <1>1, <1>2, <1>3
LEMMA OfSame ==
  ASSUME NEW u \in CPU, NEW a, NEW f, NEW h
  PROVE  Of(u, a, a, a, a, a, f, h) = a
BY OfIs DEF CPU
LEMMA OfCuda ==
  ASSUME NEW u \in Cuda, NEW a, NEW b, NEW c, NEW d, NEW e, NEW f, NEW h
  PROVE  Of(u, a, b, c, d, e, f, h) = f
BY SMT DEF Of, Cuda, OpenCL
LEMMA OfOpenCL ==
  ASSUME NEW u \in OpenCL, NEW a, NEW b, NEW c, NEW d, NEW e, NEW f, NEW h
  PROVE  Of(u, a, b, c, d, e, f, h) = h
BY SMT DEF Of, Cuda, OpenCL

\* The lanes that stand for n.
LanesOf(n) == [l \in 1 .. 16 |-> Val(n) % Lanes[l]]

\* REM fills them.
LEMMA FirstRemsAre ==
  ASSUME v \in CPU, NEW n, Below(n)
  PROVE  FirstRems(n) = LanesOf(n)
<1>1. FirstRems(n) = FirstRems_sse2(n)
  <2>1. /\ FirstRems_sse41(n) = FirstRems_sse2(n) /\ FirstRems_avx(n) = FirstRems_sse2(n)
        /\ FirstRems_avx2(n) = FirstRems_sse2(n) /\ FirstRems_avx512(n) = FirstRems_sse2(n)
    BY DEF FirstRems_sse2, FirstRems_sse41, FirstRems_avx, FirstRems_avx2, FirstRems_avx512
  <2> QED
    BY <2>1, OfIs DEF FirstRems, CPU
<1>2. ASSUME NEW l \in 1 .. 16
      PROVE  REM(n, Lanes[l], IF l = 1 THEN 6 ELSE IF l <= 14 THEN 7 ELSE 8) = Val(n) % Lanes[l]
  <2> DEFINE S == IF l = 1 THEN 6 ELSE IF l <= 14 THEN 7 ELSE 8
  <2>1. Lanes[l] <= 2 ^ S
    <3>1. CASE l = 1
      BY <3>1, SMT DEF Lanes
    <3>2. CASE l # 1 /\ l <= 14
      <4>1. Lanes[l] <= 127
        BY <3>2, SMT DEF Lanes
      <4>2. Lanes[l] \in Nat
        BY LanesAre
      <4>3. S = 7
        BY <3>2
      <4> HIDE DEF S
      <4> QED
        BY <4>1, <4>2, <4>3, SMT
    <3>3. CASE l > 14
      <4>1. Lanes[l] <= 137 /\ Lanes[l] \in Nat
        BY LanesAre
      <4>2. S = 8
        BY <3>3, SMT
      <4> HIDE DEF S
      <4> QED
        BY <4>1, <4>2, SMT
    <3> QED
      BY <3>1, <3>2, <3>3, SMT
  <2>2. S \in 6 .. 9 /\ Lanes[l] \in PrimesIn(61, 277)
    BY LanesAre, SMT
  <2> HIDE DEF S
  <2>3. REM(n, Lanes[l], S) = Val(n) % Lanes[l]
    BY <2>1, <2>2, REMIs
  <2> QED
    BY <2>3 DEF S
<1> QED
  BY <1>1, <1>2, Zenon DEF FirstRems_sse2, LanesOf

\* The vectors of the quick loop hold the step and the modulus reduced.
LEMMA VectorsAre ==
  ASSUME NEW p, Locals(p), NEW l \in 1 .. 16
  PROVE  LET u == Vectors_sse2(p)
         IN  /\ u.s[l] = Val(p.S59) % Lanes[l] /\ u.m[l] = Modulus % Lanes[l]
             /\ u.num1[l] = Lanes[l] /\ u.num2[l] = Lanes[l] - 1
<1>1. Lanes[l] \in PrimesIn(61, 277) /\ Lanes[l] \in Nat \ {0}
  BY LanesAre
<1>2. Rem(p.S59, Lanes[l]) = Val(p.S59) % Lanes[l]
  BY <1>1, RemIs DEF Locals, Below
<1>3. MODrem[Lanes[l]] = Modulus % Lanes[l]
  <2>1. Lanes[l] \in Primes
    BY <1>1 DEF PrimesIn
  <2>2. MODrem[Lanes[l]] = Rem(MOD, Lanes[l])
    BY <2>1 DEF MODrem
  <2> QED
    BY <1>1, <2>2, ModulusIs, RemIs
<1> QED
  BY <1>2, <1>3 DEF Vectors_sse2

\* One update of the vectors follows n59.
LEMMA NextRemsAre ==
  ASSUME v \in CPU, Locals(q), vec = Vectors(v, q), Below(n59), rems = LanesOf(n59)
  PROVE  NextRems(AtLeast(Plus(n59, q.S59), MOD)) = LanesOf(Advance(n59, q.S59))
<1> DEFINE u == Vectors_sse2(q)
           x == Val(n59)
           y == Val(q.S59)
           wraps == AtLeast(Plus(n59, q.S59), MOD)
           carries == x + y >= Modulus
<1>1. /\ x \in Nat /\ x < Modulus /\ y \in Nat /\ y < Modulus /\ Modulus \in Nat \ {0}
      /\ (wraps <=> carries) /\ Val(Advance(n59, q.S59)) = Stepped(x, y, Modulus)
  BY AdvanceIs, ModulusIs, Words DEF Locals, Below
<1>2. ASSUME NEW l \in 1 .. 16
      PROVE  Of(v, NextRem_sse2(l, rems[l], vec, wraps), NextRem_sse41(l, rems[l], vec, wraps),
                NextRem_avx(l, rems[l], vec, wraps), NextRem_avx2(l, rems[l], vec, wraps),
                NextRem_avx512(l, rems[l], vec, wraps), 0, 0) = Stepped(x, y, Modulus) % Lanes[l]
  <2> DEFINE r == x % Lanes[l]
             z == Stepped(x, y, Modulus) % Lanes[l]
  <2>1. rems[l] = r
    BY DEF LanesOf
  <2>2. Lanes[l] \in Nat \ {0}
    BY LanesAre
  <2>3. /\ u.s[l] = y % Lanes[l] /\ u.m[l] = Modulus % Lanes[l]
        /\ u.num1[l] = Lanes[l] /\ u.num2[l] = Lanes[l] - 1
    BY VectorsAre
  <2> HIDE DEF u, x, y
  <2>4. /\ NextRem_sse2(l, r, u, carries) = z /\ NextRem_sse41(l, r, u, carries) = z
        /\ NextRem_avx(l, r, u, carries) = z /\ NextRem_avx2(l, r, u, carries) = z
        /\ NextRem_avx512(l, r, u, carries) = z
    BY <1>1, <2>2, <2>3, LanesFollow
  <2> HIDE DEF r, z, carries, wraps
  <2> DEFINE a == NextRem_sse2(l, rems[l], vec, wraps)
             b == NextRem_sse41(l, rems[l], vec, wraps)
             c == NextRem_avx(l, rems[l], vec, wraps)
             d == NextRem_avx2(l, rems[l], vec, wraps)
             e == NextRem_avx512(l, rems[l], vec, wraps)
  <2> SUFFICES Of(v, a, b, c, d, e, 0, 0) = z
    BY DEF z
  <2>10. /\ v = "sse2" => Of(v, a, b, c, d, e, 0, 0) = a
         /\ v = "sse41" => Of(v, a, b, c, d, e, 0, 0) = b
         /\ v = "avx" => Of(v, a, b, c, d, e, 0, 0) = c
         /\ v = "avx2" => Of(v, a, b, c, d, e, 0, 0) = d
         /\ v = "avx512" => Of(v, a, b, c, d, e, 0, 0) = e
    <3> HIDE DEF a, b, c, d, e
    <3> QED
      BY OfIs
  <2>5. CASE v = "sse2"
    <3>1. vec = u
      BY <2>5, OfIs DEF Vectors, Of5, u
    <3>2. NextRem_sse2(l, rems[l], vec, wraps) = z
      BY <1>1, <2>1, <2>4, <3>1, Zenon DEF NextRem_sse2, Wrapped
    <3> QED
      BY <2>5, <2>10, <3>2
  <2>6. CASE v = "sse41"
    <3>1. vec = u
      BY <2>6, OfIs DEF Vectors, Of5, u, Vectors_sse2, Vectors_sse41
    <3>2. NextRem_sse41(l, rems[l], vec, wraps) = z
      BY <1>1, <2>1, <2>4, <3>1, Zenon DEF NextRem_sse41, Wrapped
    <3> QED
      BY <2>6, <2>10, <3>2
  <2>7. CASE v = "avx"
    <3>1. vec = u
      BY <2>7, OfIs DEF Vectors, Of5, u, Vectors_sse2, Vectors_avx
    <3>2. NextRem_avx(l, rems[l], vec, wraps) = z
      BY <1>1, <2>1, <2>4, <3>1, Zenon DEF NextRem_avx, Wrapped
    <3> QED
      BY <2>7, <2>10, <3>2
  <2>8. CASE v = "avx2"
    <3>1. vec = u
      BY <2>8, OfIs DEF Vectors, Of5, u, Vectors_sse2, Vectors_avx2
    <3>2. NextRem_avx2(l, rems[l], vec, wraps) = z
      BY <1>1, <2>1, <2>4, <3>1, Zenon DEF NextRem_avx2, Wrapped
    <3> QED
      BY <2>8, <2>10, <3>2
  <2>9. CASE v = "avx512"
    <3>1. vec = Vectors_avx512(q)
      BY <2>9, OfIs DEF Vectors, Of5
    <3>2. vec.s = u.s /\ vec.m = u.m /\ vec.num1 = u.num1
      BY <3>1 DEF u, Vectors_sse2, Vectors_avx512
    <3>3. NextRem_avx512(l, rems[l], vec, wraps) = z
      BY <1>1, <2>1, <2>4, <3>2, Zenon DEF NextRem_avx512, Wrapped
    <3> QED
      BY <2>9, <2>10, <3>3
  <2> QED
    BY <2>5, <2>6, <2>7, <2>8, <2>9 DEF CPU, z
<1>3. DOMAIN rems = 1 .. 16
  BY DEF LanesOf
<1> HIDE DEF x, y, wraps
<1> QED
  BY <1>1, <1>2, <1>3, Zenon DEF NextRems, LanesOf, wraps


-----------------------------------------------------------------------------
\* The remainder of the kernels.

Billion == 1073741824
LEMMA BillionIs ==
  /\ Billion \in Nat \ {0} /\ Billion = 64 * B /\ B * B = Billion * 262144
BY SMT DEF Billion, B

\* The factors are 2^30 modulo their primes.
LEMMA CoefficientsAre ==
  ASSUME NEW i \in 1 .. 83
  PROVE  coefficients[i] \in Int /\ coefficients[i] = Billion % g_primes[i]
BY SMTT(60) DEF coefficients, g_primes, Billion

LEMMA NumberIs ==
  ASSUME NEW P \in PrimesIn(61, 541)
  PROVE  NumberOf[P] \in 1 .. 83 /\ g_primes[NumberOf[P]] = P
<1> DEFINE i == CHOOSE i \in 1 .. 83 : g_primes[i] = P
<1>1. i \in 1 .. 83 /\ g_primes[i] = P
  BY PrimesListed, Zenon
<1>2. NumberOf[P] = i
  BY Zenon DEF NumberOf
<1> HIDE DEF i
<1> QED
  BY <1>1, <1>2

\* The split at bit 30, and the remainder put together from the parts.
LEMMA ResidueIs ==
  ASSUME NEW n \in UInt64, NEW P \in PrimesIn(61, 541)
  PROVE  Residue(n, P) = Rem(n, P)
<1> DEFINE n1 == n[1]
           n2 == n[2]
           n3 == n[3]
           x == n2 % 64
           y == n2 \div 64
           lo == n3 + B * x
           hi == y + 262144 * n1
           c == coefficients[NumberOf[P]]
<1>1. n1 \in Int /\ n2 \in Int /\ n3 \in Int /\ Val(n) = (n1 * B + n2) * B + n3
  <2>1. n[1] \in Int /\ n[2] \in Int /\ n[3] \in Int
    BY Digits
  <2> QED
    BY <2>1 DEF Val
<1>2. P \in Nat \ {0}
  BY SMT DEF PrimesIn, Primes
<1>3. c \in Int /\ c = Billion % P
  <2>1. NumberOf[P] \in 1 .. 83 /\ g_primes[NumberOf[P]] = P
    BY NumberIs
  <2> DEFINE i == NumberOf[P]
  <2> HIDE DEF i
  <2>4. i \in 1 .. 83
    BY <2>1 DEF i
  <2>2. coefficients[i] \in Int /\ coefficients[i] = Billion % g_primes[i]
    BY <2>4, CoefficientsAre
  <2> QED
    BY <2>1, <2>2 DEF i
<1>4. Residue(n, P) = (lo + c * hi) % P
  BY DEF Residue
<1>5. n2 = 64 * y + x /\ x \in Int /\ y \in Int
  <2> HIDE DEF n2
  <2>1. 64 \in Nat \ {0}
    BY SMT
  <2>2. n2 = 64 * (n2 \div 64) + (n2 % 64) /\ n2 \div 64 \in Int /\ n2 % 64 \in 0 .. 64 - 1
    BY <1>1, <2>1, Division
  <2> QED
    BY <2>2, SMT
<1> HIDE DEF n1, n2, n3, x, y, c
<1>6. lo \in Int /\ hi \in Int
  BY <1>1, <1>5, Sizes, SMT
<1>7. Val(n) = lo + Billion * hi
  <2> DEFINE A == Billion
             d == B
             K == 262144
  <2>1. A = 64 * d /\ d * d = A * K /\ d \in Int /\ A \in Int /\ K \in Int
    BY BillionIs, Sizes, SMT
  <2>2. lo = n3 + d * x /\ hi = y + K * n1 /\ Val(n) = (n1 * d + (64 * y + x)) * d + n3
    BY <1>1, <1>5
  <2> HIDE DEF A, d, K, lo, hi
  <2>3. (n1 * d + (64 * y + x)) * d + n3 = n1 * (d * d) + (64 * d) * y + d * x + n3
    BY <1>1, <1>5, <2>1, SMT
  <2>4. n1 * (A * K) + A * y + d * x + n3 = (n3 + d * x) + A * (y + K * n1)
    BY <1>1, <1>5, <2>1, SMT
  <2>5. Val(n) = (n3 + d * x) + A * (y + K * n1)
    BY <2>1, <2>2, <2>3, <2>4
  <2> QED
    BY <2>2, <2>5 DEF A
<1> HIDE DEF lo, hi
<1>8. Congruent(lo + c * hi, Val(n), P)
  <2>1. Billion \in Int
    BY BillionIs, SMT
  <2>2. Congruent(c, Billion, P)
    BY <1>2, <1>3, <2>1, CongruentRemainder
  <2>3. Congruent(hi, hi, P) /\ Congruent(lo, lo, P)
    BY <1>2, <1>6, CongruentSelf
  <2>4. Congruent(c * hi, Billion * hi, P)
    BY <1>2, <1>3, <1>6, <2>1, <2>2, <2>3, CongruentProduct
  <2>5. c * hi \in Int /\ Billion * hi \in Int
    BY <1>3, <1>6, <2>1, SMT
  <2>6. Congruent(lo + c * hi, lo + Billion * hi, P)
    BY <1>2, <1>6, <2>3, <2>4, <2>5, CongruentSum
  <2> QED
    BY <1>7, <2>6
<1>9. lo + c * hi \in Int /\ Val(n) \in Int
  BY <1>3, <1>6, Words, SMT
<1>10. (lo + c * hi) % P = Val(n) % P
  BY <1>2, <1>8, <1>9, SameRemainder
<1> QED
  BY <1>2, <1>4, <1>10, RemIs


-----------------------------------------------------------------------------
\* The tables and the bits of the variants.

LEMMA VariantsAre == v \in CPU \cup Kernel => v \in CPU \/ v \in Cuda \/ v \in OpenCL
BY DEF Kernel

\* MAKE_OK clears cells of its own table.
LEMMA MakeOKIs ==
  ASSUME NEW u \in CPU, NEW STEP \in UInt64, NEW P \in OKPrimes(u)
  PROVE  /\ P \in PrimesIn(61, 541) /\ MakeOK(u, P, STEP) = MakeOK_sse2(P, STEP)
         /\ MakeOK(u, P, STEP) \subseteq 0 .. OKLength[P] - 1
<1>1. P \in PrimesIn(61, 541)
  BY OfIs DEF OKPrimes, Of5, CPU, OKPrimes_sse2, OKPrimes_sse41, OKPrimes_avx, OKPrimes_avx2,
     OKPrimes_avx512
<1>2. MakeOK(u, P, STEP) = MakeOK_sse2(P, STEP)
  <2>1. /\ MakeOK_sse41(P, STEP) = MakeOK_sse2(P, STEP) /\ MakeOK_avx(P, STEP) = MakeOK_sse2(P, STEP)
        /\ MakeOK_avx2(P, STEP) = MakeOK_sse2(P, STEP) /\ MakeOK_avx512(P, STEP) = MakeOK_sse2(P, STEP)
    BY DEF MakeOK_sse2, MakeOK_sse41, MakeOK_avx, MakeOK_avx2, MakeOK_avx512
  <2> QED
    BY <2>1, OfIs DEF MakeOK, Of5, CPU
<1>3. P \in Nat \ {0} /\ OKLength[P] = P
  <2>1. P \in Nat \ {0}
    BY <1>1, SMT DEF PrimesIn, Primes
  <2> QED
    BY <1>1, <2>1, Zenon DEF OKLength
<1> DEFINE S == Rem(STEP, P)
<1>4. S \in Int
  BY <1>3, RemIs, SMT
<1> HIDE DEF S
<1>5. ASSUME NEW j \in P - 23 .. P
      PROVE  (j * S) % P \in 0 .. P - 1
  <2>1. j * S \in Int
    BY <1>3, <1>4, SMT
  <2> QED
    BY <1>3, <2>1, Division
<1> QED
  BY <1>1, <1>2, <1>3, <1>5 DEF MakeOK_sse2, S

\* Every row of the vector tables is there.
LEMMA OKOKLengthIs ==
  ASSUME NEW u \in CPU, NEW l \in 1 .. 16
  PROVE  OKOKLength(u)[Lanes[l]] = Lanes[l]
<1> DEFINE f == [P \in PrimesIn(61, 277) |-> P]
<1>1. OKOKLength(u) = f
  <2>1. /\ ixLength = f /\ xLength = f /\ OKOKLength_sse41 = f /\ OKOKLength_avx2 = f
        /\ OKOKLength_avx512 = f
    BY DEF ixLength, xLength, OKOKLength_sse41, OKOKLength_avx2, OKOKLength_avx512
  <2> HIDE DEF f
  <2> QED
    BY <2>1, OfSame DEF OKOKLength, Of5
<1>2. Lanes[l] \in PrimesIn(61, 277)
  BY LanesAre
<1> QED
  BY <1>1, <1>2, Zenon

\* So the lanes index them.
LEMMA LanesInTables ==
  ASSUME NEW u \in CPU, NEW n \in UInt64, NEW l \in 1 .. 16
  PROVE  LanesOf(n)[l] \in 0 .. OKOKLength(u)[Lanes[l]] - 1
<1>1. Lanes[l] \in Nat \ {0} /\ OKOKLength(u)[Lanes[l]] = Lanes[l]
  BY LanesAre, OKOKLengthIs
<1>2. Val(n) % Lanes[l] \in 0 .. Lanes[l] - 1
  <2>1. Val(n) \in Int
    BY Words, SMT
  <2> QED
    BY <1>1, <2>1, Division
<1> QED
  BY <1>1, <1>2 DEF LanesOf

\* The bits of an iteration come in one part, or in two.
LEMMA BitsAre ==
  ASSUME NEW u \in CPU \cup Kernel
  PROVE  /\ Len(Bits(u)) \in Nat \ {0} /\ 1 \in 1 .. Len(Bits(u))
         /\ \A p \in 1 .. Len(Bits(u)) : Bits(u)[p] \subseteq 0 .. 639
         /\ u \in Kernel => \A p \in 1 .. Len(Bits(u)) : Bits(u)[p] = 0 .. 63
         /\ u = "avx512" => Bits(u) = <<0 .. 511, 512 .. 639>>
<1>1. u \in CPU \/ u \in Cuda \/ u \in OpenCL
  BY DEF Kernel
<1>2. CASE u \in CPU
  <2>1. \/ u # "avx512" /\ (Bits(u) = <<0 .. 127>> \/ Bits(u) = <<0 .. 255>>)
        \/ u = "avx512" /\ Bits(u) = <<0 .. 511, 512 .. 639>>
    <3>1. "sse2" # "avx512" /\ "sse41" # "avx512" /\ "avx" # "avx512" /\ "avx2" # "avx512"
      OBVIOUS
    <3>2. /\ Bits("sse2") = <<0 .. 127>> /\ Bits("sse41") = <<0 .. 127>>
          /\ Bits("avx") = <<0 .. 255>> /\ Bits("avx2") = <<0 .. 255>>
          /\ Bits("avx512") = <<0 .. 511, 512 .. 639>>
      BY OfIs DEF Bits, Bits_sse2, Bits_sse41, Bits_avx, Bits_avx2, Bits_avx512
    <3>3. u = "sse2" \/ u = "sse41" \/ u = "avx" \/ u = "avx2" \/ u = "avx512"
      BY <1>2 DEF CPU
    <3> QED
      BY <3>1, <3>2, <3>3
  <2>2. u \notin Kernel
    BY <1>2, SMT DEF CPU, Kernel, Cuda, OpenCL
  <2>3. CASE Bits(u) = <<0 .. 127>> /\ u # "avx512"
    BY <2>2, <2>3, SMT
  <2>4. CASE Bits(u) = <<0 .. 255>> /\ u # "avx512"
    BY <2>2, <2>4, SMT
  <2>5. CASE Bits(u) = <<0 .. 511, 512 .. 639>>
    <3>1. Len(Bits(u)) = 2 /\ Bits(u)[1] = 0 .. 511 /\ Bits(u)[2] = 512 .. 639
      BY <2>5, SMT
    <3> QED
      BY <2>2, <2>5, <3>1, SMT
  <2> QED
    BY <2>1, <2>3, <2>4, <2>5
<1>3. CASE u \in Cuda \/ u \in OpenCL
  <2>1. Bits(u) = <<0 .. 63>>
    BY <1>3, OfCuda, OfOpenCL DEF Bits
  <2>2. u # "avx512"
    BY <1>3, SMT DEF Cuda, OpenCL
  <2> QED
    BY <2>1, <2>2, SMT
<1> QED
  BY <1>1, <1>2, <1>3

\* Every variant has groups of primes to look up.
LEMMA GroupsAre ==
  ASSUME NEW u \in CPU \cup Kernel
  PROVE  Len(Groups(u)) \in Nat \ {0}
<1>1. u \in CPU \/ u \in Cuda \/ u \in OpenCL
  BY DEF Kernel
<1>2. Len(StdGroups) \in Nat \ {0}
  <2> DEFINE s == <<PrimesIn(61, 79), PrimesIn(83, 103), PrimesIn(107, 131),
                    PrimesIn(137, 151), PrimesIn(157, 173)>>
             t == [i \in 1 .. 30 |-> {g_primes[22 + 2 * i], g_primes[23 + 2 * i]}]
             X == {s[i] : i \in 1 .. 5} \cup {t[i] : i \in 1 .. 30}
  <2>1. Len(s) = 5 /\ s = [i \in 1 .. 5 |-> s[i]]
    BY SMT
  <2>2. Len(t) = 30
    BY SMT
  <2>3. s \in Seq(X) /\ t \in Seq(X)
    BY SMT
  <2> HIDE DEF s, t, X
  <2>4. Len(s \o t) = Len(s) + Len(t)
    BY <2>3, ConcatProperties
  <2>5. Len(s \o t) = 35
    BY <2>1, <2>2, <2>4, SMT
  <2> QED
    BY <2>5, SMT DEF StdGroups, s, t
<1>3. CASE u \in CPU
  <2>1. Groups(u) = <<PrimesIn(61, 137), PrimesIn(139, 199), PrimesIn(211, 277)>>
    BY <1>3, OfIs DEF Groups, CPU, Groups_sse2, Groups_sse41, Groups_avx, Groups_avx2, Groups_avx512
  <2> QED
    BY <2>1, SMT
<1>4. Len(NvGroups_cuda) \in Nat \ {0}
  BY SMT DEF NvGroups_cuda
<1>5. CASE u \in Cuda
  <2>1. Groups(u) = CASE u = "std" -> StdGroups [] u = "mid" -> MidGroups
                      [] u = "nv" -> NvGroups_cuda [] u = "ilp2" -> IlpGroups
    <3> DEFINE a == CASE u = "std" -> StdGroups [] u = "mid" -> MidGroups
                      [] u = "nv" -> NvGroups_cuda [] u = "ilp2" -> IlpGroups
    <3>1. Groups(u) = Of(u, Groups_sse2, Groups_sse41, Groups_avx, Groups_avx2, Groups_avx512, a,
                         IF u = "clnv" THEN NvGroups_opencl ELSE Groups_opencl)
      BY DEF Groups
    <3> HIDE DEF a
    <3>2. Groups(u) = a
      BY <1>5, <3>1, OfCuda
    <3> QED
      BY <3>2 DEF a
  <2>2. Groups(u) = StdGroups \/ Groups(u) = NvGroups_cuda
    BY <1>5, <2>1, SMT DEF Cuda, MidGroups, IlpGroups
  <2> QED
    BY <1>2, <1>4, <2>2
<1>6. CASE u \in OpenCL
  <2>1. Groups(u) = IF u = "clnv" THEN NvGroups_opencl ELSE Groups_opencl
    BY <1>6, OfOpenCL DEF Groups
  <2> QED
    BY <1>2, <1>4, <2>1 DEF NvGroups_opencl, Groups_opencl
<1> QED
  BY <1>1, <1>3, <1>5, <1>6

\* A look-up leaves bits there were.
LEMMA LookUpIn ==
  ASSUME v \in CPU \cup Kernel
  PROVE  LookUp \subseteq sito
<1>1. v \in CPU \/ v \in Cuda \/ v \in OpenCL
  BY VariantsAre
<1>2. CASE v \in CPU
  <2>1. /\ LookUp_sse2(g, sito, n59, rems, ok, SHIFT, maxshift) \subseteq sito
        /\ LookUp_sse41(g, sito, n59, rems, ok, SHIFT, maxshift) \subseteq sito
        /\ LookUp_avx(g, sito, n59, rems, ok, SHIFT, maxshift) \subseteq sito
        /\ LookUp_avx2(g, sito, n59, rems, ok, SHIFT, maxshift) \subseteq sito
    BY DEF LookUp_sse2, LookUp_sse41, LookUp_avx, LookUp_avx2
  <2>2. LookUp_avx512(g, sito, n59, rems, ok, SHIFT, maxshift) \subseteq sito
    <3>1. /\ LookUpxx_avx512(g, sito, n59, rems, ok, SHIFT) \subseteq sito
          /\ LookUpix_avx512(g, sito, n59, rems, ok, SHIFT) \subseteq sito
      BY DEF LookUpxx_avx512, LookUpix_avx512
    <3> QED
      BY <3>1, Zenon DEF LookUp_avx512
  <2> QED
    BY <1>2, <2>1, <2>2, OfIs DEF LookUp, CPU
<1>3. CASE v \in Cuda
  <2>1. LookUp_cuda(v, Groups(v)[g], sito, n59, ok, okok) \subseteq sito
    BY Zenon DEF LookUp_cuda
  <2> QED
    BY <1>3, <2>1, OfCuda DEF LookUp
<1>4. CASE v \in OpenCL
  <2>1. LookUp_opencl(v, Groups(v)[g], sito, n59, ok, okok) \subseteq sito
    BY Zenon DEF LookUp_opencl
  <2> QED
    BY <1>4, <2>1, OfOpenCL DEF LookUp
<1> QED
  BY <1>1, <1>2, <1>3, <1>4

\* A set bit stands for a shift of its own, in every variant.
LEMMA DecodeIs ==
  ASSUME v \in CPU \cup Kernel, n59 \in UInt64, NEW b \in 0 .. 639, SHIFT \in 0 .. INT_MAX - 640
  PROVE  Decode(b) = Candidate(n59, SHIFT + b) /\ Decode(b) \in UInt64
<1>1. v \in CPU \/ v \in Cuda \/ v \in OpenCL
  BY VariantsAre
<1>2. SHIFT \in Nat /\ SHIFT + b \in 0 .. INT_MAX
  BY IntMaxIs, SMT
<1>3. Candidate(n59, SHIFT + b) \in UInt64
  <2>1. Small(SHIFT + b) \in UInt64
    BY <1>2, IntIs
  <2> QED
    BY <2>1, ModulusIs, PlusIs, TimesIs DEF Candidate
<1>4. (b % 64) + SHIFT + 64 * (b \div 64) = SHIFT + b
  BY <1>2, SMT
<1>5. (b % 64) + SHIFT + (IF b < 512 THEN 64 * (b \div 64) ELSE IF b < 576 THEN 512 ELSE 576)
        = SHIFT + b
  BY <1>2, SMT
<1>6. b + SHIFT = SHIFT + b
  BY <1>2, SMT
<1>7. Decode(b) = Candidate(n59, SHIFT + b)
  <2>1. /\ Decode_sse2(n59, b, SHIFT) = Candidate(n59, SHIFT + b)
        /\ Decode_sse41(n59, b, SHIFT) = Candidate(n59, SHIFT + b)
        /\ Decode_avx(n59, b, SHIFT) = Candidate(n59, SHIFT + b)
        /\ Decode_avx2(n59, b, SHIFT) = Candidate(n59, SHIFT + b)
    BY <1>4 DEF Decode_sse2, Decode_sse41, Decode_avx, Decode_avx2
  <2>2. Decode_avx512(n59, b, SHIFT) = Candidate(n59, SHIFT + b)
    BY <1>5 DEF Decode_avx512
  <2>3. /\ Decode_cuda(n59, b, SHIFT) = Candidate(n59, SHIFT + b)
        /\ Decode_opencl(n59, b, SHIFT) = Candidate(n59, SHIFT + b)
    BY <1>6 DEF Decode_cuda, Decode_opencl
  <2> DEFINE c == Candidate(n59, SHIFT + b)
  <2>4. v \in CPU => Decode(b) = c
    BY <2>1, <2>2, <2>3, OfSame DEF Decode
  <2>5. v \in Cuda => Decode(b) = c
    BY <2>1, <2>2, <2>3, OfCuda DEF Decode
  <2>6. v \in OpenCL => Decode(b) = c
    BY <2>1, <2>2, <2>3, OfOpenCL DEF Decode
  <2> QED
    BY <1>1, <2>4, <2>5, <2>6
<1> QED
  BY <1>3, <1>7

\* An iteration goes on by its words, and no further than two ranges.
LEMMA NextSHIFTIs ==
  ASSUME NEW u \in CPU \cup Kernel, NEW s \in Nat
  PROVE  NextSHIFT(u, s) \in {s + 64, s + 128, s + 256, s + 640}
<1>1. u \in CPU \/ u \in Cuda \/ u \in OpenCL
  BY DEF Kernel
<1>2. CASE u \in CPU
  BY <1>2, OfIs DEF NextSHIFT, CPU, NextSHIFT_sse2, NextSHIFT_sse41, NextSHIFT_avx, NextSHIFT_avx2,
     NextSHIFT_avx512
<1>3. CASE u \in Cuda
  BY <1>3, OfCuda DEF NextSHIFT
<1>4. CASE u \in OpenCL
  BY <1>4, OfOpenCL DEF NextSHIFT
<1> QED
  BY <1>1, <1>2, <1>3, <1>4


-----------------------------------------------------------------------------
\* The inductive invariant.

Walking == pc \in {"look", "check", "bits", "advance"}

\* The search is somewhere in its control flow, from a sampled position.
Sampled ==
  /\ pc \in {"prepare", "begin", "row", "look", "check", "bits", "advance", "done"}
  /\ <<v, start>> \in Samples
\* The counters of the loops are within their loops.
Counted ==
  /\ i43 \in 0 .. 19 /\ i47 \in 0 .. 23 /\ i53 \in 0 .. 29 /\ i59 \in 0 .. 35
  /\ rows \in 0 .. start.rows
\* Every n is reduced.
Numbered == Below(n43) /\ Below(n47) /\ Below(n53) /\ Below(n59)
\* The prologue's locals are reduced, and the vectors are made from them.
Filled == pc # "prepare" => Locals(q) /\ (v \in CPU => vec = Vectors(v, q))
\* The cells that are cleared are cells of their tables.
Cleared == v \in CPU => \A P \in DOMAIN ok : ok[P] \subseteq 0 .. OKLength[P] - 1
\* The lanes, once they were filled, are n59 modulo their primes.
Followed ==
  v \in CPU => /\ rems = <<>> \/ rems = LanesOf(n59)
               /\ Walking => rems = LanesOf(n59)
\* The iterations stay in the range of 640 shifts, the words of the last may not.
Shifted ==
  /\ SHIFT \in Nat /\ start.startSHIFT <= SHIFT
  /\ pc # "done" => SHIFT < maxshift
\* The bits left are bits of a part that is there.
Left ==
  /\ part \in 1 .. Len(Bits(v)) /\ g \in 1 .. Len(Groups(v))
  /\ sito \subseteq Bits(v)[part]
\* Words are reported.
Reported == report \in Seq(UInt64)

IInv ==
  Sampled /\ Counted /\ Numbered /\ Filled /\ Cleared /\ Followed /\ Shifted /\ Left /\ Reported

\* What is known of a sampled position.
LEMMA PositionIs ==
  ASSUME <<v, start>> \in Samples
  PROVE  /\ v \in CPU \cup Kernel
         /\ start.K \in 0 .. INT_MAX /\ start.startSHIFT \in 0 .. INT_MAX - 1280
         /\ start.entry \in Counters /\ start.entry \in Entries(v)
         /\ start.i43 \in 1 .. 19 /\ start.i47 \in 1 .. 23 /\ start.i53 \in 1 .. 29
         /\ start.rows \in Nat \ {0}
<1>1. <<v, start>> \in (CPU \cup Kernel) \X Position
  BY SieveAssumption
<1>2. v \in CPU \cup Kernel /\ start \in Position
  BY <1>1
<1>3. <<v, start>>[2].entry \in Entries(<<v, start>>[1])
  BY SieveAssumption
<1>4. start.entry \in Entries(v)
  BY <1>3
<1> QED
  BY <1>2, <1>4 DEF Position

\* The shifts of a range are numbers an int holds.
LEMMA ShiftedIs ==
  ASSUME Sampled, Shifted, pc # "done"
  PROVE  SHIFT \in 0 .. INT_MAX - 640
<1>1. start.startSHIFT \in 0 .. INT_MAX - 1280 /\ INT_MAX \in Nat
  BY PositionIs, IntMaxIs DEF Sampled
<1>2. SHIFT \in Nat /\ SHIFT < start.startSHIFT + 640
  BY DEF Shifted, maxshift
<1> HIDE DEF INT_MAX
<1> QED
  BY <1>1, <1>2, SMT

LEMMA ZeroIs == Below(Zero)
<1>1. 0 \in 0 .. INT_MAX
  BY IntMaxIs, SMT
<1>2. Zero \in UInt64 /\ Val(Zero) = 0
  BY <1>1, IntIs DEF Zero
<1> QED
  BY <1>2, ModulusIs, SMT DEF Below

LEMMA InitIInv == Init => IInv
<1> SUFFICES ASSUME Init PROVE IInv
  OBVIOUS
<1>1. PICK s \in Samples : v = s[1] /\ start = s[2]
  BY DEF Init
<1>2. Sampled
  <2>1. s \in (CPU \cup Kernel) \X Position
    BY SieveAssumption
  <2>2. s = <<s[1], s[2]>>
    BY <2>1
  <2> QED
    BY <1>1, <2>2 DEF Init, Sampled
<1>3. /\ v \in CPU \cup Kernel /\ start.startSHIFT \in 0 .. INT_MAX - 1280
      /\ start.rows \in Nat \ {0}
  BY <1>2, PositionIs DEF Sampled
<1>4. Counted
  BY <1>3, SMT DEF Init, Counted
<1>5. Numbered
  BY ZeroIs DEF Init, Numbered
<1>6. Filled
  BY DEF Init, Filled
<1>7. Cleared
  <2>1. ok = <<>>
    BY DEF Init
  <2>2. DOMAIN ok = {}
    BY <2>1, SMT
  <2> QED
    BY <2>2 DEF Cleared
<1>8. Followed
  BY DEF Init, Followed, Walking
<1>9. Shifted
  <2>1. start.startSHIFT \in Nat
    BY <1>3, IntMaxIs, SMT
  <2> QED
    BY <2>1, SMT DEF Init, Shifted, maxshift
<1>10. Left
  <2>1. 1 \in 1 .. Len(Bits(v)) /\ 1 \in 1 .. Len(Groups(v))
    BY <1>3, BitsAre, GroupsAre, SMT
  <2> QED
    BY <2>1 DEF Init, Left
<1>11. Reported
  BY SMT DEF Init, Reported
<1> QED
  BY <1>2, <1>4, <1>5, <1>6, <1>7, <1>8, <1>9, <1>10, <1>11 DEF IInv

\* Leaving a part leaves a part that is there.
LEMMA LeavePartIs ==
  ASSUME IInv, LeavePart, v' = v, start' = start
  PROVE  Left' /\ pc' \in {"look", "advance"}
<1>1. v \in CPU \cup Kernel
  BY PositionIs DEF IInv, Sampled
<1>2. part \in 1 .. Len(Bits(v)) /\ g \in 1 .. Len(Groups(v)) /\ sito \subseteq Bits(v)[part]
  BY DEF IInv, Left
<1>3. Len(Bits(v)) \in Nat /\ Len(Groups(v)) \in Nat \ {0}
  BY <1>1, BitsAre, GroupsAre
<1>4. CASE part < Len(Bits(v))
  <2>1. pc' = "look" /\ part' = part + 1 /\ g' = 1 /\ sito' = Bits(v)[part + 1]
    BY <1>4 DEF LeavePart
  <2>2. part + 1 \in 1 .. Len(Bits(v)) /\ 1 \in 1 .. Len(Groups(v))
    BY <1>2, <1>3, <1>4, SMT
  <2> QED
    BY <2>1, <2>2 DEF Left
<1>5. CASE ~(part < Len(Bits(v)))
  <2>1. pc' = "advance" /\ sito' = {} /\ part' = part /\ g' = g
    BY <1>5 DEF LeavePart
  <2> QED
    BY <1>2, <2>1 DEF Left
<1> QED
  BY <1>4, <1>5

LEMMA PrepareIInv == IInv /\ Prepare => IInv'
<1> SUFFICES ASSUME IInv, Prepare PROVE IInv'
  OBVIOUS
<1>1. /\ v' = v /\ start' = start /\ rems' = rems /\ SHIFT' = SHIFT /\ n59' = n59
      /\ pc = "prepare" /\ pc' = "begin" /\ q' = Prologue(v, start.K)
  BY DEF Prepare
<1>2. v \in CPU \cup Kernel /\ start.K \in 0 .. INT_MAX
  BY PositionIs DEF IInv, Sampled
<1>3. Sampled' /\ Counted' /\ Numbered' /\ Left' /\ Reported'
  BY <1>1 DEF Prepare, IInv, Sampled, Counted, Numbered, Left, Reported
<1>4. Locals(q')
  BY <1>1, <1>2, PrologueIs
<1>5. Filled'
  <2>1. CASE v \in CPU
    <3>1. v \notin Kernel
      BY <2>1, SMT DEF CPU, Kernel, Cuda, OpenCL
    <3>2. vec' = Vectors(v, q')
      BY <3>1 DEF Prepare
    <3> QED
      BY <1>1, <1>4, <3>2 DEF Filled
  <2>2. CASE v \notin CPU
    BY <1>1, <1>4, <2>2 DEF Filled
  <2> QED
    BY <2>1, <2>2
<1>6. Cleared'
  <2> SUFFICES ASSUME v \in CPU PROVE \A P \in DOMAIN ok' : ok'[P] \subseteq 0 .. OKLength[P] - 1
    BY <1>1 DEF Cleared
  <2>1. v \notin Kernel
    BY SMT DEF CPU, Kernel, Cuda, OpenCL
  <2>2. ok' = [P \in OKPrimes(v) |-> MakeOK(v, P, q'.STEP)]
    BY <2>1 DEF Prepare
  <2>3. ASSUME NEW P \in OKPrimes(v)
        PROVE  MakeOK(v, P, q'.STEP) \subseteq 0 .. OKLength[P] - 1
    <3>1. q'.STEP \in UInt64
      BY <1>4 DEF Locals
    <3> QED
      BY <2>3, <3>1, MakeOKIs
  <2> QED
    BY <2>2, <2>3, Zenon
<1>7. Followed' /\ Shifted'
  <2>1. Followed /\ Shifted /\ pc' # "done" /\ pc # "done"
    BY <1>1 DEF IInv
  <2>2. ~Walking /\ ~Walking'
    BY <1>1 DEF Walking
  <2> QED
    BY <1>1, <2>1, <2>2 DEF Followed, Shifted, maxshift
<1> QED
  BY <1>3, <1>5, <1>6, <1>7 DEF IInv

LEMMA BeginIInv == IInv /\ Begin => IInv'
<1> SUFFICES ASSUME IInv, Begin PROVE IInv'
  OBVIOUS
<1>1. /\ v' = v /\ start' = start /\ rems' = rems /\ SHIFT' = SHIFT /\ n59' = n59 /\ q' = q
      /\ vec' = vec /\ ok' = ok /\ pc = "begin" /\ pc' = "row" /\ i59' = i59 /\ rows' = 0
      /\ i43' = start.i43 /\ i47' = start.i47 /\ i53' = start.i53
      /\ n43' = After(N43(v, q, start.entry), q.S43, 43 - 24 - start.i43)
      /\ n47' = After(n43', q.S47, 47 - 24 - start.i47)
      /\ n53' = After(n47', q.S53, 53 - 24 - start.i53)
  BY DEF Begin, tables, PRIME5, PRIME6, PRIME7
<1>2. /\ v \in CPU \cup Kernel /\ start.entry \in Counters
      /\ start.i43 \in 1 .. 19 /\ start.i47 \in 1 .. 23 /\ start.i53 \in 1 .. 29
      /\ start.rows \in Nat \ {0}
  BY PositionIs DEF IInv, Sampled
<1>3. Sampled' /\ Left' /\ Reported' /\ Filled' /\ Cleared'
  BY <1>1 DEF Begin, IInv, Sampled, Left, Reported, Filled, Cleared
<1>4. Counted'
  <2>1. i59 \in 0 .. 35
    BY DEF IInv, Counted
  <2> QED
    BY <1>1, <1>2, <2>1, SMT DEF Counted
<1>5. Numbered'
  <2>1. Locals(q)
    BY <1>1 DEF IInv, Filled
  <2>2. Below(N43(v, q, start.entry))
    BY <1>2, <2>1, N43Is
  <2>3. /\ 43 - 24 - start.i43 \in 0 .. INT_MAX /\ 47 - 24 - start.i47 \in 0 .. INT_MAX
        /\ 53 - 24 - start.i53 \in 0 .. INT_MAX
    BY <1>2, IntMaxIs, SMT
  <2>4. Below(q.S43) /\ Below(q.S47) /\ Below(q.S53)
    BY <2>1 DEF Locals
  <2>5. Below(n43')
    BY <1>1, <2>2, <2>3, <2>4, AfterIs
  <2>6. Below(n47')
    BY <1>1, <2>5, <2>3, <2>4, AfterIs
  <2>7. Below(n53')
    BY <1>1, <2>6, <2>3, <2>4, AfterIs
  <2>8. Below(n59')
    BY <1>1 DEF IInv, Numbered
  <2> QED
    BY <2>5, <2>6, <2>7, <2>8 DEF Numbered
<1>6. Followed' /\ Shifted'
  <2>1. Followed /\ Shifted /\ pc' # "done" /\ pc # "done"
    BY <1>1 DEF IInv
  <2>2. ~Walking /\ ~Walking'
    BY <1>1 DEF Walking
  <2> QED
    BY <1>1, <2>1, <2>2 DEF Followed, Shifted, maxshift
<1> QED
  BY <1>3, <1>4, <1>5, <1>6 DEF IInv

LEMMA Row35IInv == IInv /\ Row35 => IInv'
<1> SUFFICES ASSUME IInv, Row35 PROVE IInv'
  OBVIOUS
<1>1. /\ v' = v /\ start' = start /\ rems' = FirstRems(n53) /\ SHIFT' = SHIFT /\ n59' = n53
      /\ q' = q /\ vec' = vec /\ ok' = ok /\ pc = "row" /\ pc' = "look" /\ i59' = 59 - 24
      /\ part' = 1 /\ g' = 1 /\ sito' = Bits(v)[1]
  BY DEF Row35, tables, PRIME8
<1>2. v \in CPU \cup Kernel
  BY PositionIs DEF IInv, Sampled
<1>3. Sampled' /\ Reported' /\ Filled' /\ Cleared' /\ Numbered'
  BY <1>1 DEF Row35, IInv, Sampled, Reported, Filled, Cleared, Numbered
<1>4. Counted'
  <2>1. 59 - 24 \in 0 .. 35
    BY SMT
  <2> QED
    BY <1>1, <2>1 DEF Row35, IInv, Counted
<1>5. Left'
  <2>1. 1 \in 1 .. Len(Bits(v)) /\ 1 \in 1 .. Len(Groups(v))
    BY <1>2, BitsAre, GroupsAre, SMT
  <2> QED
    BY <1>1, <2>1 DEF Left
<1>6. Followed'
  <2>1. Below(n53)
    BY DEF IInv, Numbered
  <2>2. v \in CPU => rems' = LanesOf(n59')
    BY <1>1, <2>1, FirstRemsAre
  <2> QED
    BY <1>1, <2>2 DEF Followed
<1>7. Shifted'
  BY <1>1 DEF IInv, Shifted, maxshift
<1> QED
  BY <1>3, <1>4, <1>5, <1>6, <1>7 DEF IInv

LEMMA LookIInv == IInv /\ Look => IInv'
<1> SUFFICES ASSUME IInv, Look PROVE IInv'
  OBVIOUS
<1>1. /\ v' = v /\ start' = start /\ rems' = rems /\ SHIFT' = SHIFT /\ n59' = n59 /\ q' = q
      /\ vec' = vec /\ ok' = ok /\ pc = "look"
  BY DEF Look, tables
<1>2. Left' /\ pc' \in {"look", "check", "advance"}
  <2>1. CASE LeavePart
    BY <1>1, <2>1, LeavePartIs
  <2>2. CASE /\ sito' = LookUp
             /\ IF g < Len(Groups(v)) THEN g' = g + 1 /\ pc' = pc ELSE g' = g /\ pc' = "check"
             /\ UNCHANGED part
    <3>1. v \in CPU \cup Kernel
      BY PositionIs DEF IInv, Sampled
    <3>2. sito' \subseteq Bits(v)[part] /\ part' \in 1 .. Len(Bits(v))
      BY <2>2, <3>1, LookUpIn DEF IInv, Left
    <3>3. g \in 1 .. Len(Groups(v)) /\ Len(Groups(v)) \in Nat
      BY <3>1, GroupsAre DEF IInv, Left
    <3>4. g' \in 1 .. Len(Groups(v)) /\ pc' \in {"look", "check"}
      BY <1>1, <2>2, <3>3, SMT
    <3> QED
      BY <1>1, <2>2, <3>2, <3>4 DEF Left
  <2> QED
    BY <2>1, <2>2 DEF Look
<1>3. Sampled' /\ Counted' /\ Reported' /\ Filled' /\ Cleared' /\ Numbered'
  BY <1>1, <1>2 DEF Look, IInv, Sampled, Counted, Reported, Filled, Cleared, Numbered
<1>4. Followed'
  <2>1. v \in CPU => rems = LanesOf(n59)
    BY <1>1 DEF IInv, Followed, Walking
  <2> QED
    BY <1>1, <2>1 DEF Followed
<1>5. Shifted'
  BY <1>1, <1>2 DEF IInv, Shifted, maxshift
<1> QED
  BY <1>2, <1>3, <1>4, <1>5 DEF IInv

LEMMA CheckIInv == IInv /\ Check => IInv'
<1> SUFFICES ASSUME IInv, Check PROVE IInv'
  OBVIOUS
<1>1. /\ v' = v /\ start' = start /\ rems' = rems /\ SHIFT' = SHIFT /\ n59' = n59 /\ q' = q
      /\ vec' = vec /\ ok' = ok /\ pc \in {"check", "bits"}
  BY DEF Check, tables
<1>2. PICK b \in sito :
        /\ report' = IF Passes(Decode(b)) THEN Append(report, Decode(b)) ELSE report
        /\ IF sito = {b} THEN LeavePart
                         ELSE pc' = "bits" /\ sito' = sito \ {b} /\ UNCHANGED <<part, g>>
  BY DEF Check
<1>3. Left' /\ pc' \in {"look", "bits", "advance"}
  <2>1. CASE LeavePart
    BY <1>1, <2>1, LeavePartIs
  <2>2. CASE pc' = "bits" /\ sito' = sito \ {b} /\ UNCHANGED <<part, g>>
    BY <1>1, <2>2 DEF IInv, Left
  <2> QED
    BY <1>2, <2>1, <2>2
<1>4. Reported'
  <2>1. v \in CPU \cup Kernel
    BY PositionIs DEF IInv, Sampled
  <2>2. b \in 0 .. 639
    <3>1. part \in 1 .. Len(Bits(v)) /\ b \in Bits(v)[part]
      BY <1>2 DEF IInv, Left
    <3>2. \A p \in 1 .. Len(Bits(v)) : Bits(v)[p] \subseteq 0 .. 639
      BY <2>1, BitsAre
    <3>3. Bits(v)[part] \subseteq 0 .. 639
      BY <3>1, <3>2, Zenon
    <3> QED
      BY <3>1, <3>3
  <2>3. SHIFT \in 0 .. INT_MAX - 640
    BY <1>1, ShiftedIs DEF IInv
  <2>4. n59 \in UInt64
    BY DEF IInv, Numbered, Below
  <2>5. Decode(b) \in UInt64
    BY <2>1, <2>2, <2>3, <2>4, DecodeIs
  <2>6. report \in Seq(UInt64)
    BY DEF IInv, Reported
  <2> DEFINE d == Decode(b)
  <2> HIDE DEF d
  <2>7. Append(report, d) \in Seq(UInt64)
    BY <2>5, <2>6 DEF d
  <2> QED
    BY <1>2, <2>6, <2>7 DEF Reported, d
<1>5. Sampled' /\ Counted' /\ Filled' /\ Cleared' /\ Numbered'
  BY <1>1, <1>3 DEF Check, IInv, Sampled, Counted, Filled, Cleared, Numbered
<1>6. Followed'
  <2>1. v \in CPU => rems = LanesOf(n59)
    BY <1>1 DEF IInv, Followed, Walking
  <2> QED
    BY <1>1, <2>1 DEF Followed
<1>7. Shifted'
  BY <1>1, <1>3 DEF IInv, Shifted, maxshift
<1> QED
  BY <1>3, <1>4, <1>5, <1>6, <1>7 DEF IInv

LEMMA NextN59IInv == IInv /\ NextN59 => IInv'
<1> SUFFICES ASSUME IInv, NextN59 PROVE IInv'
  OBVIOUS
<1>1. /\ v' = v /\ start' = start /\ SHIFT' = SHIFT /\ n59' = Advance(n59, q.S59) /\ q' = q
      /\ rems' = NextRems(AtLeast(Plus(n59, q.S59), MOD))
      /\ vec' = vec /\ ok' = ok /\ pc = "advance" /\ pc' = "look" /\ i59' = i59 - 1 /\ i59 > 1
      /\ part' = 1 /\ g' = 1 /\ sito' = Bits(v)[1]
  BY DEF NextN59, tables
<1>2. v \in CPU \cup Kernel
  BY PositionIs DEF IInv, Sampled
<1>3. Sampled' /\ Reported' /\ Filled' /\ Cleared'
  BY <1>1 DEF NextN59, IInv, Sampled, Reported, Filled, Cleared
<1>4. Counted'
  <2>1. i59 \in 0 .. 35
    BY DEF IInv, Counted
  <2>2. i59' \in 0 .. 35
    BY <1>1, <2>1, SMT
  <2> QED
    BY <1>1, <2>2 DEF NextN59, IInv, Counted
<1>5. Left'
  <2>1. 1 \in 1 .. Len(Bits(v)) /\ 1 \in 1 .. Len(Groups(v))
    BY <1>2, BitsAre, GroupsAre, SMT
  <2> QED
    BY <1>1, <2>1 DEF Left
<1>6. Locals(q) /\ Below(q.S59) /\ Below(n59)
  BY <1>1 DEF IInv, Filled, Locals, Numbered
<1>7. Numbered'
  <2>1. Below(n59')
    BY <1>1, <1>6, AdvanceIs
  <2> QED
    BY <2>1 DEF NextN59, IInv, Numbered
<1>8. Followed'
  <2>1. ASSUME v \in CPU
        PROVE  rems' = LanesOf(n59')
    <3>1. vec = Vectors(v, q) /\ rems = LanesOf(n59)
      BY <1>1, <2>1 DEF IInv, Filled, Followed, Walking
    <3> QED
      BY <1>1, <1>6, <2>1, <3>1, NextRemsAre
  <2> QED
    BY <1>1, <2>1 DEF Followed
<1>9. Shifted'
  BY <1>1 DEF IInv, Shifted, maxshift
<1> QED
  BY <1>3, <1>4, <1>5, <1>7, <1>8, <1>9 DEF IInv

LEMMA NextRowIInv == IInv /\ NextRow => IInv'
<1> SUFFICES ASSUME IInv, NextRow PROVE IInv'
  OBVIOUS
<1>1. /\ v' = v /\ start' = start /\ rems' = rems /\ SHIFT' = SHIFT /\ n59' = n59 /\ q' = q
      /\ vec' = vec /\ ok' = ok /\ pc = "advance" /\ pc' = "row" /\ i59' = i59
      /\ rows' = rows + 1 /\ rows + 1 < start.rows
  BY DEF NextRow, NextN53, NextN47, NextN43, RowEnds, tables
<1>2. Sampled' /\ Left' /\ Reported' /\ Filled' /\ Cleared'
  BY <1>1 DEF NextRow, IInv, Sampled, Left, Reported, Filled, Cleared
<1>3. Locals(q) /\ Numbered /\ Counted /\ start.rows \in Nat
  BY <1>1, PositionIs DEF IInv, Filled, Sampled
<1>4. Below(q.S43) /\ Below(q.S47) /\ Below(q.S53)
  BY <1>3 DEF Locals
<1>5. Below(Advance(n43, q.S43)) /\ Below(Advance(n47, q.S47)) /\ Below(Advance(n53, q.S53))
  BY <1>3, <1>4, AdvanceIs DEF Numbered
<1>6. Counted' /\ Numbered'
  <2>1. CASE NextN53
    <3>1. i53 > 1 /\ i53' = i53 - 1 /\ i43' = i43 /\ i47' = i47
      BY <2>1 DEF NextN53
    <3>2. Numbered'
      BY <1>1, <1>3, <1>5, <2>1 DEF NextN53, Numbered
    <3>3. Counted'
      BY <1>1, <1>3, <3>1, SMT DEF Counted
    <3> QED
      BY <3>2, <3>3
  <2>2. CASE NextN47
    <3>1. i47 > 1 /\ i47' = i47 - 1 /\ i43' = i43 /\ i53' = 53 - 24
      BY <2>2 DEF NextN47, PRIME7
    <3>2. Numbered'
      BY <1>1, <1>3, <1>5, <2>2 DEF NextN47, Numbered
    <3>3. Counted'
      BY <1>1, <1>3, <3>1, SMT DEF Counted
    <3> QED
      BY <3>2, <3>3
  <2>3. CASE NextN43
    <3>1. i43 > 1 /\ i43' = i43 - 1 /\ i47' = 47 - 24 /\ i53' = 53 - 24
      BY <2>3 DEF NextN43, PRIME6, PRIME7
    <3>2. Numbered'
      BY <1>1, <1>3, <1>5, <2>3 DEF NextN43, Numbered
    <3>3. Counted'
      BY <1>1, <1>3, <3>1, SMT DEF Counted
    <3> QED
      BY <3>2, <3>3
  <2> QED
    BY <2>1, <2>2, <2>3 DEF NextRow
<1>7. Followed'
  <2>1. v \in CPU => rems = LanesOf(n59)
    BY <1>1 DEF IInv, Followed, Walking
  <2> QED
    BY <1>1, <2>1 DEF Followed
<1>8. Shifted'
  BY <1>1 DEF IInv, Shifted, maxshift
<1> QED
  BY <1>2, <1>6, <1>7, <1>8 DEF IInv

LEMMA NextIterationIInv == IInv /\ NextIteration => IInv'
<1> SUFFICES ASSUME IInv, NextIteration PROVE IInv'
  OBVIOUS
<1>1. /\ v' = v /\ start' = start /\ rems' = rems /\ n59' = n59 /\ q' = q /\ vec' = vec /\ ok' = ok
      /\ SHIFT' = NextSHIFT(v, SHIFT) /\ pc = "advance"
      /\ pc' = (IF SHIFT' < maxshift THEN "begin" ELSE "done")
  BY DEF NextIteration, tables
<1>2. pc' = "begin" \/ pc' = "done"
  BY <1>1
<1>3. Sampled' /\ Left' /\ Reported' /\ Filled' /\ Cleared' /\ Counted' /\ Numbered'
  BY <1>1, <1>2 DEF NextIteration, IInv, Sampled, Left, Reported, Filled, Cleared, Counted, Numbered
<1>4. Followed'
  <2>1. v \in CPU => rems = LanesOf(n59)
    BY <1>1 DEF IInv, Followed, Walking
  <2> QED
    BY <1>1, <2>1 DEF Followed
<1>5. Shifted'
  <2>1. v \in CPU \cup Kernel /\ start.startSHIFT \in 0 .. INT_MAX - 1280
    BY PositionIs DEF IInv, Sampled
  <2>2. SHIFT \in Nat /\ start.startSHIFT <= SHIFT
    BY DEF IInv, Shifted
  <2>3. SHIFT' \in {SHIFT + 64, SHIFT + 128, SHIFT + 256, SHIFT + 640}
    BY <1>1, <2>1, <2>2, NextSHIFTIs
  <2>4. SHIFT' \in Nat /\ start.startSHIFT <= SHIFT'
    <3>1. start.startSHIFT \in Int
      BY <2>1, IntMaxIs, SMT
    <3> QED
      BY <2>2, <2>3, <3>1, SMT
  <2>5. pc' # "done" => SHIFT' < maxshift
    BY <1>1
  <2> QED
    BY <1>1, <2>4, <2>5 DEF Shifted, maxshift
<1> QED
  BY <1>3, <1>4, <1>5 DEF IInv

LEMMA NextIInv == IInv /\ [Next]_vars => IInv'
<1> SUFFICES ASSUME IInv, [Next]_vars PROVE IInv'
  OBVIOUS
<1>1. CASE Prepare
  BY <1>1, PrepareIInv
<1>2. CASE Begin
  BY <1>2, BeginIInv
<1>3. CASE Row35
  BY <1>3, Row35IInv
<1>4. CASE Look
  BY <1>4, LookIInv
<1>5. CASE Check
  BY <1>5, CheckIInv
<1>6. CASE NextN59
  BY <1>6, NextN59IInv
<1>7. CASE NextRow
  BY <1>7, NextRowIInv
<1>8. CASE NextIteration
  BY <1>8, NextIterationIInv
<1>9. CASE UNCHANGED vars
  BY <1>9 DEF vars, tables, IInv, Sampled, Counted, Numbered, Filled, Cleared, Followed, Walking,
     Shifted, maxshift, Left, Reported
<1> QED
  BY <1>1, <1>2, <1>3, <1>4, <1>5, <1>6, <1>7, <1>8, <1>9 DEF Next, Done

LEMMA SpecIInv == Spec => []IInv
<1>1. Init => IInv
  BY InitIInv
<1>2. IInv /\ [Next]_vars => IInv'
  BY NextIInv
<1> QED
  BY <1>1, <1>2, PTL DEF Spec


-----------------------------------------------------------------------------
\* The theorems of the specification.

\* Every variable keeps to what its type in the code can hold, in every variant
\* and from every position: the numbers n43 to n59 are below MOD, MAKE_OK writes
\* and the look-ups read inside their tables, and no iteration leaves its range.
THEOREM TypeCorrect == Spec => []TypeOK
<1>1. IInv => TypeOK
  <2> SUFFICES ASSUME IInv PROVE TypeOK
    OBVIOUS
  <2>1. \A n \in {n43, n47, n53, n59} : n \in UInt64 /\ ~AtLeast(n, MOD)
    <3>1. ASSUME NEW n \in {n43, n47, n53, n59}
          PROVE  n \in UInt64 /\ ~AtLeast(n, MOD)
      <4>1. Below(n)
        BY <3>1 DEF IInv, Numbered
      <4> QED
        BY <4>1, BelowIs DEF Below
    <3> QED
      BY <3>1
  <2>2. ASSUME v \in CPU
        PROVE  /\ \A P \in DOMAIN ok : ok[P] \subseteq 0 .. OKLength[P] - 1
               /\ \A l \in DOMAIN rems : rems[l] \in 0 .. OKOKLength(v)[Lanes[l]] - 1
    <3>1. CASE rems = <<>>
      <4>1. DOMAIN rems = {}
        BY <3>1, SMT
      <4> QED
        BY <2>2, <4>1 DEF IInv, Cleared
    <3>2. CASE rems = LanesOf(n59)
      <4>1. DOMAIN rems = 1 .. 16
        BY <3>2 DEF LanesOf
      <4>2. n59 \in UInt64
        BY DEF IInv, Numbered, Below
      <4>3. \A l \in DOMAIN rems : rems[l] \in 0 .. OKOKLength(v)[Lanes[l]] - 1
        BY <2>2, <3>2, <4>1, <4>2, LanesInTables
      <4> QED
        BY <2>2, <4>3 DEF IInv, Cleared
    <3> QED
      BY <2>2, <3>1, <3>2 DEF IInv, Followed
  <2>3. \A i \in DOMAIN report : report[i] \in UInt64
    <3>1. report \in Seq(UInt64)
      BY DEF IInv, Reported
    <3> QED
      BY <3>1, SMT
  <2> QED
    BY <2>1, <2>2, <2>3 DEF IInv, Sampled, Counted, Left, TypeOK
<1> QED
  BY <1>1, SpecIInv, PTL

\* The vector lanes, which are never computed afresh in a row of 35, the REM
\* macro and the kernels' 32-bit remainder give n59 modulo their primes wherever
\* the walk looks up: from every K, entry and position, in all eleven variants.
THEOREM RowsAreExact == Spec => []RowsExact
<1>1. IInv => RowsExact
  <2> SUFFICES ASSUME IInv, pc = "look"
               PROVE  IF v \in Kernel
                      THEN \A p \in PrimesIn(61, 541) : Residue(n59, p) = Rem(n59, p)
                      ELSE /\ \A l \in 1 .. 16 : rems[l] = Rem(n59, Lanes[l])
                           /\ \A p \in PrimesIn(139, 277) :
                                REM(n59, p, IF p < 257 THEN 8 ELSE 9) = Rem(n59, p)
    BY DEF RowsExact
  <2>1. Below(n59) /\ n59 \in UInt64
    BY DEF IInv, Numbered, Below
  <2>2. \A p \in PrimesIn(61, 541) : Residue(n59, p) = Rem(n59, p)
    BY <2>1, ResidueIs
  <2>3. ASSUME v \notin Kernel, NEW l \in 1 .. 16
        PROVE  rems[l] = Rem(n59, Lanes[l])
    <3>1. v \in CPU
      BY <2>3, PositionIs DEF IInv, Sampled
    <3>2. rems[l] = Val(n59) % Lanes[l]
      BY <3>1 DEF IInv, Followed, Walking, LanesOf
    <3>3. Lanes[l] \in Nat \ {0}
      BY LanesAre
    <3> QED
      BY <2>1, <3>2, <3>3, RemIs
  <2>4. ASSUME NEW p \in PrimesIn(139, 277)
        PROVE  REM(n59, p, IF p < 257 THEN 8 ELSE 9) = Rem(n59, p)
    <3> DEFINE S == IF p < 257 THEN 8 ELSE 9
    <3>1. p \in PrimesIn(61, 277) /\ S \in 6 .. 9
      BY SMT DEF PrimesIn, Primes
    <3>2. p <= 2 ^ S
      <4>1. p \in Int /\ p <= 277
        BY SMT DEF PrimesIn, Primes
      <4>2. CASE p < 257
        BY <4>1, <4>2, SMT
      <4>3. CASE ~(p < 257)
        BY <4>1, <4>3, SMT
      <4> QED
        BY <4>2, <4>3
    <3> HIDE DEF S
    <3>3. REM(n59, p, S) = Rem(n59, p)
      BY <2>1, <3>1, <3>2, REMIs
    <3> QED
      BY <3>3 DEF S
  <2> QED
    BY <2>2, <2>3, <2>4
<1> QED
  BY <1>1, SpecIInv, PTL


-----------------------------------------------------------------------------
\* The cells of the tables and the windows.

\* The cell that holds whether P divides a term of the window, at shift s of a residue j.
Spot(j, s, P) == (j + (s % P) * MODrem[P]) % P

\* The shift s of n has no term divisible by P in its window of 24.
Clean(n, s, P) == Open(Spot(Rem(n, P), s, P), P)

\* Every candidate of the range is a word.
Fitting == (start.startSHIFT + 640) * Modulus <= W

\* Hundred numbers below MOD add up in a word.
LEMMA HundredIs == 100 * Modulus < W /\ Modulus \in Nat \ {0} /\ W \in Nat
<1> DEFINE m == Modulus
<1>1. m * Top < W /\ W \in Nat /\ Top \in Nat /\ 100 <= Top /\ m \in Nat \ {0}
  BY ModulusIs, Sizes, SMT DEF Divisor, Top
<1> HIDE DEF m
<1>2. m * 100 <= m * Top /\ m * 100 \in Nat /\ m * Top \in Nat
  BY <1>1, SMT
<1>3. 100 * m < W
  BY <1>1, <1>2, SMT
<1> QED
  BY <1>1, <1>3 DEF m

\* The shifts of the range leave every candidate in a word.
InWord(s) == s \in 0 .. INT_MAX /\ (s + 1) * Modulus <= W
LEMMA CandidateIs ==
  ASSUME NEW n, Below(n), NEW s, InWord(s)
  PROVE  /\ Candidate(n, s) \in UInt64 /\ Val(Candidate(n, s)) = Val(n) + s * Modulus
         /\ Val(n) \in Nat /\ Val(n) < Modulus /\ s \in Nat
<1> DEFINE x == Val(n)
           m == Modulus
           i == INT_MAX
           w == W
<1>1. /\ n \in UInt64 /\ x \in Nat /\ x < m /\ m \in Nat \ {0} /\ w \in Nat /\ i \in Nat
      /\ MOD \in UInt64 /\ Val(MOD) = m
  BY Words, HundredIs, ModulusIs, IntMaxIs DEF Below
<1>2. s \in 0 .. i /\ (s + 1) * m <= w
  BY DEF InWord
<1>3. Small(s) \in UInt64 /\ Val(Small(s)) = s
  BY <1>2, IntIs
<1> HIDE DEF x, m, i, w
<1>4. s \in Nat
  BY <1>1, <1>2, SMT
<1>5. s * m \in Nat /\ (s + 1) * m = s * m + m
  BY <1>1, <1>4, SMT
<1> DEFINE y == s * m
<1>6. y \in Nat /\ y + m <= w
  BY <1>2, <1>5
<1> HIDE DEF y
<1>7. y < w /\ x + y < w
  BY <1>1, <1>6, SMT
<1>8. Times(Small(s), MOD) \in UInt64 /\ Val(Times(Small(s), MOD)) = y
  BY <1>1, <1>3, <1>7, TimesExact DEF y, w
<1>9. /\ Plus(n, Times(Small(s), MOD)) \in UInt64
      /\ Val(Plus(n, Times(Small(s), MOD))) = x + y
  BY <1>1, <1>7, <1>8, PlusExact DEF x, w
<1> QED
  BY <1>1, <1>4, <1>9 DEF Candidate, x, y, m

\* The cell of a shift is the candidate modulo the prime.
LEMMA RowOfCandidate ==
  ASSUME NEW n, Below(n), NEW s, InWord(s), NEW p \in Primes
  PROVE  Spot(Rem(n, p), s, p) = Rem(Candidate(n, s), p) /\ Rem(Candidate(n, s), p) \in 0 .. p - 1
<1> DEFINE x == Val(n)
           m == Modulus
           c == Candidate(n, s)
           a == x % p
           b == s % p
           d == m % p
<1>1. /\ c \in UInt64 /\ Val(c) = x + s * m /\ x \in Nat /\ s \in Nat /\ n \in UInt64
      /\ m \in Nat /\ MOD \in UInt64 /\ Val(MOD) = m
  BY CandidateIs, ModulusIs DEF Below
<1>2. p \in Nat \ {0}
  BY SMT DEF Primes
<1>3. Rem(n, p) = a /\ Rem(MOD, p) = d /\ Rem(c, p) = Val(c) % p /\ Rem(c, p) \in 0 .. p - 1
  BY <1>1, <1>2, RemIs
<1>4. MODrem[p] = d
  BY <1>3 DEF MODrem
<1>5. Spot(Rem(n, p), s, p) = (a + b * d) % p
  BY <1>3, <1>4 DEF Spot
<1>6. x \in Int /\ s \in Int /\ m \in Int /\ p \in Int
  BY <1>1, <1>2, SMT
<1> HIDE DEF x, m, c
<1>7. /\ a \in 0 .. p - 1 /\ b \in 0 .. p - 1 /\ d \in 0 .. p - 1
      /\ Congruent(a, x, p) /\ Congruent(b, s, p) /\ Congruent(d, m, p)
  BY <1>2, <1>6, CongruentRemainder
<1> HIDE DEF a, b, d
<1>8. a \in Int /\ b \in Int /\ d \in Int
  BY <1>7, SMT
<1>9. b * d \in Int /\ s * m \in Int /\ Congruent(b * d, s * m, p)
  BY <1>6, <1>7, <1>8, CongruentProduct
<1>10. Congruent(a + b * d, x + s * m, p) /\ a + b * d \in Int /\ x + s * m \in Int
  BY <1>6, <1>7, <1>8, <1>9, CongruentSum
<1> DEFINE y == a + b * d
           z == x + s * m
<1>11. y \in Int /\ z \in Int /\ Congruent(y, z, p)
  BY <1>10
<1> HIDE DEF y, z
<1>12. y % p = z % p
  BY <1>2, <1>11, SameRemainder
<1> QED
  BY <1>1, <1>3, <1>5, <1>12 DEF y, z, c


\* Clearing (j*S)%P for the last 24 j clears the x with a term x + t*S divisible by P.
LEMMA WindowIs ==
  ASSUME NEW P \in Nat \ {0}, NEW S \in Int, NEW x \in 0 .. P - 1
  PROVE  x \in {(j * S) % P : j \in P - 23 .. P} <=> \E t \in 0 .. 23 : (x + t * S) % P = 0
<1>1. ASSUME NEW t \in 0 .. 23
      PROVE  x = ((P - t) * S) % P <=> (x + t * S) % P = 0
  <2> DEFINE j == P - t
             a == j * S
             b == t * S
  <2>1. a \in Int /\ b \in Int /\ x \in Int /\ a + b = P * S /\ P * S \in Int
    <3>1. t \in Int /\ j \in Int /\ x \in Int
      BY SMT
    <3>2. (P - t) * S + t * S = P * S /\ (P - t) * S \in Int /\ t * S \in Int /\ P * S \in Int
      BY <3>1, SMT
    <3> QED
      BY <3>1, <3>2
  <2> HIDE DEF a, b
  <2>2. Congruent(P * S, 0, P)
    <3>1. P * S - 0 = P * S
      BY <2>1, SMT
    <3> QED
      BY <3>1 DEF Congruent
  <2>3. x = a % P <=> Congruent(x, a, P)
    <3>1. a % P \in 0 .. P - 1 /\ Congruent(a % P, a, P) /\ a % P \in Int
      <4>1. a % P \in 0 .. P - 1 /\ Congruent(a % P, a, P)
        BY <2>1, CongruentRemainder
      <4> QED
        BY <4>1, SMT
    <3>2. ASSUME Congruent(x, a, P) PROVE x = a % P
      <4>1. Congruent(a, a % P, P)
        BY <2>1, <3>1, CongruentSym
      <4>2. Congruent(x, a % P, P)
        BY <2>1, <3>1, <3>2, <4>1, CongruentTrans
      <4> QED
        BY <3>1, <4>2, CongruentUnique
    <3> QED
      BY <3>1, <3>2
  <2>4. (x + b) % P = 0 <=> Congruent(x + b, 0, P)
    <3>1. x + b \in Int /\ 0 \in Nat /\ 0 < P /\ 0 \in Int
      BY <2>1, SMT
    <3>2. Congruent(x + b, 0, P) => (x + b) % P = 0
      BY <3>1, RemainderOf
    <3>3. Congruent((x + b) % P, x + b, P) /\ (x + b) % P \in Int
      <4>1. Congruent((x + b) % P, x + b, P) /\ (x + b) % P \in 0 .. P - 1
        BY <3>1, CongruentRemainder
      <4> QED
        BY <4>1, SMT
    <3>4. (x + b) % P = 0 => Congruent(x + b, 0, P)
      BY <3>1, <3>3, CongruentSym
    <3> QED
      BY <3>2, <3>4
  <2>5. Congruent(x, a, P) <=> Congruent(x + b, 0, P)
    <3>1. Congruent(b, b, P) /\ 0 \in Int /\ x + b \in Int /\ a + b \in Int
      BY <2>1, CongruentSelf
    <3>2. Congruent(x, a, P) => Congruent(x + b, a + b, P)
      BY <2>1, <3>1, CongruentSum
    <3>3. Congruent(x, a, P) => Congruent(x + b, 0, P)
      BY <2>1, <2>2, <3>1, <3>2, CongruentTrans
    <3>4. Congruent(0, a + b, P)
      BY <2>1, <2>2, <3>1, CongruentSym
    <3>5. Congruent(x + b, 0, P) => Congruent(x + b, a + b, P)
      BY <3>1, <3>4, CongruentTrans
    <3>6. Congruent(x + b, a + b, P) => Congruent((x + b) - b, (a + b) - b, P)
      BY <2>1, <3>1, CongruentSum
    <3>7. (x + b) - b = x /\ (a + b) - b = a
      BY <2>1, SMT
    <3> QED
      BY <3>3, <3>5, <3>6, <3>7
  <2> QED
    BY <2>3, <2>4, <2>5 DEF a, b
<1>2. ASSUME NEW j \in P - 23 .. P
      PROVE  P - j \in 0 .. 23 /\ j = P - (P - j)
  BY <1>2, SMT
<1>3. ASSUME NEW t \in 0 .. 23
      PROVE  P - t \in P - 23 .. P
  BY <1>3, SMT
<1>4. ASSUME NEW j \in P - 23 .. P, x = (j * S) % P
      PROVE  \E t \in 0 .. 23 : (x + t * S) % P = 0
  <2> DEFINE t == P - j
  <2>1. t \in 0 .. 23 /\ j = P - t
    BY <1>2
  <2> HIDE DEF t
  <2>2. x = ((P - t) * S) % P
    BY <1>4, <2>1
  <2> QED
    BY <1>1, <2>1, <2>2
<1>5. ASSUME NEW t \in 0 .. 23, (x + t * S) % P = 0
      PROVE  \E j \in P - 23 .. P : x = (j * S) % P
  BY <1>1, <1>3, <1>5
<1> QED
  BY <1>4, <1>5

\* What the definition the code is compared with says of a prime of the tables.
LEMMA OpenIs ==
  ASSUME <<v, start>> \in Samples, NEW P \in PrimesIn(61, 541), NEW x \in 0 .. P - 1
  PROVE  Open(x, P) <=> x \notin MakeOK_sse2(P, Times(Small(start.K), PRIM23))
<1> DEFINE S == Rem(Times(Small(start.K), PRIM23), P)
<1>1. P \in Nat \ {0} /\ P \in PrimesIn(7, 541)
  BY SMT DEF PrimesIn, Primes
<1>2. S \in Int
  <2>1. Times(Small(start.K), PRIM23) \in UInt64
    BY PositionIs, IntIs, ConstantsAre, TimesIs
  <2>2. S \in 0 .. P - 1
    BY <1>1, <2>1, RemIs
  <2> QED
    BY <1>1, <2>2, SMT
<1>3. OpenResidues[start.K][P]
        = {y \in 0 .. P - 1 : \A t \in 0 .. 23 : (y + t * S) % P # 0}
  <2>1. <<v, start>>[2].K = start.K
    OBVIOUS
  <2>2. start.K \in {s[2].K : s \in Samples}
    BY <2>1, Zenon
  <2> QED
    BY <1>1, <2>2, Zenon DEF OpenResidues
<1>4. MakeOK_sse2(P, Times(Small(start.K), PRIM23)) = {(j * S) % P : j \in P - 23 .. P}
  BY DEF MakeOK_sse2
<1> HIDE DEF S
<1>5. x \in {(j * S) % P : j \in P - 23 .. P} <=> \E t \in 0 .. 23 : (x + t * S) % P = 0
  BY <1>1, <1>2, WindowIs
<1>6. Open(x, P) <=> \A t \in 0 .. 23 : (x + t * S) % P # 0
  BY <1>3, Zenon DEF Open
<1> QED
  BY <1>4, <1>5, <1>6

\* A cell is an index of its table.
LEMMA SpotIs ==
  ASSUME NEW j \in Int, NEW s \in Nat, NEW P \in Primes
  PROVE  Spot(j, s, P) \in 0 .. P - 1 /\ Congruent(Spot(j, s, P), j + s * MODrem[P], P)
<1> DEFINE b == s % P
           c == MODrem[P]
<1>1. P \in Nat \ {0} /\ s \in Int
  BY SMT DEF Primes
<1>2. c \in Int
  <2>1. Rem(MOD, P) \in 0 .. P - 1
    BY <1>1, ModulusIs, RemIs
  <2> QED
    BY <1>1, <2>1 DEF MODrem
<1>3. b \in Int /\ Congruent(b, s, P)
  BY <1>1, CongruentRemainder
<1> HIDE DEF b, c
<1>4. b * c \in Int /\ s * c \in Int /\ P \in Int
  BY <1>1, <1>2, <1>3, SMT
<1>5. Congruent(b * c, s * c, P)
  BY <1>1, <1>2, <1>3, <1>4, CongruentProduct, CongruentSelf
<1> DEFINE x == b * c
           y == s * c
<1> HIDE DEF x, y
<1>6. Congruent(j + x, j + y, P) /\ j + x \in Int /\ j + y \in Int
  <2>1. x \in Int /\ y \in Int /\ Congruent(x, y, P)
    BY <1>4, <1>5 DEF x, y
  <2>2. Congruent(j, j, P)
    BY <1>4, CongruentSelf
  <2> QED
    BY <1>4, <2>1, <2>2, CongruentSum
<1>7. (j + x) % P \in 0 .. P - 1 /\ Congruent((j + x) % P, j + x, P)
  BY <1>1, <1>6, CongruentRemainder
<1>8. Congruent((j + x) % P, j + y, P)
  <2>1. (j + x) % P \in Int
    BY <1>1, <1>7, SMT
  <2> QED
    BY <1>4, <1>6, <1>7, <2>1, CongruentTrans
<1> QED
  BY <1>7, <1>8 DEF Spot, b, c, x, y

\* Up to LastShift the row of every residue is a word, and beyond it none is.
LEMMA LastShiftIs == 540 + LastShift * Modulus < W /\ W <= (LastShift + 1) * Modulus
  BY SMT DEF LastShift, Modulus, Decimal, Million, W, B, Top

\* Where the shift leaves candidates in a word, so does the product of a row.
LEMMA RowIs ==
  ASSUME NEW P \in Primes, NEW j \in 0 .. P - 1, NEW s, InWord(s)
  PROVE  Row(j, s, P) = Spot(j, s, P) /\ Spot(j, s, P) \in 0 .. P - 1
<1>1. P \in Nat \ {0} /\ j \in Nat /\ j <= 540
  BY SMT DEF Primes
<1>2. 540 < Modulus
  BY SMT DEF Modulus, Decimal, Million
<1>3. Small(j) \in UInt64 /\ Val(Small(j)) = j
  <2>1. j \in 0 .. INT_MAX
    BY <1>1, IntMaxIs, SMT
  <2> QED
    BY <2>1, IntIs
<1>4. Modulus \in Nat
  BY HundredIs
<1> HIDE DEF Modulus
<1>5. Below(Small(j))
  BY <1>1, <1>2, <1>3, <1>4 DEF Below
<1>6. Spot(Rem(Small(j), P), s, P) = Rem(Candidate(Small(j), s), P)
  BY <1>5, RowOfCandidate
<1>7. Rem(Small(j), P) = j
  <2>1. Rem(Small(j), P) = j % P
    BY <1>1, <1>3, RemIs
  <2>2. j % P = j
    BY <1>1, SMT
  <2> QED
    BY <2>1, <2>2
<1>8. Row(j, s, P) = IF s <= LastShift THEN Spot(j, s, P) ELSE Rem(Candidate(Small(j), s), P)
  BY DEF Row, Candidate, Spot
<1>9. Spot(j, s, P) \in 0 .. P - 1
  <2>1. s \in Nat /\ j \in Int
    BY <1>1, <1>5, CandidateIs
  <2> QED
    BY <2>1, SpotIs
<1> QED
  BY <1>6, <1>7, <1>8, <1>9

\* The cell b bits on, for a thread that goes on by MOD % P.
LEMMA StrideIs ==
  ASSUME NEW P \in Primes, NEW j \in 0 .. P - 1, NEW s \in Nat, NEW b \in Nat
  PROVE  (Spot(j, s, P) + b * MODrem[P]) % P = Spot(j, s + b, P)
<1> DEFINE c == MODrem[P]
           x == Spot(j, s, P)
           y == Spot(j, s + b, P)
<1>1. P \in Nat \ {0} /\ P \in Int /\ j \in Int /\ s + b \in Nat
  BY SMT DEF Primes
<1>2. c \in Int
  <2>1. Rem(MOD, P) \in 0 .. P - 1
    BY <1>1, ModulusIs, RemIs
  <2> QED
    BY <1>1, <2>1 DEF MODrem
<1>3. x \in 0 .. P - 1 /\ Congruent(x, j + s * c, P) /\ y \in 0 .. P - 1 /\ Congruent(y, j + (s + b) * c, P)
  BY <1>1, SpotIs
<1> HIDE DEF c, x, y
<1>4. /\ x \in Int /\ y \in Int /\ b * c \in Int /\ j + s * c \in Int /\ x + b * c \in Int
      /\ j + (s + b) * c \in Int /\ (j + s * c) + b * c = j + (s + b) * c
  BY <1>1, <1>2, <1>3, SMT
<1>5. Congruent(x + b * c, (j + s * c) + b * c, P)
  <2>1. Congruent(b * c, b * c, P)
    BY <1>1, <1>4, CongruentSelf
  <2> HIDE DEF c
  <2> QED
    BY <1>1, <1>3, <1>4, <2>1, CongruentSum
<1>6. Congruent(j + (s + b) * c, y, P)
  BY <1>1, <1>3, <1>4, CongruentSym
<1>7. Congruent(x + b * c, y, P)
  BY <1>1, <1>4, <1>5, <1>6, CongruentTrans
<1>8. (x + b * c) % P = y % P
  BY <1>1, <1>4, <1>7, SameRemainder
<1>9. y % P = y
  BY <1>1, <1>3, SMT
<1> QED
  BY <1>8, <1>9 DEF c, x, y

\* The shifts of the range.
LEMMA ShiftFits ==
  ASSUME <<v, start>> \in Samples, Fitting, NEW s \in Nat, s < maxshift
  PROVE  InWord(s)
<1> DEFINE a == start.startSHIFT
           m == Modulus
<1>1. a \in 0 .. INT_MAX - 1280 /\ INT_MAX \in Nat /\ (a + 640) * m <= W /\ m \in Nat /\ W \in Nat
  BY PositionIs, IntMaxIs, HundredIs DEF Fitting
<1>2. s < a + 640
  BY DEF maxshift
<1> HIDE DEF a, m
<1>3. a \in Nat /\ s + 1 <= a + 640 /\ s \in 0 .. INT_MAX
  BY <1>1, <1>2, SMT
<1>4. (s + 1) * m <= (a + 640) * m /\ (s + 1) * m \in Nat /\ (a + 640) * m \in Nat
  BY <1>1, <1>3, SMT
<1>5. (s + 1) * m <= W
  BY <1>1, <1>4, SMT
<1> QED
  BY <1>3, <1>5 DEF InWord, m

-----------------------------------------------------------------------------
\* The flat arrays of the kernels.

\* Every block begins where the one before it ends.
LEMMA OffsetsAre ==
  /\ \A i \in 1 .. 83 : offsets[i] \in Nat /\ g_primes[i] \in Nat
  /\ \A i \in 1 .. 82 : offsets[i + 1] = offsets[i] + g_primes[i]
<1>1. \A i \in 1 .. 83 : offsets[i] \in Nat /\ g_primes[i] \in Nat
  BY SMTT(60) DEF offsets, g_primes
<1>2. \A i \in 1 .. 82 : offsets[i + 1] = offsets[i] + g_primes[i]
  BY SMTT(60) DEF offsets, g_primes
<1> QED
  BY <1>1, <1>2

\* So the blocks do not overlap.
LEMMA BlocksApart ==
  ASSUME NEW i \in 1 .. 83, NEW j \in 1 .. 83, i < j
  PROVE  offsets[i] + g_primes[i] <= offsets[j]
<1> DEFINE S == {d \in Nat : i + 1 + d <= 83 => offsets[i] + g_primes[i] <= offsets[i + 1 + d]}
<1>1. offsets[i] \in Nat /\ g_primes[i] \in Nat
  BY OffsetsAre
<1>2. 0 \in S
  <2>1. i + 1 + 0 = i + 1
    BY SMT
  <2>2. CASE i + 1 <= 83
    <3>1. i \in 1 .. 82
      BY <2>2, SMT
    <3>2. offsets[i + 1] = offsets[i] + g_primes[i]
      BY <3>1, OffsetsAre
    <3>3. offsets[i] + g_primes[i] <= offsets[i + 1]
      BY <1>1, <3>2, SMT
    <3> QED
      BY <2>1, <3>3
  <2>3. CASE ~(i + 1 <= 83)
    BY <2>1, <2>3
  <2> QED
    BY <2>2, <2>3
<1>3. ASSUME NEW d \in Nat, d \in S
      PROVE  d + 1 \in S
  <2> SUFFICES ASSUME i + 1 + (d + 1) <= 83
               PROVE  offsets[i] + g_primes[i] <= offsets[i + 1 + (d + 1)]
    BY SMT
  <2> DEFINE k == i + 1 + d
  <2>1. k \in 1 .. 82 /\ k \in 1 .. 83 /\ k + 1 = i + 1 + (d + 1) /\ k <= 83
    BY SMT
  <2>2. offsets[i] + g_primes[i] <= offsets[k]
    BY <1>3, <2>1
  <2> HIDE DEF k
  <2>3. offsets[k + 1] = offsets[k] + g_primes[k] /\ offsets[k] \in Nat /\ g_primes[k] \in Nat
    BY <2>1, OffsetsAre
  <2>4. offsets[i] + g_primes[i] <= offsets[k + 1]
    BY <1>1, <2>2, <2>3, SMT
  <2> QED
    BY <2>1, <2>4
<1> HIDE DEF S
<1>4. Nat \subseteq S
  BY <1>2, <1>3, SetInduction
<1> DEFINE d == j - i - 1
<1>5. d \in Nat /\ i + 1 + d = j
  BY SMT
<1>6. d \in S
  BY <1>4, <1>5
<1> HIDE DEF d
<1>7. offsets[i] + g_primes[i] <= offsets[i + 1 + d]
  BY <1>5, <1>6, SMT DEF S
<1> QED
  BY <1>5, <1>7

LEMMA OffsetIs ==
  ASSUME NEW P \in PrimesIn(61, 541)
  PROVE  /\ offset_cuda[P] = offsets[NumberOf[P]] /\ offset_cuda[P] \in Nat
         /\ P \in Nat \ {0}
<1>1. NumberOf[P] \in 1 .. 83
  BY NumberIs
<1>2. offset_cuda[P] = offsets[NumberOf[P]]
  BY Zenon DEF offset_cuda
<1>3. P \in Nat \ {0}
  BY SMT DEF PrimesIn, Primes
<1> QED
  BY <1>1, <1>2, <1>3, OffsetsAre

\* A cell of a block is cleared when the prime's own table has it cleared.
LEMMA ClearedIs ==
  ASSUME NEW STEP \in UInt64, NEW P \in PrimesIn(61, 541), NEW x \in 0 .. P - 1
  PROVE  x + offset_cuda[P] \in Cleared_cuda(STEP) <=> x \in MakeOK_sse2(P, STEP)
<1> DEFINE Cells(Q) == {((i * Rem(STEP, Q)) % Q) + offset_cuda[Q] : i \in Q - 23 .. Q}
<1>1. Cleared_cuda(STEP) = UNION {Cells(Q) : Q \in PrimesIn(61, 541)}
  BY DEF Cleared_cuda
<1>2. ASSUME NEW Q \in PrimesIn(61, 541), NEW i \in Q - 23 .. Q
      PROVE  (i * Rem(STEP, Q)) % Q \in 0 .. Q - 1
  <2>1. Q \in Nat \ {0}
    BY OffsetIs
  <2>2. Rem(STEP, Q) \in 0 .. Q - 1
    BY <2>1, RemIs
  <2>3. i * Rem(STEP, Q) \in Int
    <3> DEFINE r == Rem(STEP, Q)
    <3>1. r \in Int /\ i \in Int
      BY <2>1, <2>2, SMT
    <3> HIDE DEF r
    <3> QED
      BY <3>1, SMT DEF r
  <2> QED
    BY <2>1, <2>3, Division
<1>3. ASSUME NEW Q \in PrimesIn(61, 541), NEW y \in 0 .. Q - 1,
             x + offset_cuda[P] = y + offset_cuda[Q]
      PROVE  Q = P /\ y = x
  <2> DEFINE i == NumberOf[P]
             j == NumberOf[Q]
  <2>1. i \in 1 .. 83 /\ j \in 1 .. 83 /\ g_primes[i] = P /\ g_primes[j] = Q
    BY NumberIs
  <2>2. /\ offset_cuda[P] = offsets[i] /\ offset_cuda[Q] = offsets[j]
        /\ offsets[i] \in Nat /\ offsets[j] \in Nat /\ P \in Nat /\ Q \in Nat
    BY OffsetIs
  <2> HIDE DEF i, j
  <2>3. CASE i < j
    <3>1. offsets[i] + g_primes[i] <= offsets[j]
      <4>1. i \in 1 .. 83 /\ j \in 1 .. 83
        BY <2>1
      <4> QED
        BY <2>3, <4>1, BlocksApart, Zenon
    <3>2. offsets[i] + P <= offsets[j]
      BY <2>1, <3>1
    <3> QED
      BY <1>3, <2>2, <3>2, SMT
  <2>4. CASE j < i
    <3>1. offsets[j] + g_primes[j] <= offsets[i]
      <4>1. i \in 1 .. 83 /\ j \in 1 .. 83
        BY <2>1
      <4> QED
        BY <2>4, <4>1, BlocksApart, Zenon
    <3>2. offsets[j] + Q <= offsets[i]
      BY <2>1, <3>1
    <3> QED
      BY <1>3, <2>2, <3>2, SMT
  <2>5. CASE i = j
    <3>1. P = Q /\ offsets[i] = offsets[j]
      BY <2>1, <2>5
    <3>2. y = x
      BY <1>3, <2>2, <3>1, SMT
    <3> QED
      BY <3>1, <3>2
  <2> QED
    BY <2>1, <2>3, <2>4, <2>5, SMT
<1>4. ASSUME x \in MakeOK_sse2(P, STEP)
      PROVE  x + offset_cuda[P] \in Cleared_cuda(STEP)
  <2>1. x + offset_cuda[P] \in Cells(P)
    BY <1>4 DEF MakeOK_sse2
  <2> QED
    BY <1>1, <2>1
<1>5. ASSUME x + offset_cuda[P] \in Cleared_cuda(STEP)
      PROVE  x \in MakeOK_sse2(P, STEP)
  <2>1. PICK Q \in PrimesIn(61, 541) : x + offset_cuda[P] \in Cells(Q)
    BY <1>1, <1>5
  <2>2. PICK i \in Q - 23 .. Q : x + offset_cuda[P] = ((i * Rem(STEP, Q)) % Q) + offset_cuda[Q]
    BY <2>1
  <2>3. (i * Rem(STEP, Q)) % Q \in 0 .. Q - 1
    BY <1>2
  <2>4. Q = P /\ (i * Rem(STEP, Q)) % Q = x
    BY <1>3, <2>2, <2>3
  <2> QED
    BY <2>4 DEF MakeOK_sse2
<1> QED
  BY <1>4, <1>5

\* Every word a kernel reads in shared memory is one its block has copied.
LEMMA CopiedIs ==
  ASSUME NEW u \in Cuda, NEW P \in PrimesIn(61, 541), NEW x \in 0 .. P - 1, ReadsLocal(u, P)
  PROVE  Copied(u, x + offset_cuda[P])
<1> DEFINE i == NumberOf[P]
           y == x + offset_cuda[P]
<1>1. i \in 1 .. 83 /\ g_primes[i] = P /\ offset_cuda[P] = offsets[i] /\ P \in Nat \ {0}
  BY NumberIs, OffsetIs
<1> HIDE DEF i
<1>2. /\ \A k \in 1 .. 83 : g_primes[k] <= 131 => offsets[k] + g_primes[k] <= 1411
      /\ \A k \in 1 .. 83 : g_primes[k] <= 191 => offsets[k] + g_primes[k] <= 3198
      /\ \A k \in 1 .. 83 : g_primes[k] <= 257 => offsets[k] + g_primes[k] <= 5898
  <2>1. \A k \in 1 .. 83 : g_primes[k] <= 131 => offsets[k] + g_primes[k] <= 1411
    BY SMTT(60) DEF g_primes, offsets
  <2>2. \A k \in 1 .. 83 : g_primes[k] <= 191 => offsets[k] + g_primes[k] <= 3198
    BY SMTT(60) DEF g_primes, offsets
  <2>3. \A k \in 1 .. 83 : g_primes[k] <= 257 => offsets[k] + g_primes[k] <= 5898
    BY SMTT(60) DEF g_primes, offsets
  <2> QED
    BY <2>1, <2>2, <2>3
<1>3. /\ P <= 131 => offsets[i] + P <= 1411
      /\ P <= 191 => offsets[i] + P <= 3198
      /\ P <= 257 => offsets[i] + P <= 5898
  BY <1>1, <1>2
<1>4. offsets[i] \in Nat
  BY <1>1, OffsetsAre
<1>5. y \in Nat /\ y < offsets[i] + P
  BY <1>1, <1>4, SMT
<1> HIDE DEF y
<1>6. CASE u = "std"
  <2>1. P <= 191
    BY <1>6, SMT DEF ReadsLocal
  <2>2. y < 3198
    BY <1>1, <1>3, <1>4, <1>5, <2>1, SMT
  <2>3. Copied(u, y)
    BY <1>6, <2>2, SMT DEF Copied
  <2> QED
    BY <2>3 DEF y
<1>9. CASE u = "ilp2"
  <2>1. P <= 191
    BY <1>9, SMT DEF ReadsLocal
  <2>2. y < 3198
    BY <1>1, <1>3, <1>4, <1>5, <2>1, SMT
  <2>3. Copied(u, y)
    BY <1>9, <2>2, SMT DEF Copied
  <2> QED
    BY <2>3 DEF y
<1>7. CASE u = "mid"
  <2>1. P <= 131
    BY <1>7, SMT DEF ReadsLocal
  <2>2. y < 1411
    BY <1>1, <1>3, <1>4, <1>5, <2>1, SMT
  <2>3. Copied(u, y)
    BY <1>7, <2>2, SMT DEF Copied
  <2> QED
    BY <2>3 DEF y
<1>8. CASE u = "nv"
  <2>1. P <= 257
    BY <1>8, SMT DEF ReadsLocal
  <2>2. y < 5898
    BY <1>1, <1>3, <1>4, <1>5, <2>1, SMT
  <2>3. \/ \E c \in {0, 1, 2, 3, 4} : y - 1024 * c \in 0 .. 1023
        \/ y - 5120 \in 0 .. 777
    BY <1>5, <2>2, SMT
  <2>4. Copied(u, y)
    BY <1>8, <2>3, SMT DEF Copied
  <2> QED
    BY <2>4 DEF y
<1> QED
  BY <1>6, <1>7, <1>8, <1>9 DEF Cuda


-----------------------------------------------------------------------------
\* What one group of look-ups leaves, in every variant.

\* The lane of a prime.
LEMMA LaneOfIs ==
  ASSUME NEW P \in PrimesIn(61, 137)
  PROVE  LaneOf[P] \in 1 .. 16 /\ Lanes[LaneOf[P]] = P
<1>1. P \in PrimesIn(61, 541) /\ P <= 137
  BY SMT DEF PrimesIn, Primes
<1>2. PICK i \in 1 .. 83 : g_primes[i] = P
  BY <1>1, PrimesListed
<1>3. \A j \in 1 .. 83 : g_primes[j] <= 137 => j <= 16 /\ Lanes[j] = g_primes[j]
  BY SMTT(60) DEF g_primes, Lanes
<1>4. i \in 1 .. 16 /\ Lanes[i] = P
  <2>1. i <= 16 /\ Lanes[i] = P
    BY <1>1, <1>2, <1>3
  <2> QED
    BY <2>1, SMT
<1>5. LaneOf[P] = CHOOSE l \in 1 .. 16 : Lanes[l] = P
  BY Zenon DEF LaneOf
<1> QED
  BY <1>4, <1>5, Zenon

\* The groups of the CPU builds.
CpuGroups == <<PrimesIn(61, 137), PrimesIn(139, 199), PrimesIn(211, 277)>>
LEMMA CpuGroupsAre ==
  ASSUME NEW u \in CPU
  PROVE  /\ Groups(u) = CpuGroups /\ Len(CpuGroups) = 3
         /\ \A h \in 1 .. 3 : CpuGroups[h] \subseteq PrimesIn(61, 277) /\ CpuGroups[h] # {}
<1>1. Groups(u) = CpuGroups
  BY OfIs DEF Groups, CPU, Groups_sse2, Groups_sse41, Groups_avx, Groups_avx2, Groups_avx512, CpuGroups
<1>2. Len(CpuGroups) = 3
  BY SMT DEF CpuGroups
<1>3. PrimesIn(61, 137) \subseteq PrimesIn(61, 277) /\ PrimesIn(139, 199) \subseteq PrimesIn(61, 277)
      /\ PrimesIn(211, 277) \subseteq PrimesIn(61, 277)
  BY SMT DEF PrimesIn, Primes
<1>4. 61 \in PrimesIn(61, 137) /\ 139 \in PrimesIn(139, 199) /\ 211 \in PrimesIn(211, 277)
  <2>1. g_primes[1] = 61 /\ g_primes[17] = 139 /\ g_primes[30] = 211
    BY SMT DEF g_primes
  <2>2. 1 \in 1 .. 83 /\ 17 \in 1 .. 83 /\ 30 \in 1 .. 83
    BY SMT
  <2>3. g_primes[1] \in PrimesIn(61, 541) /\ g_primes[17] \in PrimesIn(61, 541)
        /\ g_primes[30] \in PrimesIn(61, 541)
    BY <2>2, ListedPrime
  <2>4. 61 \in Primes /\ 139 \in Primes /\ 211 \in Primes
    BY <2>1, <2>3, SMT DEF PrimesIn
  <2> QED
    BY <2>4, SMT DEF PrimesIn
<1>5. ASSUME NEW h \in 1 .. 3
      PROVE  CpuGroups[h] \subseteq PrimesIn(61, 277) /\ CpuGroups[h] # {}
  <2>1. /\ CpuGroups[1] = PrimesIn(61, 137) /\ CpuGroups[2] = PrimesIn(139, 199)
        /\ CpuGroups[3] = PrimesIn(211, 277)
    BY SMT DEF CpuGroups
  <2>2. h = 1 \/ h = 2 \/ h = 3
    BY SMT
  <2>3. CASE h = 1
    BY <1>3, <1>4, <2>1, <2>3
  <2>4. CASE h = 2
    BY <1>3, <1>4, <2>1, <2>4
  <2>5. CASE h = 3
    BY <1>3, <1>4, <2>1, <2>5
  <2> QED
    BY <2>2, <2>3, <2>4, <2>5
<1> QED
  BY <1>1, <1>2, <1>5

\* A kernel has the groups of the standard one or those of the nv one.
LEMMA KernelGroupsAre ==
  ASSUME NEW u \in Kernel
  PROVE  Groups(u) = StdGroups \/ Groups(u) = NvGroups_cuda
<1>1. CASE u \in Cuda
  <2> DEFINE a == CASE u = "std" -> StdGroups [] u = "mid" -> MidGroups
                    [] u = "nv" -> NvGroups_cuda [] u = "ilp2" -> IlpGroups
  <2>1. Groups(u) = Of(u, Groups_sse2, Groups_sse41, Groups_avx, Groups_avx2, Groups_avx512, a,
                       IF u = "clnv" THEN NvGroups_opencl ELSE Groups_opencl)
    BY DEF Groups
  <2> HIDE DEF a
  <2>2. Groups(u) = a
    BY <1>1, <2>1, OfCuda
  <2>3. Groups(u) = CASE u = "std" -> StdGroups [] u = "mid" -> MidGroups
                      [] u = "nv" -> NvGroups_cuda [] u = "ilp2" -> IlpGroups
    BY <2>2 DEF a
  <2> QED
    BY <1>1, <2>3, SMT DEF Cuda, MidGroups, IlpGroups
<1>2. CASE u \in OpenCL
  <2>1. Groups(u) = IF u = "clnv" THEN NvGroups_opencl ELSE Groups_opencl
    BY <1>2, OfOpenCL DEF Groups
  <2> QED
    BY <2>1 DEF NvGroups_opencl, Groups_opencl
<1> QED
  BY <1>1, <1>2 DEF Kernel

\* Every prime a kernel looks up has a block in the flat arrays.
LEMMA KernelGroups ==
  ASSUME NEW u \in Kernel, NEW h \in 1 .. Len(Groups(u))
  PROVE  Groups(u)[h] \subseteq PrimesIn(61, 541)
<1>1. Groups(u) = StdGroups \/ Groups(u) = NvGroups_cuda
  BY KernelGroupsAre
<1>2. ASSUME NEW a \in Int, 61 <= a, NEW b \in Int, b <= 541
      PROVE  PrimesIn(a, b) \subseteq PrimesIn(61, 541)
  <2>1. ASSUME NEW p \in Primes, a <= p, p <= b
        PROVE  61 <= p /\ p <= 541
    <3>1. p \in Int
      BY SMT DEF Primes
    <3> QED
      BY <1>2, <2>1, <3>1, SMT
  <2> QED
    BY <2>1 DEF PrimesIn
<1>3. CASE Groups(u) = StdGroups
  <2> DEFINE s == <<PrimesIn(61, 79), PrimesIn(83, 103), PrimesIn(107, 131),
                    PrimesIn(137, 151), PrimesIn(157, 173)>>
             t == [i \in 1 .. 30 |-> {g_primes[22 + 2 * i], g_primes[23 + 2 * i]}]
             X == SUBSET PrimesIn(61, 541)
  <2>1. \A i \in 1 .. 5 : s[i] \in X
    <3>1. /\ PrimesIn(61, 79) \in X /\ PrimesIn(83, 103) \in X /\ PrimesIn(107, 131) \in X
          /\ PrimesIn(137, 151) \in X /\ PrimesIn(157, 173) \in X
      BY <1>2, SMT
    <3> HIDE DEF X
    <3> QED
      BY <3>1, SMT
  <2>2. \A i \in 1 .. 30 : t[i] \in X
    <3>1. ASSUME NEW i \in 1 .. 30
          PROVE  22 + 2 * i \in 1 .. 83 /\ 23 + 2 * i \in 1 .. 83
      BY SMT
    <3>2. ASSUME NEW i \in 1 .. 30
          PROVE  t[i] \in X
      <4>1. g_primes[22 + 2 * i] \in PrimesIn(61, 541) /\ g_primes[23 + 2 * i] \in PrimesIn(61, 541)
        BY <3>1, ListedPrime
      <4>2. t[i] = {g_primes[22 + 2 * i], g_primes[23 + 2 * i]}
        BY Zenon
      <4> HIDE DEF t
      <4> QED
        BY <4>1, <4>2
    <3> QED
      BY <3>2, Zenon
  <2>3. s \in Seq(X) /\ t \in Seq(X) /\ Len(s) = 5 /\ Len(t) = 30
    <3> HIDE DEF X
    <3>1. Len(s) = 5 /\ s = [i \in 1 .. 5 |-> s[i]]
      BY SMT
    <3>2. s \in Seq(X)
      BY <2>1, SMT
    <3>3. t \in Seq(X) /\ Len(t) = 30
      BY <2>2, SMT
    <3> QED
      BY <3>1, <3>2, <3>3
  <2> HIDE DEF s, t, X
  <2>4. s \o t \in Seq(X)
    BY <2>3, ConcatProperties
  <2>5. Groups(u) = s \o t
    BY <1>3 DEF StdGroups, s, t
  <2>6. Groups(u)[h] \in X
    BY <2>4, <2>5, SMT
  <2> QED
    BY <2>6 DEF X
<1>4. CASE Groups(u) = NvGroups_cuda
  <2>1. /\ PrimesIn(61, 257) \subseteq PrimesIn(61, 541) /\ PrimesIn(263, 307) \subseteq PrimesIn(61, 541)
        /\ PrimesIn(311, 353) \subseteq PrimesIn(61, 541) /\ PrimesIn(359, 401) \subseteq PrimesIn(61, 541)
        /\ PrimesIn(409, 449) \subseteq PrimesIn(61, 541) /\ PrimesIn(457, 499) \subseteq PrimesIn(61, 541)
        /\ PrimesIn(503, 541) \subseteq PrimesIn(61, 541)
    BY <1>2, SMT
  <2> QED
    BY <1>4, <2>1, SMT DEF NvGroups_cuda
<1> QED
  BY <1>1, <1>3, <1>4

\* The rows of a group, whichever way they are computed.
LEMMA CpuRowsAre ==
  ASSUME NEW n, Below(n), NEW r, r = LanesOf(n), NEW h \in 1 .. 3
  PROVE  (IF h = 1 THEN {<<P, r[LaneOf[P]]>> : P \in CpuGroups[1]}
          ELSE {<<P, REM(n, P, IF P < 257 THEN 8 ELSE 9)>> : P \in CpuGroups[h]})
           = {<<P, Rem(n, P)>> : P \in CpuGroups[h]}
<1>1. n \in UInt64
  BY DEF Below
<1>2. ASSUME NEW P \in CpuGroups[1]
      PROVE  r[LaneOf[P]] = Rem(n, P)
  <2>1. P \in PrimesIn(61, 137)
    BY SMT DEF CpuGroups
  <2>2. LaneOf[P] \in 1 .. 16 /\ Lanes[LaneOf[P]] = P
    BY <2>1, LaneOfIs
  <2>3. r[LaneOf[P]] = Val(n) % P
    BY <2>2, Zenon DEF LanesOf
  <2>4. P \in Nat \ {0}
    BY <2>1, SMT DEF PrimesIn, Primes
  <2> QED
    BY <1>1, <2>3, <2>4, RemIs
<1>3. ASSUME NEW P \in CpuGroups[h]
      PROVE  REM(n, P, IF P < 257 THEN 8 ELSE 9) = Rem(n, P) \/ h = 1
  <2> SUFFICES ASSUME h # 1 PROVE REM(n, P, IF P < 257 THEN 8 ELSE 9) = Rem(n, P)
    OBVIOUS
  <2> DEFINE S == IF P < 257 THEN 8 ELSE 9
  <2>1. P \in PrimesIn(61, 277) /\ S \in 6 .. 9
    <3>1. P \in PrimesIn(61, 277)
      <4>1. "sse2" \in CPU
        BY SMT DEF CPU
      <4> QED
        BY <4>1, CpuGroupsAre
    <3>2. S \in 6 .. 9
      BY SMT
    <3> QED
      BY <3>1, <3>2
  <2>2. P <= 2 ^ S
    <3>1. P \in Int /\ P <= 277
      BY <2>1, SMT DEF PrimesIn, Primes
    <3>2. CASE P < 257
      BY <3>1, <3>2, SMT
    <3>3. CASE ~(P < 257)
      BY <3>1, <3>3, SMT
    <3> QED
      BY <3>2, <3>3
  <2> HIDE DEF S
  <2>3. REM(n, P, S) = Rem(n, P)
    BY <2>1, <2>2, REMIs
  <2> QED
    BY <2>3 DEF S
<1>4. CASE h = 1
  BY <1>2, <1>4
<1>5. CASE h # 1
  <2>1. ASSUME NEW P \in CpuGroups[h]
        PROVE  REM(n, P, IF P < 257 THEN 8 ELSE 9) = Rem(n, P)
    BY <1>3, <1>5
  <2> QED
    BY <1>5, <2>1
<1> QED
  BY <1>4, <1>5

-----------------------------------------------------------------------------
\* The invariant of the look-ups.

STEPofK == Times(Small(start.K), PRIM23)

\* The OK tables are those of this K.
Made ==
  pc # "prepare" =>
    /\ v \in CPU    => ok = [P \in OKPrimes(v) |-> MakeOK(v, P, STEPofK)]
    /\ v \in Kernel => ok = Cleared_cuda(STEPofK)
\* The words of OKOK hold the bits of the launch's shift and of no other.
Held == v \in Kernel /\ (pc = "row" \/ Walking) => okok = {SHIFT}
\* An iteration begins a whole number of words into the range.
Aligned ==
  /\ \E k \in Nat : SHIFT = start.startSHIFT + 64 * k
  /\ v = "avx512" => pc = "done" \/ SHIFT = start.startSHIFT
\* The bits left are those that no group so far refuses.
Survives(b, h) == SHIFT + b < maxshift /\ \A P \in Groups(v)[h] : Clean(n59, SHIFT + b, P)
Kept ==
  /\ pc = "look"  => sito = {b \in Bits(v)[part] : \A h \in 1 .. g - 1 : Survives(b, h)}
  /\ pc = "check" => sito = {b \in Bits(v)[part] : \A h \in 1 .. g : Survives(b, h)}

\* A set bit of a word below the end of the range is below the end.
LEMMA MaskIs ==
  ASSUME IInv, Aligned, NEW b \in 0 .. 639
  PROVE  SHIFT + 64 * (b \div 64) < maxshift <=> SHIFT + b < maxshift
<1>1. PICK k \in Nat : SHIFT = start.startSHIFT + 64 * k
  BY DEF Aligned
<1>2. start.startSHIFT \in Nat
  BY PositionIs, IntMaxIs, SMT DEF IInv, Sampled
<1>3. b = 64 * (b \div 64) + (b % 64) /\ b \div 64 \in Int /\ b % 64 \in 0 .. 63
  BY SMT
<1> DEFINE d == b \div 64
           r == b % 64
<1> HIDE DEF d, r
<1>4. start.startSHIFT + 64 * k + 64 * d < start.startSHIFT + 640
        <=> start.startSHIFT + 64 * k + (64 * d + r) < start.startSHIFT + 640
  BY <1>2, <1>3, SMT DEF d, r
<1> QED
  BY <1>1, <1>3, <1>4 DEF d, r, maxshift

\* The bits of a part.
LEMMA BitIs ==
  ASSUME IInv
  PROVE  /\ Bits(v)[part] \subseteq 0 .. 639 /\ (v \in Kernel => Bits(v)[part] = 0 .. 63)
         /\ v = "avx512" => Bits(v)[part] = 0 .. 511 \/ Bits(v)[part] = 512 .. 639
<1>1. v \in CPU \cup Kernel /\ part \in 1 .. Len(Bits(v))
  BY PositionIs DEF IInv, Sampled, Left
<1>2. /\ \A p \in 1 .. Len(Bits(v)) : Bits(v)[p] \subseteq 0 .. 639
      /\ v \in Kernel => \A p \in 1 .. Len(Bits(v)) : Bits(v)[p] = 0 .. 63
      /\ v = "avx512" => Bits(v) = <<0 .. 511, 512 .. 639>>
  <2>1. \A p \in 1 .. Len(Bits(v)) : Bits(v)[p] \subseteq 0 .. 639
    <3>1. v \in CPU \cup Kernel
      BY <1>1
    <3> QED
      BY <3>1, BitsAre, Zenon
  <2>2. v \in Kernel => \A p \in 1 .. Len(Bits(v)) : Bits(v)[p] = 0 .. 63
    BY <1>1, BitsAre, Zenon
  <2>3. v = "avx512" => Bits(v) = <<0 .. 511, 512 .. 639>>
    BY <1>1, BitsAre, Zenon
  <2> QED
    BY <2>1, <2>2, <2>3
<1>3. Bits(v)[part] \subseteq 0 .. 639 /\ (v \in Kernel => Bits(v)[part] = 0 .. 63)
  BY <1>1, <1>2, Zenon
<1>4. ASSUME v = "avx512"
      PROVE  Bits(v)[part] = 0 .. 511 \/ Bits(v)[part] = 512 .. 639
  <2>1. Bits(v) = <<0 .. 511, 512 .. 639>>
    BY <1>2, <1>4
  <2>2. part \in 1 .. Len(<<0 .. 511, 512 .. 639>>)
    BY <1>1, <2>1
  <2>3. part = 1 \/ part = 2
    BY <2>2, SMT
  <2> QED
    BY <2>1, <2>3, SMT
<1> QED
  BY <1>3, <1>4

\* No bit of a launch or of AVX-512's one pass is beyond the range.
LEMMA NoneBeyond ==
  ASSUME IInv, Aligned, pc # "done", v \in Kernel \/ v = "avx512", NEW b \in Bits(v)[part]
  PROVE  SHIFT + b < maxshift
<1>1. PICK k \in Nat : SHIFT = start.startSHIFT + 64 * k
  BY DEF Aligned
<1>2. start.startSHIFT \in Nat /\ v \in CPU \cup Kernel /\ SHIFT < start.startSHIFT + 640
  BY PositionIs, IntMaxIs, SMT DEF IInv, Sampled, Shifted, maxshift
<1>3. b \in 0 .. 639 /\ (v \in Kernel => b \in 0 .. 63)
  BY BitIs
<1>4. CASE v \in Kernel
  <2>1. b \in 0 .. 63
    BY <1>3, <1>4
  <2> QED
    BY <1>1, <1>2, <2>1, SMT DEF maxshift
<1>5. CASE v = "avx512"
  <2>1. SHIFT = start.startSHIFT
    BY <1>5 DEF Aligned
  <2> QED
    BY <1>2, <1>3, <2>1, SMT DEF maxshift
<1> QED
  BY <1>4, <1>5

\* The cell a CPU table has for a shift of n59.
LEMMA CellIs ==
  ASSUME IInv, Made, pc # "prepare", v \in CPU, NEW P \in PrimesIn(61, 277), NEW s, InWord(s)
  PROVE  Row(Rem(n59, P), s, P) \notin ok[P] <=> Clean(n59, s, P)
<1>1. P \in PrimesIn(61, 541)
  BY SMT DEF PrimesIn, Primes
<1>2. OKPrimes(v) = PrimesIn(61, 541)
  BY OfIs DEF OKPrimes, Of5, CPU, OKPrimes_sse2, OKPrimes_sse41, OKPrimes_avx, OKPrimes_avx2,
     OKPrimes_avx512
<1>3. STEPofK \in UInt64 /\ n59 \in UInt64 /\ <<v, start>> \in Samples
  <2>1. <<v, start>> \in Samples
    BY DEF IInv, Sampled
  <2>2. STEPofK \in UInt64
    BY <2>1, PositionIs, IntIs, ConstantsAre, TimesIs DEF STEPofK
  <2> QED
    BY <2>1, <2>2 DEF IInv, Numbered, Below
<1>4. MakeOK(v, P, STEPofK) = MakeOK_sse2(P, STEPofK)
  BY <1>1, <1>2, <1>3, MakeOKIs
<1>5. ok[P] = MakeOK(v, P, STEPofK)
  <2>1. ok = [Q \in OKPrimes(v) |-> MakeOK(v, Q, STEPofK)]
    BY DEF Made
  <2> QED
    BY <1>1, <1>2, <2>1
<1> DEFINE x == Spot(Rem(n59, P), s, P)
<1>6. Row(Rem(n59, P), s, P) = x /\ x \in 0 .. P - 1
  <2>1. P \in Primes /\ P \in Nat \ {0}
    BY <1>1, SMT DEF PrimesIn, Primes
  <2> QED
    BY <1>3, <2>1, RemIs, RowIs
<1> HIDE DEF x
<1>7. Open(x, P) <=> x \notin MakeOK_sse2(P, STEPofK)
  BY <1>1, <1>3, <1>6, OpenIs DEF x, STEPofK
<1> QED
  BY <1>4, <1>5, <1>6, <1>7 DEF Clean, x

\* A look-up of the CPU builds keeps the bits whose shift survives the group.
LEMMA CpuLookUpIs ==
  ASSUME IInv, Made, Aligned, Fitting, pc = "look", v \in CPU, NEW b \in sito
  PROVE  b \in LookUp <=> Survives(b, g)
<1>1. Below(n59) /\ n59 \in UInt64 /\ rems = LanesOf(n59)
  BY DEF IInv, Numbered, Below, Followed, Walking
<1>2. Groups(v) = CpuGroups /\ g \in 1 .. 3
  BY CpuGroupsAre DEF IInv, Left
<1>3. sito \subseteq Bits(v)[part] /\ b \in Bits(v)[part]
  BY DEF IInv, Left
<1>4. b \in 0 .. 639
  BY <1>3, BitIs
<1>5. SHIFT \in Nat
  BY DEF IInv, Shifted
<1>6. SHIFT + b \in Nat /\ (b % 64) + SHIFT + 64 * (b \div 64) = SHIFT + b
  BY <1>4, <1>5, SMT
<1> DEFINE rs == IF g = 1 THEN {<<P, rems[LaneOf[P]]>> : P \in CpuGroups[1]}
                 ELSE {<<P, REM(n59, P, IF P < 257 THEN 8 ELSE 9)>> : P \in CpuGroups[g]}
<1>7. rs = {<<P, Rem(n59, P)>> : P \in CpuGroups[g]}
  BY <1>1, <1>2, CpuRowsAre
<1> HIDE DEF rs
<1>8. /\ CpuGroups[g] \subseteq PrimesIn(61, 277)
      /\ CpuGroups[g] # {}
  BY <1>2, CpuGroupsAre
<1>9. ASSUME SHIFT + b < maxshift
      PROVE  (\A r \in rs : Row(r[2], SHIFT + b, r[1]) \notin ok[r[1]])
               <=> \A P \in CpuGroups[g] : Clean(n59, SHIFT + b, P)
  <2>1. (\A r \in rs : Row(r[2], SHIFT + b, r[1]) \notin ok[r[1]])
          <=> \A P \in CpuGroups[g] : Row(Rem(n59, P), SHIFT + b, P) \notin ok[P]
    <3>1. \A P \in CpuGroups[g] : <<P, Rem(n59, P)>> \in rs
      BY <1>7
    <3>2. \A r \in rs : \E P \in CpuGroups[g] : r = <<P, Rem(n59, P)>>
      BY <1>7
    <3>3. ASSUME \A r \in rs : Row(r[2], SHIFT + b, r[1]) \notin ok[r[1]],
                 NEW P \in CpuGroups[g]
          PROVE  Row(Rem(n59, P), SHIFT + b, P) \notin ok[P]
      <4> DEFINE r == <<P, Rem(n59, P)>>
      <4>1. r \in rs /\ r[1] = P /\ r[2] = Rem(n59, P)
        BY <3>1
      <4> HIDE DEF r
      <4> QED
        BY <3>3, <4>1
    <3>4. ASSUME \A P \in CpuGroups[g] : Row(Rem(n59, P), SHIFT + b, P) \notin ok[P],
                 NEW r \in rs
          PROVE  Row(r[2], SHIFT + b, r[1]) \notin ok[r[1]]
      <4>1. PICK P \in CpuGroups[g] : r = <<P, Rem(n59, P)>>
        BY <3>2
      <4>2. r[1] = P /\ r[2] = Rem(n59, P)
        BY <4>1
      <4> QED
        BY <3>4, <4>2
    <3> QED
      BY <3>3, <3>4
  <2>2. ASSUME NEW P \in CpuGroups[g]
        PROVE  Row(Rem(n59, P), SHIFT + b, P) \notin ok[P] <=> Clean(n59, SHIFT + b, P)
    <3>1. InWord(SHIFT + b)
      BY <1>6, <1>9, ShiftFits DEF IInv, Sampled
    <3> QED
      BY <1>8, <3>1, CellIs
  <2> QED
    BY <2>1, <2>2
<1>10. CASE v # "avx512"
  <2> DEFINE here == SHIFT + 64 * (b \div 64) < maxshift
             left == {c \in sito : \A r \in rs :
                        /\ SHIFT + 64 * (c \div 64) < maxshift
                        /\ Row(r[2], (c % 64) + SHIFT + 64 * (c \div 64), r[1]) \notin ok[r[1]]}
  <2>1. /\ LookUp_sse2(g, sito, n59, rems, ok, SHIFT, maxshift) = left
        /\ LookUp_sse41(g, sito, n59, rems, ok, SHIFT, maxshift) = left
        /\ LookUp_avx(g, sito, n59, rems, ok, SHIFT, maxshift) = left
        /\ LookUp_avx2(g, sito, n59, rems, ok, SHIFT, maxshift) = left
    BY DEF LookUp_sse2, LookUp_sse41, LookUp_avx, LookUp_avx2, OKOK_sse2, OKOK_sse41, OKOK_avx,
       OKOK_avx2, Groups_sse2, Groups_sse41, Groups_avx, Groups_avx2, CpuGroups, rs
  <2>2. LookUp = left
    <3> HIDE DEF left
    <3> QED
      BY <1>10, <2>1, OfIs DEF LookUp, CPU
  <2>3. b \in left <=> here /\ \A r \in rs : Row(r[2], SHIFT + b, r[1]) \notin ok[r[1]]
    <3>1. \E r \in rs : TRUE
      BY <1>7, <1>8
    <3> QED
      BY <1>6, <3>1
  <2> HIDE DEF left
  <2>4. here <=> SHIFT + b < maxshift
    BY <1>4, MaskIs
  <2> HIDE DEF here
  <2> QED
    BY <1>2, <1>9, <2>2, <2>3, <2>4 DEF Survives
<1>11. CASE v = "avx512"
  <2> DEFINE xx == {c \in sito : \A r \in rs :
                     Row(r[2], (c % 64) + SHIFT + 64 * (c \div 64), r[1]) \notin ok[r[1]]}
             ix == {c \in sito : \A r \in rs :
                     Row(r[2], (c % 64) + SHIFT + (IF c < 576 THEN 512 ELSE 576), r[1])
                       \notin ok[r[1]]}
             low == \A c \in sito : c < 512
  <2>1. LookUp_avx512(g, sito, n59, rems, ok, SHIFT, maxshift) = IF low THEN xx ELSE ix
    <3>1. RowsOf_avx512(g, n59, rems) = rs
      BY DEF RowsOf_avx512, Groups_avx512, CpuGroups, rs
    <3>2. LookUpxx_avx512(g, sito, n59, rems, ok, SHIFT) = xx
      BY <3>1 DEF LookUpxx_avx512, OKOKxx_avx512
    <3>3. LookUpix_avx512(g, sito, n59, rems, ok, SHIFT) = ix
      BY <3>1 DEF LookUpix_avx512, OKOKix_avx512
    <3> HIDE DEF xx, ix
    <3> QED
      BY <3>2, <3>3 DEF LookUp_avx512
  <2>2. LookUp = IF low THEN xx ELSE ix
    <3> HIDE DEF xx, ix, low
    <3> QED
      BY <1>11, <2>1, OfIs DEF LookUp
  <2>3. low \/ b \in 512 .. 639
    <3>1. Bits(v)[part] = 0 .. 511 \/ Bits(v)[part] = 512 .. 639
      BY <1>3, <1>11, BitIs
    <3>2. CASE Bits(v)[part] = 0 .. 511
      <4>1. ASSUME NEW c \in sito
            PROVE  c < 512
        <5>1. c \in 0 .. 511
          BY <1>3, <3>2
        <5> QED
          BY <5>1, SMT
      <4> QED
        BY <4>1
    <3>3. CASE Bits(v)[part] = 512 .. 639
      BY <1>3, <3>3
    <3> QED
      BY <3>1, <3>2, <3>3
  <2>4. CASE low
    <3>1. b \in xx <=> \A r \in rs : Row(r[2], SHIFT + b, r[1]) \notin ok[r[1]]
      BY <1>6
    <3> HIDE DEF xx, ix, low
    <3>2. SHIFT + b < maxshift
      BY <1>3, <1>11, NoneBeyond
    <3> QED
      BY <1>2, <1>9, <2>2, <2>4, <3>1, <3>2 DEF Survives
  <2>5. CASE ~low
    <3>1. b \in 512 .. 639
      BY <2>3, <2>5
    <3>2. (b % 64) + SHIFT + (IF b < 576 THEN 512 ELSE 576) = SHIFT + b
      <4>1. CASE b < 576
        BY <1>5, <3>1, <4>1, SMT
      <4>2. CASE ~(b < 576)
        BY <1>5, <3>1, <4>2, SMT
      <4> QED
        BY <4>1, <4>2
    <3>3. b \in ix <=> \A r \in rs : Row(r[2], SHIFT + b, r[1]) \notin ok[r[1]]
      BY <3>2
    <3> HIDE DEF xx, ix, low
    <3>4. SHIFT + b < maxshift
      BY <1>3, <1>11, NoneBeyond
    <3> QED
      BY <1>2, <1>9, <2>2, <2>5, <3>3, <3>4 DEF Survives
  <2> QED
    BY <2>4, <2>5
<1> QED
  BY <1>10, <1>11

\* The cell the flat arrays have for a bit of a word, for a thread that multiplies for
\* each bit and for one that goes on by MOD % P.
LEMMA BlockCellIs ==
  ASSUME IInv, Made, pc # "prepare", v \in Kernel, NEW P \in PrimesIn(61, 541), NEW s \in Nat,
         NEW b \in Nat, InWord(s), InWord(b + s)
  PROVE  /\ Row(Residue(n59, P), b + s, P) + offset_cuda[P] \notin ok <=> Clean(n59, b + s, P)
         /\ ((Row(Residue(n59, P), s, P) + b * MODrem[P]) % P) + offset_cuda[P] \notin ok
              <=> Clean(n59, b + s, P)
<1>1. STEPofK \in UInt64 /\ n59 \in UInt64 /\ <<v, start>> \in Samples
  <2>1. <<v, start>> \in Samples
    BY DEF IInv, Sampled
  <2>2. STEPofK \in UInt64
    BY <2>1, PositionIs, IntIs, ConstantsAre, TimesIs DEF STEPofK
  <2> QED
    BY <2>1, <2>2 DEF IInv, Numbered, Below
<1>2. P \in Primes /\ P \in Nat \ {0}
  BY SMT DEF PrimesIn, Primes
<1>3. Residue(n59, P) = Rem(n59, P) /\ Rem(n59, P) \in 0 .. P - 1
  BY <1>1, <1>2, ResidueIs, RemIs
<1> DEFINE x == Spot(Rem(n59, P), b + s, P)
<1>4. Row(Residue(n59, P), b + s, P) = x /\ x \in 0 .. P - 1
  BY <1>2, <1>3, RowIs
<1>5. (Row(Residue(n59, P), s, P) + b * MODrem[P]) % P = x
  <2>1. Row(Residue(n59, P), s, P) = Spot(Rem(n59, P), s, P)
    BY <1>2, <1>3, RowIs
  <2>2. (Spot(Rem(n59, P), s, P) + b * MODrem[P]) % P = Spot(Rem(n59, P), s + b, P)
    BY <1>2, <1>3, StrideIs
  <2>3. s + b = b + s
    OBVIOUS
  <2> QED
    BY <2>1, <2>2, <2>3
<1> HIDE DEF x
<1>6. Open(x, P) <=> x \notin MakeOK_sse2(P, STEPofK)
  BY <1>1, <1>4, OpenIs DEF STEPofK
<1>7. x + offset_cuda[P] \in Cleared_cuda(STEPofK) <=> x \in MakeOK_sse2(P, STEPofK)
  BY <1>1, <1>4, ClearedIs
<1>8. ok = Cleared_cuda(STEPofK)
  BY DEF Made
<1>9. x + offset_cuda[P] \notin ok <=> Clean(n59, b + s, P)
  BY <1>6, <1>7, <1>8 DEF Clean, x
<1> QED
  BY <1>4, <1>5, <1>9

\* A look-up of the kernels keeps the bits whose shift survives the group.
LEMMA KernelLookUpIs ==
  ASSUME IInv, Made, Held, Aligned, Fitting, pc = "look", v \in Kernel, NEW b \in sito
  PROVE  b \in LookUp <=> Survives(b, g)
<1> DEFINE G == Groups(v)[g]
           reads == {<<P, Residue(n59, P)>> : P \in G}
           here(r, c) == IF v \in Cuda THEN BitSet_cuda(ok, r[1], r[2], c, okok)
                                       ELSE BitSet_opencl(ok, r[1], r[2], c, okok)
           left == {c \in sito : \A r \in reads : here(r, c)}
<1>1. G \subseteq PrimesIn(61, 541)
  BY KernelGroups DEF IInv, Left
<1>2. b \in Bits(v)[part] /\ SHIFT \in Nat /\ okok = {SHIFT} /\ n59 \in UInt64
  BY DEF IInv, Left, Shifted, Held, Walking, Numbered, Below
<1>3. b \in 0 .. 63
  BY <1>2, BitIs
<1>4. SHIFT + b < maxshift
  BY <1>2, NoneBeyond
<1>5. ASSUME NEW P \in G
      PROVE  here(<<P, Residue(n59, P)>>, b) <=> Clean(n59, SHIFT + b, P)
  <2>1. b + SHIFT = SHIFT + b /\ b \in Nat /\ SHIFT < maxshift /\ b + SHIFT \in Nat
    BY <1>2, <1>3, <1>4, SMT DEF IInv, Shifted
  <2>2. InWord(SHIFT) /\ InWord(b + SHIFT)
    BY <1>2, <1>4, <2>1, ShiftFits DEF IInv, Sampled
  <2>3. P \in PrimesIn(61, 541)
    BY <1>1
  <2> HIDE DEF G
  <2>4. /\ Row(Residue(n59, P), b + SHIFT, P) + offset_cuda[P] \notin ok <=> Clean(n59, b + SHIFT, P)
        /\ ((Row(Residue(n59, P), SHIFT, P) + b * MODrem[P]) % P) + offset_cuda[P] \notin ok
             <=> Clean(n59, b + SHIFT, P)
    BY <1>2, <2>1, <2>2, <2>3, BlockCellIs
  <2>5. BitSet_cuda(ok, P, Residue(n59, P), b, okok)
          <=> ((Row(Residue(n59, P), SHIFT, P) + b * MODrem[P]) % P) + offset_cuda[P] \notin ok
    BY <1>2, Zenon DEF BitSet_cuda
  <2>6. BitSet_opencl(ok, P, Residue(n59, P), b, okok)
          <=> Row(Residue(n59, P), b + SHIFT, P) + offset_cuda[P] \notin ok
    BY <1>2, Zenon DEF BitSet_opencl, offset_opencl
  <2>7. /\ BitSet_cuda(ok, P, Residue(n59, P), b, okok) <=> Clean(n59, SHIFT + b, P)
        /\ BitSet_opencl(ok, P, Residue(n59, P), b, okok) <=> Clean(n59, SHIFT + b, P)
    BY <2>1, <2>4, <2>5, <2>6, Zenon
  <2> DEFINE r == <<P, Residue(n59, P)>>
  <2>8. r[1] = P /\ r[2] = Residue(n59, P)
    OBVIOUS
  <2> HIDE DEF r
  <2>9. here(r, b) <=> Clean(n59, SHIFT + b, P)
    BY <2>7, <2>8, Zenon
  <2> QED
    BY <2>9 DEF r
<1>6. ASSUME NEW r \in reads
      PROVE  r[1] \in PrimesIn(61, 541) /\ r[2] \in 0 .. r[1] - 1
  <2>1. PICK P \in G : r = <<P, Residue(n59, P)>>
    BY Zenon
  <2>2. P \in PrimesIn(61, 541) /\ P \in Nat \ {0}
    BY <1>1, OffsetIs
  <2>3. Residue(n59, P) \in 0 .. P - 1
    <3>1. n59 \in UInt64
      BY <1>2
    <3>2. Residue(n59, P) = Rem(n59, P)
      BY <2>2, <3>1, ResidueIs
    <3>3. Rem(n59, P) \in 0 .. P - 1
      BY <2>2, <3>1, RemIs
    <3> QED
      BY <3>2, <3>3
  <2> QED
    BY <2>1, <2>2, <2>3
<1> HIDE DEF here
<1>7. b \in left <=> \A P \in G : Clean(n59, SHIFT + b, P)
  <2>1. \A P \in G : <<P, Residue(n59, P)>> \in reads
    BY Zenon
  <2>2. \A r \in reads : \E P \in G : r = <<P, Residue(n59, P)>>
    BY Zenon
  <2>3. b \in left <=> \A r \in reads : here(r, b)
    BY Zenon
  <2> HIDE DEF reads, G, left
  <2> QED
    BY <1>5, <2>1, <2>2, <2>3, Zenon
<1>8. LookUp = left
  <2>1. CASE v \in Cuda
    <3>1. ~(\E r \in reads : ReadsLocal(v, r[1]) /\ ~Copied(v, r[2] + offset_cuda[r[1]]))
      <4> HIDE DEF reads
      <4> QED
        BY <1>6, <2>1, CopiedIs
    <3>2. LookUp_cuda(v, G, sito, n59, ok, okok)
            = {c \in sito : \A r \in reads : BitSet_cuda(ok, r[1], r[2], c, okok)}
      BY <3>1, Zenon DEF LookUp_cuda
    <3>3. LookUp_cuda(v, G, sito, n59, ok, okok) = left
      BY <2>1, <3>2, Zenon DEF here
    <3> HIDE DEF left
    <3> QED
      BY <2>1, <3>3, OfCuda DEF LookUp
  <2>2. CASE v \in OpenCL
    <3>1. ~(\E r \in reads : r[1] <= 257 /\ ~Copied("nv", r[2] + offset_cuda[r[1]]))
      <4> HIDE DEF reads
      <4>1. "nv" \in Cuda
        BY SMT DEF Cuda
      <4>2. \A r \in reads : r[1] <= 257 => ReadsLocal("nv", r[1])
        BY SMT DEF ReadsLocal
      <4> QED
        BY <1>6, <4>1, <4>2, CopiedIs
    <3>2. LookUp_opencl(v, G, sito, n59, ok, okok)
            = {c \in sito : \A r \in reads : BitSet_opencl(ok, r[1], r[2], c, okok)}
      BY <3>1, Zenon DEF LookUp_opencl, offset_opencl
    <3>3. LookUp_opencl(v, G, sito, n59, ok, okok) = left
      <4>1. v \notin Cuda
        BY <2>2, SMT DEF Cuda, OpenCL
      <4> QED
        BY <3>2, <4>1, Zenon DEF here
    <3> HIDE DEF left
    <3> QED
      BY <2>2, <3>3, OfOpenCL DEF LookUp
  <2> QED
    BY <2>1, <2>2 DEF Kernel
<1> HIDE DEF left
<1> QED
  BY <1>4, <1>7, <1>8 DEF Survives

LEMMA LookUpIs ==
  ASSUME IInv, Made, Held, Aligned, Fitting, pc = "look"
  PROVE  LookUp = {b \in sito : Survives(b, g)}
<1>1. v \in CPU \cup Kernel
  BY PositionIs DEF IInv, Sampled
<1>2. LookUp \subseteq sito
  BY <1>1, LookUpIn
<1>3. \A b \in sito : b \in LookUp <=> Survives(b, g)
  BY <1>1, CpuLookUpIs, KernelLookUpIs
<1> QED
  BY <1>2, <1>3

SInv == IInv /\ Made /\ Held /\ Aligned /\ Kept

LEMMA InitSInv == Init => SInv
<1> SUFFICES ASSUME Init PROVE SInv
  OBVIOUS
<1>1. IInv
  BY InitIInv
<1>2. pc = "prepare" /\ SHIFT = start.startSHIFT
  BY DEF Init
<1>3. Made /\ Held /\ Kept
  BY <1>2 DEF Made, Held, Walking, Kept
<1>4. Aligned
  <2>1. start.startSHIFT \in Nat
    BY <1>1, PositionIs, IntMaxIs, SMT DEF IInv, Sampled
  <2>2. 0 \in Nat /\ SHIFT = start.startSHIFT + 64 * 0
    BY <1>2, <2>1, SMT
  <2> QED
    BY <1>2, <2>2 DEF Aligned
<1> QED
  BY <1>1, <1>3, <1>4 DEF SInv

\* What the words and tables hold when neither they nor the iteration changes.
LEMMA SameTables ==
  ASSUME SInv, v' = v, start' = start, ok' = ok, okok' = okok, SHIFT' = SHIFT,
         pc \in {"row", "look", "check", "bits", "advance"},
         pc' \in {"row", "look", "check", "bits", "advance"}
  PROVE  Made' /\ Held' /\ Aligned'
<1>1. pc # "prepare" /\ pc # "done" /\ (pc = "row" \/ Walking)
  BY DEF Walking
<1>2. Made'
  BY <1>1 DEF SInv, Made, STEPofK
<1>3. Held'
  BY <1>1 DEF SInv, Held
<1>4. Aligned'
  BY <1>1 DEF SInv, Aligned
<1> QED
  BY <1>2, <1>3, <1>4

\* At the first group no bit has been refused yet.
LEMMA FirstGroup ==
  ASSUME pc' = "look", g' = 1, sito' = (Bits(v)[part])'
  PROVE  Kept'
<1>1. 1 .. g' - 1 = {}
  BY SMT
<1> QED
  BY <1>1 DEF Kept

LEMMA LeavePartKept ==
  ASSUME LeavePart, v' = v
  PROVE  Kept' /\ pc' \in {"look", "advance"}
<1>1. CASE part < Len(Bits(v))
  <2>1. pc' = "look" /\ part' = part + 1 /\ g' = 1 /\ sito' = Bits(v)[part + 1]
    BY <1>1 DEF LeavePart
  <2>2. sito' = (Bits(v)[part])'
    BY <2>1
  <2> QED
    BY <2>1, <2>2, FirstGroup
<1>2. CASE ~(part < Len(Bits(v)))
  BY <1>2 DEF LeavePart, Kept
<1> QED
  BY <1>1, <1>2

LEMMA StepIs ==
  ASSUME NEW u \in CPU \cup Kernel, NEW K
  PROVE  Prologue(u, K).STEP = Times(Small(K), PRIM23)
<1>1. Prologue(u, K) = Prologue_sse2(K)
  BY SMT DEF Prologue, Of, CPU, Kernel, Cuda, OpenCL, Prologue_sse2, Prologue_sse41, Prologue_avx,
     Prologue_avx2, Prologue_avx512, Prologue_cuda, Prologue_opencl
<1> QED
  BY <1>1 DEF Prologue_sse2

LEMMA PrepareSInv == SInv /\ Prepare => SInv'
<1> SUFFICES ASSUME SInv, Prepare PROVE SInv'
  OBVIOUS
<1>1. IInv'
  BY PrepareIInv DEF SInv
<1>2. /\ v' = v /\ start' = start /\ SHIFT' = SHIFT /\ pc = "prepare" /\ pc' = "begin"
      /\ q' = Prologue(v, start.K)
  BY DEF Prepare
<1>3. v \in CPU \cup Kernel /\ start.K \in 0 .. INT_MAX
  BY PositionIs DEF SInv, IInv, Sampled
<1>4. q'.STEP = STEPofK
  BY <1>2, <1>3, StepIs DEF STEPofK
<1>5. Made'
  <2>1. v \in CPU => v \notin Kernel
    BY SMT DEF CPU, Kernel, Cuda, OpenCL
  <2>2. v \in CPU => ok' = [P \in OKPrimes(v) |-> MakeOK(v, P, STEPofK)]
    <3>1. ASSUME v \in CPU
          PROVE  ok' = [P \in OKPrimes(v) |-> MakeOK(v, P, q'.STEP)]
      BY <2>1, <3>1 DEF Prepare
    <3> QED
      BY <1>4, <3>1
  <2>3. v \in Kernel => ok' = Cleared_cuda(STEPofK)
    <3>1. v \in Kernel => ok' = Cleared_cuda(q'.STEP)
      BY DEF Prepare, Cleared_opencl
    <3> QED
      BY <1>4, <3>1
  <2>4. STEPofK' = STEPofK
    BY <1>2 DEF STEPofK
  <2> QED
    BY <1>2, <2>2, <2>3, <2>4 DEF Made
<1>6. Held' /\ Kept'
  BY <1>2 DEF Held, Walking, Kept
<1>7. Aligned'
  BY <1>2 DEF SInv, Aligned
<1> QED
  BY <1>1, <1>5, <1>6, <1>7 DEF SInv

\* The words of OKOK that clearokok clears are all of them.
LEMMA WordsAre == Words_opencl = 23693
<1>1. 83 \in 1 .. 83 /\ g_primes[83] = 541 /\ offsets[83] + 541 = 23693
  BY SMT DEF g_primes, offsets
<1>2. 541 \in PrimesIn(61, 541)
  BY <1>1, ListedPrime
<1>3. NumberOf[541] \in 1 .. 83 /\ g_primes[NumberOf[541]] = 541
  BY <1>2, NumberIs
<1>4. \A i \in 1 .. 83 : g_primes[i] = 541 => i = 83
  BY SMTT(60) DEF g_primes
<1>5. offset_cuda[541] = offsets[83]
  BY <1>2, <1>3, <1>4, OffsetIs
<1> QED
  BY <1>1, <1>5 DEF Words_opencl, offset_opencl

LEMMA BeginSInv == SInv /\ Begin => SInv'
<1> SUFFICES ASSUME SInv, Begin PROVE SInv'
  OBVIOUS
<1>1. IInv'
  BY BeginIInv DEF SInv
<1>2. /\ v' = v /\ start' = start /\ SHIFT' = SHIFT /\ ok' = ok /\ pc = "begin" /\ pc' = "row"
      /\ okok' = Of(v, {}, {}, {}, {}, {}, Setupokok_cuda(okok, SHIFT),
                    Setupokok_opencl(Clearokok(okok), SHIFT))
  BY DEF Begin, tables
<1>3. Made' /\ Aligned' /\ Kept'
  BY <1>2 DEF SInv, Made, STEPofK, Aligned, Kept
<1>4. v \in Kernel => okok' = {SHIFT}
  <2>1. Setupokok_cuda(okok, SHIFT) = {SHIFT}
    BY DEF Setupokok_cuda
  <2>2. Clearokok(okok) = {}
    <3>1. Words_opencl <= 23693
      BY WordsAre, SMT
    <3> QED
      BY <3>1 DEF Clearokok
  <2>3. Setupokok_opencl(Clearokok(okok), SHIFT) = {SHIFT}
    BY <2>2 DEF Setupokok_opencl
  <2>4. CASE v \in Cuda
    BY <1>2, <2>1, <2>4, OfCuda
  <2>5. CASE v \in OpenCL
    BY <1>2, <2>3, <2>5, OfOpenCL
  <2> QED
    BY <2>4, <2>5 DEF Kernel
<1>5. Held'
  BY <1>2, <1>4 DEF Held
<1> QED
  BY <1>1, <1>3, <1>5 DEF SInv

LEMMA Row35SInv == SInv /\ Row35 => SInv'
<1> SUFFICES ASSUME SInv, Row35 PROVE SInv'
  OBVIOUS
<1>1. IInv'
  BY Row35IInv DEF SInv
<1>2. /\ v' = v /\ start' = start /\ SHIFT' = SHIFT /\ ok' = ok /\ okok' = okok
      /\ pc = "row" /\ pc' = "look" /\ part' = 1 /\ g' = 1 /\ sito' = Bits(v)[1]
  BY DEF Row35, tables
<1>3. Made' /\ Held' /\ Aligned'
  BY <1>2, SameTables
<1>4. Kept'
  <2>1. sito' = (Bits(v)[part])'
    BY <1>2
  <2> QED
    BY <1>2, <2>1, FirstGroup
<1> QED
  BY <1>1, <1>3, <1>4 DEF SInv

LEMMA LookSInv == SInv /\ Fitting /\ Look => SInv'
<1> SUFFICES ASSUME SInv, Fitting, Look PROVE SInv'
  OBVIOUS
<1>1. IInv'
  BY LookIInv DEF SInv
<1>2. /\ v' = v /\ start' = start /\ SHIFT' = SHIFT /\ ok' = ok /\ okok' = okok /\ n59' = n59
      /\ pc = "look"
  BY DEF Look, tables
<1>3. Kept' /\ pc' \in {"look", "check", "advance"}
  <2>1. CASE LeavePart
    BY <1>2, <2>1, LeavePartKept
  <2>2. CASE /\ sito' = LookUp
             /\ IF g < Len(Groups(v)) THEN g' = g + 1 /\ pc' = pc ELSE g' = g /\ pc' = "check"
             /\ UNCHANGED part
    <3>1. sito = {b \in Bits(v)[part] : \A h \in 1 .. g - 1 : Survives(b, h)}
      BY <1>2 DEF SInv, Kept
    <3>2. LookUp = {b \in sito : Survives(b, g)}
      BY <1>2, LookUpIs DEF SInv
    <3>3. g \in Nat \ {0}
      <4>1. v \in CPU \cup Kernel /\ g \in 1 .. Len(Groups(v))
        BY PositionIs DEF SInv, IInv, Sampled, Left
      <4> QED
        BY <4>1, SMT
    <3>4. \A h : h \in 1 .. g <=> h \in 1 .. g - 1 \/ h = g
      BY <3>3, SMT
    <3>5. sito' = {b \in Bits(v)[part] : \A h \in 1 .. g : Survives(b, h)}
      <4>1. \A b : (\A h \in 1 .. g : Survives(b, h))
                     <=> (\A h \in 1 .. g - 1 : Survives(b, h)) /\ Survives(b, g)
        BY <3>4, Zenon
      <4> QED
        BY <2>2, <3>1, <3>2, <4>1, Zenon
    <3>6. ASSUME NEW b, NEW h
          PROVE  Survives(b, h)' <=> Survives(b, h)
      BY <1>2 DEF Survives, Clean, Open, maxshift
    <3>7. sito' = {b \in (Bits(v)[part])' : \A h \in 1 .. g : Survives(b, h)'}
      <4>1. (Bits(v)[part])' = Bits(v)[part]
        BY <1>2, <2>2
      <4> QED
        BY <3>5, <3>6, <4>1, Zenon
    <3>8. CASE g < Len(Groups(v))
      <4>1. pc' = "look" /\ g' - 1 = g
        BY <1>2, <2>2, <3>3, <3>8, SMT
      <4> QED
        BY <3>7, <4>1 DEF Kept
    <3>9. CASE ~(g < Len(Groups(v)))
      <4>1. pc' = "check" /\ g' = g
        BY <2>2, <3>9
      <4> QED
        BY <3>7, <4>1 DEF Kept
    <3> QED
      BY <3>8, <3>9
  <2> QED
    BY <2>1, <2>2 DEF Look
<1>4. Made' /\ Held' /\ Aligned'
  BY <1>2, <1>3, SameTables
<1> QED
  BY <1>1, <1>3, <1>4 DEF SInv

LEMMA CheckSInv == SInv /\ Check => SInv'
<1> SUFFICES ASSUME SInv, Check PROVE SInv'
  OBVIOUS
<1>1. IInv'
  BY CheckIInv DEF SInv
<1>2. /\ v' = v /\ start' = start /\ SHIFT' = SHIFT /\ ok' = ok /\ okok' = okok
      /\ pc \in {"check", "bits"}
  BY DEF Check, tables
<1>3. PICK b \in sito :
        IF sito = {b} THEN LeavePart
                      ELSE pc' = "bits" /\ sito' = sito \ {b} /\ UNCHANGED <<part, g>>
  BY DEF Check
<1>4. Kept' /\ pc' \in {"look", "bits", "advance"}
  <2>1. CASE LeavePart
    BY <1>2, <2>1, LeavePartKept
  <2>2. CASE pc' = "bits"
    BY <2>2 DEF Kept
  <2> QED
    BY <1>3, <2>1, <2>2
<1>5. Made' /\ Held' /\ Aligned'
  BY <1>2, <1>4, SameTables
<1> QED
  BY <1>1, <1>4, <1>5 DEF SInv

LEMMA NextN59SInv == SInv /\ NextN59 => SInv'
<1> SUFFICES ASSUME SInv, NextN59 PROVE SInv'
  OBVIOUS
<1>1. IInv'
  BY NextN59IInv DEF SInv
<1>2. /\ v' = v /\ start' = start /\ SHIFT' = SHIFT /\ ok' = ok /\ okok' = okok
      /\ pc = "advance" /\ pc' = "look" /\ part' = 1 /\ g' = 1 /\ sito' = Bits(v)[1]
  BY DEF NextN59, tables
<1>3. Made' /\ Held' /\ Aligned'
  BY <1>2, SameTables
<1>4. Kept'
  <2>1. sito' = (Bits(v)[part])'
    BY <1>2
  <2> QED
    BY <1>2, <2>1, FirstGroup
<1> QED
  BY <1>1, <1>3, <1>4 DEF SInv

LEMMA NextRowSInv == SInv /\ NextRow => SInv'
<1> SUFFICES ASSUME SInv, NextRow PROVE SInv'
  OBVIOUS
<1>1. IInv'
  BY NextRowIInv DEF SInv
<1>2. /\ v' = v /\ start' = start /\ SHIFT' = SHIFT /\ ok' = ok /\ okok' = okok
      /\ pc = "advance" /\ pc' = "row"
  BY DEF NextRow, NextN53, NextN47, NextN43, RowEnds, tables
<1>3. Made' /\ Held' /\ Aligned'
  BY <1>2, SameTables
<1>4. Kept'
  BY <1>2 DEF Kept
<1> QED
  BY <1>1, <1>3, <1>4 DEF SInv

LEMMA NextIterationSInv == SInv /\ NextIteration => SInv'
<1> SUFFICES ASSUME SInv, NextIteration PROVE SInv'
  OBVIOUS
<1>1. IInv'
  BY NextIterationIInv DEF SInv
<1>2. /\ v' = v /\ start' = start /\ ok' = ok /\ SHIFT' = NextSHIFT(v, SHIFT) /\ pc = "advance"
      /\ pc' = (IF SHIFT' < maxshift THEN "begin" ELSE "done")
  BY DEF NextIteration, tables
<1>3. pc' = "begin" \/ pc' = "done"
  BY <1>2
<1>4. Made' /\ Held' /\ Kept'
  BY <1>2, <1>3 DEF SInv, Made, STEPofK, Held, Walking, Kept
<1>5. Aligned'
  <2>1. PICK k \in Nat : SHIFT = start.startSHIFT + 64 * k
    BY DEF SInv, Aligned
  <2>2. /\ v \in CPU \cup Kernel /\ start.startSHIFT \in Nat /\ SHIFT \in Nat
    BY PositionIs, IntMaxIs, SMT DEF SInv, IInv, Sampled, Shifted
  <2>3. SHIFT' \in {SHIFT + 64, SHIFT + 128, SHIFT + 256, SHIFT + 640}
    BY <1>2, <2>2, NextSHIFTIs
  <2>4. \E d \in {1, 2, 4, 10} : SHIFT' = SHIFT + 64 * d
    BY <2>2, <2>3, SMT
  <2>5. PICK d \in {1, 2, 4, 10} : SHIFT' = SHIFT + 64 * d
    BY <2>4
  <2>6. k + d \in Nat /\ SHIFT' = start.startSHIFT + 64 * (k + d)
    BY <2>1, <2>2, <2>5, SMT
  <2>7. \E j \in Nat : SHIFT' = start.startSHIFT + 64 * j
    BY <2>6
  <2>8. ASSUME v = "avx512"
        PROVE  pc' = "done"
    <3>1. SHIFT = start.startSHIFT
      BY <1>2, <2>8 DEF SInv, Aligned
    <3>2. NextSHIFT(v, SHIFT) = SHIFT + 640
      BY <2>8, OfIs DEF NextSHIFT, NextSHIFT_avx512
    <3>3. ~(SHIFT' < maxshift)
      BY <1>2, <2>2, <3>1, <3>2, SMT DEF maxshift
    <3> QED
      BY <1>2, <3>3
  <2> QED
    BY <1>2, <2>7, <2>8 DEF Aligned
<1> QED
  BY <1>1, <1>4, <1>5 DEF SInv

LEMMA NextSInv == SInv /\ Fitting /\ [Next]_vars => SInv'
<1> SUFFICES ASSUME SInv, Fitting, [Next]_vars PROVE SInv'
  OBVIOUS
<1>1. CASE Prepare
  BY <1>1, PrepareSInv
<1>2. CASE Begin
  BY <1>2, BeginSInv
<1>3. CASE Row35
  BY <1>3, Row35SInv
<1>4. CASE Look
  BY <1>4, LookSInv
<1>5. CASE Check
  BY <1>5, CheckSInv
<1>6. CASE NextN59
  BY <1>6, NextN59SInv
<1>7. CASE NextRow
  BY <1>7, NextRowSInv
<1>8. CASE NextIteration
  BY <1>8, NextIterationSInv
<1>9. CASE UNCHANGED vars
  <2>1. IInv'
    BY <1>9, NextIInv DEF SInv
  <2>2. Made' /\ Held' /\ Aligned'
    BY <1>9 DEF vars, tables, SInv, Made, STEPofK, Held, Walking, Aligned
  <2>3. Kept'
    BY <1>9 DEF vars, tables, SInv, Kept, Survives, Clean, Open, maxshift
  <2> QED
    BY <2>1, <2>2, <2>3 DEF SInv
<1> QED
  BY <1>1, <1>2, <1>3, <1>4, <1>5, <1>6, <1>7, <1>8, <1>9 DEF Next, Done

LEMMA SpecSInv ==
  ASSUME \A s \in Samples : (s[2].startSHIFT + 640) * Modulus <= W
  PROVE  Spec => []SInv
<1>1. Init => SInv
  BY InitSInv
<1>2. SInv /\ [Next]_vars => SInv'
  <2> SUFFICES ASSUME SInv, [Next]_vars PROVE SInv'
    OBVIOUS
  <2>1. Fitting
    <3>1. <<v, start>> \in Samples /\ <<v, start>>[2] = start
      BY DEF SInv, IInv, Sampled
    <3> QED
      BY <3>1 DEF Fitting
  <2> QED
    BY <2>1, NextSInv
<1> QED
  BY <1>1, <1>2, PTL DEF Spec

\* The windows that no prime of the set divides are those clean of each.
LEMMA CleanShiftsAre ==
  ASSUME NEW n, NEW shifts, NEW primes
  PROVE  CleanShifts(n, shifts, primes) = {s \in shifts : \A P \in primes : Clean(n, s, P)}
<1> DEFINE residues == {<<P, Rem(n, P)>> : P \in primes}
           clean(s, r) == Open((r[2] + (s % r[1]) * MODrem[r[1]]) % r[1], r[1])
<1>1. CleanShifts(n, shifts, primes) = {s \in shifts : \A r \in residues : clean(s, r)}
  BY DEF CleanShifts
<1>2. \A P, s : clean(s, <<P, Rem(n, P)>>) <=> Clean(n, s, P)
  BY DEF Clean, Spot
<1>3. \A P \in primes : <<P, Rem(n, P)>> \in residues
  OBVIOUS
<1>4. \A r \in residues : \E P \in primes : r = <<P, Rem(n, P)>>
  OBVIOUS
<1> HIDE DEF residues, clean
<1>5. \A s : (\A r \in residues : clean(s, r)) <=> \A P \in primes : Clean(n, s, P)
  BY <1>2, <1>3, <1>4, Zenon
<1> QED
  BY <1>1, <1>5

\* After each group of look-ups the bits left are exactly the shifts of the words
\* below maxshift whose windows no prime looked up so far divides, whether a row
\* of a vector table is looked up or a word of the flat arrays, through every
\* word, mask and offset: for every K and position, in all eleven variants.  The 640
\* shifts have to leave the candidates in 64 bits: where they do not, the products of
\* the rows with MOD wrap around and a row is that of another window.
THEOREM BitsAreExact ==
  ASSUME \A s \in Samples : (s[2].startSHIFT + 640) * Modulus <= W
  PROVE  Spec => []SitoExact
<1>1. SInv => SitoExact
  <2> SUFFICES ASSUME SInv, pc = "check" \/ (pc = "look" /\ g > 1)
               PROVE  LET last == IF pc = "check" THEN g ELSE g - 1
                          shifts == {SHIFT + b : b \in Bits(v)[part]}
                                      \ {s \in SHIFT .. SHIFT + 639 : s >= maxshift}
                      IN  {SHIFT + b : b \in sito} =
                            CleanShifts(n59, shifts, UNION {Groups(v)[h] : h \in 1 .. last})
    BY DEF SitoExact
  <2> DEFINE last == IF pc = "check" THEN g ELSE g - 1
             words == {SHIFT + b : b \in Bits(v)[part]}
             beyond == {s \in SHIFT .. SHIFT + 639 : s >= maxshift}
             primes == UNION {Groups(v)[h] : h \in 1 .. last}
  <2>1. sito = {b \in Bits(v)[part] : \A h \in 1 .. last : Survives(b, h)}
    BY DEF SInv, Kept
  <2>2. 1 \in 1 .. last
    <3>1. v \in CPU \cup Kernel /\ g \in 1 .. Len(Groups(v))
      BY PositionIs DEF SInv, IInv, Sampled, Left
    <3> QED
      BY <3>1, SMT
  <2>3. Bits(v)[part] \subseteq 0 .. 639 /\ SHIFT \in Nat /\ start.startSHIFT \in Nat
    BY BitIs, PositionIs, IntMaxIs, SMT DEF SInv, IInv, Shifted, Sampled
  <2> HIDE DEF last
  <2>4. CleanShifts(n59, words \ beyond, primes)
                 = {s \in words \ beyond : \A P \in primes : Clean(n59, s, P)}
    BY CleanShiftsAre
  <2>5. ASSUME NEW b \in Bits(v)[part]
        PROVE  /\ SHIFT + b \notin beyond <=> SHIFT + b < maxshift
               /\ SHIFT + b \in words
    <3>1. b \in 0 .. 639
      BY <2>3
    <3>2. SHIFT + b \in SHIFT .. SHIFT + 639 /\ maxshift \in Int
      BY <2>3, <3>1, SMT DEF maxshift
    <3>3. SHIFT + b >= maxshift <=> ~(SHIFT + b < maxshift)
      BY <2>3, <3>1, <3>2, SMT
    <3> QED
      BY <3>2, <3>3
  <2>6. ASSUME NEW b \in Bits(v)[part]
        PROVE  b \in sito <=> SHIFT + b < maxshift /\ \A P \in primes : Clean(n59, SHIFT + b, P)
    <3>1. b \in sito <=> \A h \in 1 .. last : Survives(b, h)
      BY <2>1
    <3>2. (\A P \in primes : Clean(n59, SHIFT + b, P))
            <=> \A h \in 1 .. last : \A P \in Groups(v)[h] : Clean(n59, SHIFT + b, P)
      OBVIOUS
    <3> QED
      BY <2>2, <3>1, <3>2, Zenon DEF Survives
  <2> HIDE DEF primes, beyond
  <2>7. ASSUME NEW s
        PROVE  s \in {SHIFT + b : b \in sito}
                 <=> s \in {r \in words \ beyond : \A P \in primes : Clean(n59, r, P)}
    <3>1. ASSUME NEW b \in sito, s = SHIFT + b
          PROVE  s \in words \ beyond /\ \A P \in primes : Clean(n59, s, P)
      <4>1. b \in Bits(v)[part]
        BY <2>1
      <4> QED
        BY <2>5, <2>6, <3>1, <4>1
    <3>2. ASSUME s \in words, s \notin beyond, \A P \in primes : Clean(n59, s, P)
          PROVE  \E b \in sito : s = SHIFT + b
      <4>1. PICK b \in Bits(v)[part] : s = SHIFT + b
        BY <3>2
      <4>2. b \in sito
        BY <2>5, <2>6, <3>2, <4>1
      <4> QED
        BY <4>1, <4>2
    <3> QED
      BY <3>1, <3>2
  <2> HIDE DEF words
  <2> QED
    BY <2>4, <2>7 DEF last, words, beyond, primes
<1> QED
  BY <1>1, SpecSInv, PTL

=============================================================================
