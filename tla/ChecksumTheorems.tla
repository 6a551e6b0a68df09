-------------------------- MODULE ChecksumTheorems --------------------------
(***************************************************************************)
(* Facts about the accumulator, for every MAXINTV and word size.           *)
(***************************************************************************)
EXTENDS Checksum, TLAPS

\* Division with remainder by MAXINTV, and its uniqueness.
LEMMA DivMod ==
  ASSUME NEW a \in Int
  PROVE  /\ a = MAXINTV * (a \div MAXINTV) + (a % MAXINTV)
         /\ a % MAXINTV \in 0..(MAXINTV - 1)
         /\ a \div MAXINTV \in Int
  BY ChecksumAssumption

LEMMA ModUnique ==
  ASSUME NEW a \in Int, NEW q \in Int, NEW r \in 0..(MAXINTV - 1),
         a = MAXINTV * q + r
  PROVE  a % MAXINTV = r
  BY ChecksumAssumption, DivMod

LEMMA WordFits ==
  ASSUME NEW a \in Nat, a < Word
  PROVE  a % Word = a
  BY ChecksumAssumption

\* The sum of two accumulators never wraps a uint32_t, one subtraction is
\* enough, and the result is an accumulator again (ReportSolution, lock3).
THEOREM AddModInRange ==
  ASSUME NEW c \in Sums, NEW x \in Sums
  PROVE  /\ AddMod(c, x) \in Sums
         /\ AddMod(c, x) = IF c + x > MAXINTV THEN c + x - MAXINTV ELSE c + x
<1>1. c \in Nat /\ x \in Nat /\ c + x \in Nat /\ c + x < Word /\ c + x <= 2 * MAXINTV
  BY ChecksumAssumption DEF Sums
<1>2. (c + x) % Word = c + x
  BY <1>1, WordFits
<1>3. AddMod(c, x) = IF c + x > MAXINTV THEN c + x - MAXINTV ELSE c + x
  BY <1>1, <1>2, ChecksumAssumption DEF AddMod
<1> QED
  BY <1>1, <1>3, ChecksumAssumption DEF Sums

LEMMA CanonType ==
  ASSUME NEW s \in Nat
  PROVE  Canon(s) \in Sums
<1>1. CASE s = 0
  BY <1>1, ChecksumAssumption DEF Canon, Sums
<1>2. CASE s # 0
  <2>1. (s - 1) % MAXINTV \in 0..(MAXINTV - 1)
    BY DivMod
  <2> QED
    BY <1>2, <2>1, ChecksumAssumption DEF Canon, Sums
<1> QED
  BY <1>1, <1>2

\* A positive sum is its representative plus a multiple of MAXINTV.
LEMMA CanonQuotient ==
  ASSUME NEW s \in Nat, s # 0
  PROVE  \E q \in Int : s = MAXINTV * q + Canon(s) /\ Canon(s) \in 1..MAXINTV
<1>1. /\ s - 1 = MAXINTV * ((s - 1) \div MAXINTV) + ((s - 1) % MAXINTV)
      /\ (s - 1) % MAXINTV \in 0..(MAXINTV - 1)
      /\ (s - 1) \div MAXINTV \in Int
  BY DivMod
<1>2. Canon(s) = ((s - 1) % MAXINTV) + 1
  BY DEF Canon
<1>3. s = MAXINTV * ((s - 1) \div MAXINTV) + Canon(s) /\ Canon(s) \in 1..MAXINTV
  BY <1>1, <1>2, ChecksumAssumption
<1> QED
  BY <1>1, <1>3

LEMMA CanonUnique ==
  ASSUME NEW s \in Nat, s # 0, NEW q \in Int, NEW r \in 1..MAXINTV,
         s = MAXINTV * q + r
  PROVE  Canon(s) = r
<1>1. s - 1 \in Int /\ r - 1 \in 0..(MAXINTV - 1)
  BY ChecksumAssumption
<1>2. s - 1 = MAXINTV * q + (r - 1)
  BY ChecksumAssumption
<1>3. (s - 1) % MAXINTV = r - 1
  BY <1>1, <1>2, ModUnique
<1> QED
  BY <1>3, ChecksumAssumption DEF Canon

\* The accumulator is a function of the true sum alone: adding (already
\* reduced) parts in any order and any grouping ends at the same value, so
\* neither the number of threads nor their schedule can show in the result.
THEOREM AddModCanon ==
  ASSUME NEW a \in Nat, NEW b \in Nat
  PROVE  AddMod(Canon(a), Canon(b)) = Canon(a + b)
<1>1. Canon(a) \in Sums /\ Canon(b) \in Sums
  BY CanonType
<1>2. AddMod(Canon(a), Canon(b)) =
        IF Canon(a) + Canon(b) > MAXINTV
        THEN Canon(a) + Canon(b) - MAXINTV
        ELSE Canon(a) + Canon(b)
  BY <1>1, AddModInRange
<1>3. CASE a = 0
  <2>1. Canon(a) = 0 /\ a + b = b
    BY <1>3 DEF Canon
  <2> QED
    BY <1>1, <1>2, <2>1, ChecksumAssumption DEF Sums
<1>4. CASE b = 0
  <2>1. Canon(b) = 0 /\ a + b = a
    BY <1>4 DEF Canon
  <2> QED
    BY <1>1, <1>2, <2>1, ChecksumAssumption DEF Sums
<1>5. CASE a # 0 /\ b # 0
  <2>1. PICK qa \in Int : a = MAXINTV * qa + Canon(a) /\ Canon(a) \in 1..MAXINTV
    BY <1>5, CanonQuotient
  <2>2. PICK qb \in Int : b = MAXINTV * qb + Canon(b) /\ Canon(b) \in 1..MAXINTV
    BY <1>5, CanonQuotient
  <2>3. a + b \in Nat /\ a + b # 0
    BY <1>5
  <2>4. a + b = MAXINTV * (qa + qb) + (Canon(a) + Canon(b))
    BY <2>1, <2>2, ChecksumAssumption
  <2>5. CASE Canon(a) + Canon(b) > MAXINTV
    <3>1. a + b = MAXINTV * (qa + qb + 1) + (Canon(a) + Canon(b) - MAXINTV)
      BY <2>1, <2>2, <2>4, ChecksumAssumption
    <3>2. Canon(a) + Canon(b) - MAXINTV \in 1..MAXINTV
      BY <2>1, <2>2, <2>5, ChecksumAssumption
    <3>3. Canon(a + b) = Canon(a) + Canon(b) - MAXINTV
      BY <2>3, <3>1, <3>2, CanonUnique
    <3> QED
      BY <1>2, <2>5, <3>3
  <2>6. CASE ~(Canon(a) + Canon(b) > MAXINTV)
    <3>1. Canon(a) + Canon(b) \in 1..MAXINTV
      BY <2>1, <2>2, <2>6, ChecksumAssumption
    <3>2. Canon(a + b) = Canon(a) + Canon(b)
      BY <2>3, <2>4, <3>1, CanonUnique
    <3> QED
      BY <1>2, <2>6, <3>2
  <2> QED
    BY <2>5, <2>6
<1> QED
  BY <1>3, <1>4, <1>5
=============================================================================
