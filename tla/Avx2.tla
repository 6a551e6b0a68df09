--------------------------------- MODULE Avx2 -------------------------------
(* The search as src/cpu/cpuavx2.cpp computes it: the words of the AVX build*)
(* and one vector of sixteen lanes.                                         *)
EXTENDS SieveTables

Groups_avx2 == <<PrimesIn(61, 137), PrimesIn(139, 199), PrimesIn(211, 277)>>
Tested_avx2 == PrimesIn(281, 541)

(* Search_avx2's locals.                                                    *)
Prologue_avx2(K) ==
  [STEP |-> Times(Small(K), PRIM23), n0 |-> Mod(Plus(Parts(N0, K), N30), MOD),
   S31 |-> Scaled(PRES2, K), S37 |-> Scaled(PRES3, K), S41 |-> Scaled(PRES4, K),
   S43 |-> Scaled(PRES5, K), S47 |-> Scaled(PRES6, K), S53 |-> Scaled(PRES7, K),
   S59 |-> Scaled(PRES8, K)]

(* The entries of n43_h, by the counters of the five loops that fill it.    *)
Entries_avx2 == {i \in Counters : Near(i[1], i[2], i[3])}
n43_h_avx2(q, i) ==
  LET Term(k, S) == Times(Small(k), S)
      a == Plus(Plus(q.n0, Term(i[4], S3)), Term(i[5], S5))
      b == Plus(Plus(Term(i[1], q.S31), Term(i[2], q.S37)), Term(i[3], q.S41))
  IN  Mod(Plus(a, b), MOD)

(* The quick loop vectors svec and mvec; numvec1 is the primes themselves   *)
(* and numvec2 the primes less one.                                         *)
Vectors_avx2(q) == [s |-> [l \in 1 .. 16 |-> Rem(q.S59, Lanes[l])],
               m |-> [l \in 1 .. 16 |-> MODrem[Lanes[l]]],
               num1 |-> Lanes, num2 |-> [l \in 1 .. 16 |-> Lanes[l] - 1]]

(* MAKE_OK: the cells of OK<P> it clears, and the primes it is called for.  *)
MakeOK_avx2(P, STEP) == {(j * Rem(STEP, P)) % P : j \in P - 23 .. P}
OKPrimes_avx2 == PrimesIn(61, 541)

(* for(SHIFT=startSHIFT; SHIFT<maxshift; SHIFT+=256), and the words of one  *)
(* iteration as the bits 64*ii + setbit.                                    *)
NextSHIFT_avx2(SHIFT) == SHIFT + 256
Bits_avx2 == <<0 .. 255>>

(* MAKE_OKOK: bit b of xOKOK<P>[j]; the words at and beyond maxshift, the   *)
(* last two of the third iteration, stay empty.                             *)
OKOK_avx2(ok, P, j, b, SHIFT, maxshift) ==
  /\ SHIFT + 64 * (b \div 64) < maxshift
  /\ Row(j, (b % 64) + SHIFT + 64 * (b \div 64), P) \notin ok[P]

(* xOKOK<P>[P], defined in this file.                                     *)
OKOKLength_avx2 == [P \in PrimesIn(61, 277) |-> P]

(* rems as REM first fills it.                                              *)
FirstRems_avx2(n59) ==
  [l \in 1 .. 16 |->
     REM(n59, Lanes[l], IF l = 1 THEN 6 ELSE IF l <= 14 THEN 7 ELSE 8)]

(* The three groups of look-ups, each behind a test that bits are left.     *)
LookUp_avx2(g, bits, n59, rems, ok, SHIFT, maxshift) ==
  LET rows == IF g = 1 THEN {<<P, rems[LaneOf[P]]>> : P \in Groups_avx2[1]}
              ELSE {<<P, REM(n59, P, IF P < 257 THEN 8 ELSE 9)>> : P \in Groups_avx2[g]}
  IN  {b \in bits : \A r \in rows : OKOK_avx2(ok, r[1], r[2], b, SHIFT, maxshift)}

(* A set bit's candidate, and the tests in front of the walk.               *)
Decode_avx2(n59, b, SHIFT) == Candidate(n59, (b % 64) + SHIFT + 64 * (b \div 64))
Passes_avx2(n, ok) == /\ \A p \in PrimesIn(7, 23) : Rem(n, p) # 0
                 /\ \A P \in Tested_avx2 : Rem(n, P) \notin ok[P]

(* Deviation: the lanes do not follow n59 -= MOD.                           *)
NextRemNoWrap_avx2(l, r, v, wraps) ==
  LET w == r + v.s[l]
  IN  IF w > v.num2[l] THEN w - v.num1[l] ELSE w

(* One lane after n59 += S59 and its possible n59 -= MOD.                   *)
NextRem_avx2(l, r, v, wraps) ==
  LET w == Wrapped(r + v.s[l], v.num1[l], v.m[l], wraps)
  IN  IF w > v.num2[l] THEN w - v.num1[l] ELSE w
=============================================================================
