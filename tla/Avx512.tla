-------------------------------- MODULE Avx512 ------------------------------
(* The search as src/cpu/cpuavx512.cpp computes it: one pass over all ten   *)
(* words, eight in the 512-bit tables and two in the 128-bit ones.          *)
EXTENDS SieveTables

Groups_avx512 == <<PrimesIn(61, 137), PrimesIn(139, 199), PrimesIn(211, 277)>>
Tested_avx512 == PrimesIn(281, 541)

(* Search_avx512's locals.                                                  *)
Prologue_avx512(K) ==
  [STEP |-> Times(Small(K), PRIM23), n0 |-> Mod(Plus(Parts(N0, K), N30), MOD),
   S31 |-> Scaled(PRES2, K), S37 |-> Scaled(PRES3, K), S41 |-> Scaled(PRES4, K),
   S43 |-> Scaled(PRES5, K), S47 |-> Scaled(PRES6, K), S53 |-> Scaled(PRES7, K),
   S59 |-> Scaled(PRES8, K)]

(* The entries of n43_h, by the counters of the five loops that fill it.    *)
Entries_avx512 == {i \in Counters : Near(i[1], i[2], i[3])}
n43_h_avx512(q, i) ==
  LET Term(k, S) == Times(Small(k), S)
      a == Plus(Plus(q.n0, Term(i[4], S3)), Term(i[5], S5))
      b == Plus(Plus(Term(i[1], q.S31), Term(i[2], q.S37)), Term(i[3], q.S41))
  IN  Mod(Plus(a, b), MOD)

(* The quick loop vectors svec and mvec; numvec1 is the primes themselves.  *)
Vectors_avx512(q) == [s |-> [l \in 1 .. 16 |-> Rem(q.S59, Lanes[l])],
               m |-> [l \in 1 .. 16 |-> MODrem[Lanes[l]]],
               num1 |-> Lanes]

(* MAKE_OK: the cells of OK<P> it clears, and the primes it is called for.  *)
MakeOK_avx512(P, STEP) == {(j * Rem(STEP, P)) % P : j \in P - 23 .. P}
OKPrimes_avx512 == PrimesIn(61, 541)

(* There is no loop over SHIFT: the bits of the eight words, then those of  *)
(* the last two.                                                            *)
NextSHIFT_avx512(SHIFT) == SHIFT + 640
Bits_avx512 == <<0 .. 511, 512 .. 639>>

(* MAKE_OKOK and MAKE_OKOKix: bit b of xxOKOK<P>[j], and from the ninth word*)
(* on, of ixOKOK<P>[j].                                                     *)
OKOKxx_avx512(ok, P, j, b, SHIFT) ==
  Row(j, (b % 64) + SHIFT + 64 * (b \div 64), P) \notin ok[P]
OKOKix_avx512(ok, P, j, b, SHIFT) ==
  Row(j, (b % 64) + SHIFT + (IF b < 576 THEN 512 ELSE 576), P) \notin ok[P]

(* xxOKOK<P>[P], defined in this file.                                    *)
OKOKLength_avx512 == [P \in PrimesIn(61, 277) |-> P]

(* rems as REM first fills it.                                              *)
FirstRems_avx512(n59) ==
  [l \in 1 .. 16 |->
     REM(n59, Lanes[l], IF l = 1 THEN 6 ELSE IF l <= 14 THEN 7 ELSE 8)]

(* The rows of a group, and its look-ups in the large and the small tables, *)
(* each behind a test that bits are left.                                   *)
RowsOf_avx512(g, n59, rems) ==
  IF g = 1 THEN {<<P, rems[LaneOf[P]]>> : P \in Groups_avx512[1]}
  ELSE {<<P, REM(n59, P, IF P < 257 THEN 8 ELSE 9)>> : P \in Groups_avx512[g]}
LookUpxx_avx512(g, bits, n59, rems, ok, SHIFT) ==
  LET rows == RowsOf_avx512(g, n59, rems)
  IN  {b \in bits : \A r \in rows : OKOKxx_avx512(ok, r[1], r[2], b, SHIFT)}
LookUpix_avx512(g, bits, n59, rems, ok, SHIFT) ==
  LET rows == RowsOf_avx512(g, n59, rems)
  IN  {b \in bits : \A r \in rows : OKOKix_avx512(ok, r[1], r[2], b, SHIFT)}
LookUp_avx512(g, bits, n59, rems, ok, SHIFT, maxshift) ==
  IF \A b \in bits : b < 512 THEN LookUpxx_avx512(g, bits, n59, rems, ok, SHIFT)
                             ELSE LookUpix_avx512(g, bits, n59, rems, ok, SHIFT)

(* Deviation: both words of the small tables decode as the first of them.   *)
DecodeSmallAlike_avx512(n59, b, SHIFT) ==
  Candidate(n59, (b % 64) + SHIFT + (IF b < 512 THEN 64 * (b \div 64) ELSE 512))

(* A set bit's candidate, and the tests in front of the walk.               *)
Decode_avx512(n59, b, SHIFT) ==
  Candidate(n59, (b % 64) + SHIFT + (IF b < 512 THEN 64 * (b \div 64)
                                   ELSE IF b < 576 THEN 512 ELSE 576))
Passes_avx512(n, ok) == /\ \A p \in PrimesIn(7, 23) : Rem(n, p) # 0
                 /\ \A P \in Tested_avx512 : Rem(n, P) \notin ok[P]

(* One lane after n59 += S59 and its possible n59 -= MOD.                   *)
NextRem_avx512(l, r, v, wraps) ==
  LET w == Wrapped(r + v.s[l], v.num1[l], v.m[l], wraps)
  IN  IF w >= v.num1[l] THEN w - v.num1[l] ELSE w
=============================================================================
