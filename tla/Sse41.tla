-------------------------------- MODULE Sse41 -------------------------------
(* The search as src/cpu/cpusse41.cpp computes it: the words and lanes of   *)
(* the SSE2 build, with the test for remaining bits done in the vector unit.*)
EXTENDS SieveTables

Groups_sse41 == <<PrimesIn(61, 137), PrimesIn(139, 199), PrimesIn(211, 277)>>
Tested_sse41 == PrimesIn(281, 541)

(* Search_sse41's locals.                                                   *)
Prologue_sse41(K) ==
  [STEP |-> Times(Small(K), PRIM23), n0 |-> Mod(Plus(Parts(N0, K), N30), MOD),
   S31 |-> Scaled(PRES2, K), S37 |-> Scaled(PRES3, K), S41 |-> Scaled(PRES4, K),
   S43 |-> Scaled(PRES5, K), S47 |-> Scaled(PRES6, K), S53 |-> Scaled(PRES7, K),
   S59 |-> Scaled(PRES8, K)]

(* The entries of n43_h, by the counters of the five loops that fill it.    *)
Entries_sse41 == {i \in Counters : Near(i[1], i[2], i[3])}
n43_h_sse41(q, i) ==
  LET Term(k, S) == Times(Small(k), S)
      a == Plus(Plus(q.n0, Term(i[4], S3)), Term(i[5], S5))
      b == Plus(Plus(Term(i[1], q.S31), Term(i[2], q.S37)), Term(i[3], q.S41))
  IN  Mod(Plus(a, b), MOD)

(* The quick loop vectors svec and mvec; numvec1 is the primes themselves   *)
(* and numvec2 the primes less one.                                         *)
Vectors_sse41(q) == [s |-> [l \in 1 .. 16 |-> Rem(q.S59, Lanes[l])],
               m |-> [l \in 1 .. 16 |-> MODrem[Lanes[l]]],
               num1 |-> Lanes, num2 |-> [l \in 1 .. 16 |-> Lanes[l] - 1]]

(* MAKE_OK: the cells of OK<P> it clears, and the primes it is called for.  *)
MakeOK_sse41(P, STEP) == {(j * Rem(STEP, P)) % P : j \in P - 23 .. P}
OKPrimes_sse41 == PrimesIn(61, 541)

(* for(SHIFT=startSHIFT; SHIFT<maxshift; SHIFT+=128), and the words of one  *)
(* iteration as the bits 64*ii + setbit.                                    *)
NextSHIFT_sse41(SHIFT) == SHIFT + 128
Bits_sse41 == <<0 .. 127>>

(* MAKE_OKOK: bit b of ixOKOK<P>[j].                                        *)
OKOK_sse41(ok, P, j, b, SHIFT, maxshift) ==
  /\ SHIFT + 64 * (b \div 64) < maxshift
  /\ Row(j, (b % 64) + SHIFT + 64 * (b \div 64), P) \notin ok[P]

(* ixOKOK<P>[P], defined in this file.                                    *)
OKOKLength_sse41 == [P \in PrimesIn(61, 277) |-> P]

(* rems and rrems as REM first fills them.                                  *)
FirstRems_sse41(n59) ==
  [l \in 1 .. 16 |->
     REM(n59, Lanes[l], IF l = 1 THEN 6 ELSE IF l <= 14 THEN 7 ELSE 8)]

(* The three groups of look-ups, each behind a test that bits are left.     *)
LookUp_sse41(g, bits, n59, rems, ok, SHIFT, maxshift) ==
  LET rows == IF g = 1 THEN {<<P, rems[LaneOf[P]]>> : P \in Groups_sse41[1]}
              ELSE {<<P, REM(n59, P, IF P < 257 THEN 8 ELSE 9)>> : P \in Groups_sse41[g]}
  IN  {b \in bits : \A r \in rows : OKOK_sse41(ok, r[1], r[2], b, SHIFT, maxshift)}

(* A set bit's candidate, and the tests in front of the walk.               *)
Decode_sse41(n59, b, SHIFT) == Candidate(n59, (b % 64) + SHIFT + 64 * (b \div 64))
Passes_sse41(n, ok) == /\ \A p \in PrimesIn(7, 23) : Rem(n, p) # 0
                 /\ \A P \in Tested_sse41 : Rem(n, P) \notin ok[P]

(* Deviation: the last correction of a lane is left out.                    *)
NextRemUnreduced_sse41(l, r, v, wraps) == Wrapped(r + v.s[l], v.num1[l], v.m[l], wraps)

(* One lane after n59 += S59 and its possible n59 -= MOD.                   *)
NextRem_sse41(l, r, v, wraps) ==
  LET w == Wrapped(r + v.s[l], v.num1[l], v.m[l], wraps)
  IN  IF w > v.num2[l] THEN w - v.num1[l] ELSE w
=============================================================================
