------------------------------ MODULE Kernels -------------------------------
(* The search as the CUDA build computes it: SearchAP26 (src/cuda/AP26.h)    *)
(* prepares the same table of n43s, and kernels fill flat OK and OKOK arrays *)
(* and sieve one 64-bit word a launch.  The kernels "std" (sieve.cu),        *)
(* "mid" (sieve_mid.cu), "nv" (sieve_nv.cu) and "ilp2" (sieve_ilp2.cu) differ*)
(* in the part of OKOK they copy to shared memory and in how they group the  *)
(* look-ups; an "ilp2" is one of the two independent chains of its threads.  *)
EXTENDS SieveTables

g_primes == <<
  61, 67, 71, 73, 79, 83, 89, 97, 101, 103, 107, 109, 113, 127, 131, 137,
  139, 149, 151, 157, 163, 167, 173, 179, 181, 191, 193, 197, 199, 211, 223,
  227, 229, 233, 239, 241, 251, 257, 263, 269, 271, 277, 281, 283, 293, 307,
  311, 313, 317, 331, 337, 347, 349, 353, 359, 367, 373, 379, 383, 389, 397,
  401, 409, 419, 421, 431, 433, 439, 443, 449, 457, 461, 463, 467, 479, 487,
  491, 499, 503, 509, 521, 523, 541>>

(* offset[P], the start of the block of P in OK and OKOK.                    *)
offsets == <<
  0, 61, 128, 199, 272, 351, 434, 523, 620, 721, 824, 931, 1040, 1153, 1280,
  1411, 1548, 1687, 1836, 1987, 2144, 2307, 2474, 2647, 2826, 3007, 3198,
  3391, 3588, 3787, 3998, 4221, 4448, 4677, 4910, 5149, 5390, 5641, 5898,
  6161, 6430, 6701, 6978, 7259, 7542, 7835, 8142, 8453, 8766, 9083, 9414,
  9751, 10098, 10447, 10800, 11159, 11526, 11899, 12278, 12661, 13050,
  13447, 13848, 14257, 14676, 15097, 15528, 15961, 16400, 16843, 17292,
  17749, 18210, 18673, 19140, 19619, 20106, 20597, 21096, 21599, 22108,
  22629, 23152>>

(* The factor of the high part of n59 in the kernels' remainder: 2^30 % P.    *)
coefficients == <<
  60, 25, 20, 8, 52, 40, 78, 33, 17, 93, 34, 46, 4, 4, 62, 77, 45, 144, 1,
  141, 25, 127, 24, 121, 49, 180, 27, 22, 111, 171, 169, 44, 212, 2, 147,
  64, 219, 193, 140, 79, 258, 76, 79, 204, 253, 114, 18, 19, 58, 1, 175,
  292, 48, 191, 108, 15, 152, 335, 175, 295, 141, 164, 259, 273, 269, 144,
  115, 65, 196, 81, 216, 447, 376, 13, 96, 328, 438, 111, 299, 216, 420,
  335, 189>>

NumberOf == [P \in PrimesIn(61, 541) |-> CHOOSE i \in 1 .. 83 : g_primes[i] = P]
offset_cuda   == [P \in PrimesIn(61, 541) |-> offsets[NumberOf[P]]]

(* SearchAP26's locals, and the table it writes to n43_d.                    *)
Prologue_cuda(K) ==
  [STEP |-> Times(Small(K), PRIM23), n0 |-> Mod(Plus(Parts(N0, K), N30), MOD),
   S31 |-> Scaled(PRES2, K), S37 |-> Scaled(PRES3, K), S41 |-> Scaled(PRES4, K),
   S43 |-> Scaled(PRES5, K), S47 |-> Scaled(PRES6, K), S53 |-> Scaled(PRES7, K),
   S59 |-> Scaled(PRES8, K)]
Entries_cuda == {i \in Counters : Near(i[1], i[2], i[3])}
n43_h_cuda(q, i) ==
  LET Term(k, S) == Times(Small(k), S)
      a == Plus(Plus(q.n0, Term(i[4], S3)), Term(i[5], S5))
      b == Plus(Plus(Term(i[1], q.S31), Term(i[2], q.S37)), Term(i[3], q.S41))
  IN  Mod(Plus(a, b), MOD)

(* setupok: the cells of OK it clears, block by block.                       *)
Cleared_cuda(STEP) ==
  UNION {{((i * Rem(STEP, P)) % P) + offset_cuda[P] : i \in P - 23 .. P} : P \in PrimesIn(61, 541)}

(* setupokok stores every word once, whatever it held: the words hold the    *)
(* bits of one shift, bit jj of the word of residue i of P being this.  A    *)
(* thread multiplies once and then goes on from bit to bit by MOD % P.       *)
Setupokok_cuda(okok, shift) == {shift}
BitSet_cuda(cleared, P, i, jj, okok) ==
  \E shift \in okok :
    ((Row(i, shift, P) + jj * MODrem[P]) % P) + offset_cuda[P] \notin cleared

(* (n59a + c*n59b) % P in 32 bits, n59a the low 30 bits of n59.              *)
Residue(n59, P) ==
  LET n59a == n59[3] + B * (n59[2] % 64)
      n59b == n59[2] \div 64 + 262144 * n59[1]
  IN  (n59a + coefficients[NumberOf[P]] * n59b) % P

(* Whether a block has copied a word to shared memory, in strides of its own *)
(* size or, in sieve_nv, of the 1024 threads it is launched with, and the    *)
(* primes whose words a kernel reads there.                                  *)
Copied(kernel, index) ==
  CASE kernel \in {"std", "ilp2"} -> index < 3198
    [] kernel = "mid" -> index < 1411
    [] kernel = "nv"  -> \/ \E c \in 0 .. 4 : index - 1024 * c \in 0 .. 1023
                         \/ index - 5120 \in 0 .. 777
ReadsLocal(kernel, P) == CASE kernel \in {"std", "ilp2"} -> P <= 191
                           [] kernel = "mid" -> P <= 131
                           [] kernel = "nv"  -> P <= 257

(* The groups of look-ups joined by one if: from 179 on, all but nv take *)
(* the primes in pairs.                                                      *)
StdGroups == <<PrimesIn(61, 79), PrimesIn(83, 103), PrimesIn(107, 131),
               PrimesIn(137, 151), PrimesIn(157, 173)>>
             \o [i \in 1 .. 30 |-> {g_primes[22 + 2 * i], g_primes[23 + 2 * i]}]
MidGroups == StdGroups
IlpGroups == StdGroups
NvGroups_cuda  == <<PrimesIn(61, 257), PrimesIn(263, 307), PrimesIn(311, 353), PrimesIn(359, 401),
               PrimesIn(409, 449), PrimesIn(457, 499), PrimesIn(503, 541)>>

(* One group of look-ups; a read of shared memory finds what was copied.     *)
LookUp_cuda(kernel, primes, bits, n59, cleared, okok) ==
  LET reads == {<<P, Residue(n59, P)>> : P \in primes}
  IN  IF \E r \in reads : ReadsLocal(kernel, r[1]) /\ ~Copied(kernel, r[2] + offset_cuda[r[1]])
      THEN {}
      ELSE {jj \in bits : \A r \in reads : BitSet_cuda(cleared, r[1], r[2], jj, okok)}

(* The candidate of a set bit, and the tests in front of n_result.           *)
Decode_cuda(n59, jj, shift) == Candidate(n59, jj + shift)
Kept_cuda(n) == \A p \in PrimesIn(7, 23) : Rem(n, p) # 0
=============================================================================
