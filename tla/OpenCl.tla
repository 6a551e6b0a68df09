------------------------------- MODULE OpenCl --------------------------------
(* The search as the OpenCL build computes it: SearchAP26 (src/opencl/AP26.h) *)
(* and the kernels of src/opencl/kernels.  Its offset, setupok and sieve      *)
(* kernels have the tables, the literals and the look-ups of the CUDA ones;   *)
(* its setupokok ORs bits into words that clearokok has to clear first.  "cl" *)
(* is sieve.cl, which has no shared memory, "clnv" is sieve_nv.cl.            *)
EXTENDS Kernels

offset_opencl == offset_cuda

(* SearchAP26's locals, and the table it writes to n43_d.                     *)
Prologue_opencl(K) ==
  [STEP |-> Times(Small(K), PRIM23), n0 |-> Mod(Plus(Parts(N0, K), N30), MOD),
   S31 |-> Scaled(PRES2, K), S37 |-> Scaled(PRES3, K), S41 |-> Scaled(PRES4, K),
   S43 |-> Scaled(PRES5, K), S47 |-> Scaled(PRES6, K), S53 |-> Scaled(PRES7, K),
   S59 |-> Scaled(PRES8, K)]
Entries_opencl == {i \in Counters : Near(i[1], i[2], i[3])}
n43_h_opencl(q, i) ==
  LET Term(k, S) == Times(Small(k), S)
      a == Plus(Plus(q.n0, Term(i[4], S3)), Term(i[5], S5))
      b == Plus(Plus(Term(i[1], q.S31), Term(i[2], q.S37)), Term(i[3], q.S41))
  IN  Mod(Plus(a, b), MOD)

(* setupok: the cells of OK it clears, block by block.                        *)
Cleared_opencl(STEP) == Cleared_cuda(STEP)

(* What the words of OKOK hold is described by the shifts that were ORed into *)
(* them: clearokok clears all 23693 words, setupokok adds the bits of one     *)
(* shift, and bit jj of a word is set when one of them set it.                *)
Words_opencl == offset_opencl[541] + 541
Clearokok(okok) == IF Words_opencl <= 23693 THEN {} ELSE okok
Setupokok_opencl(okok, shift) == okok \cup {shift}
BitSet_opencl(cleared, P, i, jj, okok) ==
  \E shift \in okok : Row(i, jj + shift, P) + offset_opencl[P] \notin cleared

(* The groups of look-ups joined by one if.                                   *)
Groups_opencl   == StdGroups
NvGroups_opencl == NvGroups_cuda

(* One group of look-ups, in shared memory up to 257 for sieve_nv.            *)
LookUp_opencl(kernel, primes, bits, n59, cleared, okok) ==
  LET reads == {<<P, Residue(n59, P)>> : P \in primes}
  IN  IF kernel = "clnv" /\ \E r \in reads : r[1] <= 257 /\ ~Copied("nv", r[2] + offset_opencl[r[1]])
      THEN {}
      ELSE {jj \in bits : \A r \in reads : BitSet_opencl(cleared, r[1], r[2], jj, okok)}

(* The candidate of a set bit, and the tests in front of n_result.            *)
Decode_opencl(n59, jj, shift) == Candidate(n59, jj + shift)
Kept_opencl(n) == \A p \in PrimesIn(7, 23) : Rem(n, p) # 0
=============================================================================
