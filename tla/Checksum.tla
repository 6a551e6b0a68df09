------------------------------ MODULE Checksum ------------------------------
(***************************************************************************)
(* The result checksum of AP26: the accumulator of ReportSolution, the     *)
(* merge that a worker thread does under lock3, and the number write_cksum *)
(* prints.  Both accumulations have the same shape -- add, and subtract    *)
(* MAXINTV once if the sum went above it -- on uint32_t variables.         *)
(***************************************************************************)
EXTENDS Integers

CONSTANTS
  MAXINTV,    \* "a bit less than 32bit signed int max": 2000000000
  Word        \* 2^32, the modulus of uint32_t arithmetic

\* AddMod never has to subtract twice, and two accumulators fit in a word.
ASSUME ChecksumAssumption ==
  /\ MAXINTV \in Nat \ {0}
  /\ Word \in Nat
  /\ 2 * MAXINTV < Word

Sums == 0..MAXINTV

\* checksum += x; if(checksum > MAXINTV) checksum -= MAXINTV;  (uint32_t)
AddMod(c, x) ==
  LET s == (c + x) % Word
  IN  IF s > MAXINTV THEN s - MAXINTV ELSE s

\* The representative of the true sum s that AddMod keeps: MAXINTV itself
\* stands for the multiples of MAXINTV, zero only for the empty sum.
Canon(s) == IF s = 0 THEN 0 ELSE ((s - 1) % MAXINTV) + 1

\* while(minmax > MAXINTV) minmax -= MAXINTV; leaves Canon of kmin + kmax, and
\* minmax << 32 | cksum keeps the two halves of the printed word apart.
BChecksum(kmin, kmax, c) == <<Canon(kmin + kmax), c>>
=============================================================================
