------------------------------- MODULE Sieve --------------------------------
(* The sieve of one K: the table of n43s, the four loops that reach every    *)
(* n59 of an entry, and for each n59 the look-ups that leave the shifts      *)
(* whose 24-term window has no small factor.  A variant is one of the five   *)
(* CPU builds or of the GPU kernels; the worker threads, the launches and   *)
(* what a surviving candidate goes through are modules of their own.         *)
(*                                                                           *)
(* The loops of one K visit 10840*443555 values n59.  The model enters them  *)
(* at sampled positions, with the values the loops hold there, walks the     *)
(* next rows of 35, and does so in every iteration over SHIFT.               *)
EXTENDS Sse2, Sse41, Avx, Avx2, Avx512, OpenCl, SequencesExt

CONSTANT Samples   \* pairs of a variant and a position

CPU    == {"sse2", "sse41", "avx", "avx2", "avx512"}
Cuda   == {"std", "mid", "nv", "ilp2"}
OpenCL == {"cl", "clnv"}
Kernel == Cuda \cup OpenCL

VARIABLES
  pc,        \* "prepare", "begin", "row", "look", "check", "bits", "advance", "done"
  v,         \* the variant
  start,     \* the sampled position
  q,         \* Search's locals STEP, n0, S31 ... S59
  vec,       \* the vectors of the quick loop; on the GPU empty
  ok,        \* the cleared cells of the OK tables
  okok,      \* on the GPU, the shifts whose bits the OKOK words hold
  SHIFT,     \* the iteration over shifts
  i43, i47, i53, i59, n43, n47, n53, n59,
  rems,      \* the vector lanes; empty on the GPU
  part, g,   \* the tables being looked up and the group of primes
  sito,      \* the bits left
  rows,      \* rows walked in this iteration
  report     \* the candidates that passed every test, in order

tables == <<q, vec, ok>>
vars == <<pc, v, start, tables, okok, SHIFT, i43, i47, i53, i59, n43, n47, n53, n59,
          rems, part, g, sito, rows, report>>
----------------------------------------------------------------------------
(* What each variant computes.                                               *)
Of(u, sse2, sse41, avx, avx2, avx512, cuda, opencl) ==
  CASE u = "sse2" -> sse2 [] u = "sse41" -> sse41 [] u = "avx" -> avx
    [] u = "avx2" -> avx2 [] u = "avx512" -> avx512
    [] u \in Cuda -> cuda [] u \in OpenCL -> opencl

Prologue(u, K) ==
  Of(u, Prologue_sse2(K), Prologue_sse41(K), Prologue_avx(K), Prologue_avx2(K),
     Prologue_avx512(K), Prologue_cuda(K), Prologue_opencl(K))
Entries(u) ==
  Of(u, Entries_sse2, Entries_sse41, Entries_avx, Entries_avx2, Entries_avx512,
     Entries_cuda, Entries_opencl)
N43(u, p, i) ==
  Of(u, n43_h_sse2(p, i), n43_h_sse41(p, i), n43_h_avx(p, i), n43_h_avx2(p, i),
     n43_h_avx512(p, i), n43_h_cuda(p, i), n43_h_opencl(p, i))

(* MAKE_OK and the vectors of the quick loop; on the GPU, setupok.            *)
Of5(u, sse2, sse41, avx, avx2, avx512) == Of(u, sse2, sse41, avx, avx2, avx512, {}, {})
MakeOK(u, P, STEP) ==
  Of5(u, MakeOK_sse2(P, STEP), MakeOK_sse41(P, STEP), MakeOK_avx(P, STEP),
      MakeOK_avx2(P, STEP), MakeOK_avx512(P, STEP))
OKPrimes(u) ==
  Of5(u, OKPrimes_sse2, OKPrimes_sse41, OKPrimes_avx, OKPrimes_avx2, OKPrimes_avx512)
Vectors(u, p) ==
  Of5(u, Vectors_sse2(p), Vectors_sse41(p), Vectors_avx(p), Vectors_avx2(p), Vectors_avx512(p))

(* The rows of the vector tables: SSE2 shares those of SSE4.1, AVX of AVX2.   *)
OKOKLength(u) ==
  Of5(u, ixLength, OKOKLength_sse41, xLength, OKOKLength_avx2, OKOKLength_avx512)

Bits(u) == Of(u, Bits_sse2, Bits_sse41, Bits_avx, Bits_avx2, Bits_avx512, <<0 .. 63>>, <<0 .. 63>>)
Groups(u) ==
  Of(u, Groups_sse2, Groups_sse41, Groups_avx, Groups_avx2, Groups_avx512,
     CASE u = "std" -> StdGroups [] u = "mid" -> MidGroups
       [] u = "nv" -> NvGroups_cuda [] u = "ilp2" -> IlpGroups,
     IF u = "clnv" THEN NvGroups_opencl ELSE Groups_opencl)
NextSHIFT(u, s) ==
  Of(u, NextSHIFT_sse2(s), NextSHIFT_sse41(s), NextSHIFT_avx(s), NextSHIFT_avx2(s),
     NextSHIFT_avx512(s), s + 64, s + 64)

(* A position the loops come to, in an entry of the table: the counters of   *)
(* the loops, the rows to walk from there, and a progression known there.    *)
INT_MAX  == 2147483647
Position == [K : 0 .. INT_MAX, startSHIFT : 0 .. INT_MAX - 1280, entry : Counters,
             i43 : 1 .. 19, i47 : 1 .. 23, i53 : 1 .. 29, rows : Nat \ {0}, known : UInt64]
ASSUME SieveAssumption ==
  /\ Samples \subseteq (CPU \cup Kernel) \X Position
  /\ \A s \in Samples : s[2].entry \in Entries(s[1])

maxshift == start.startSHIFT + 640

FirstRems(n) ==
  Of(v, FirstRems_sse2(n), FirstRems_sse41(n), FirstRems_avx(n), FirstRems_avx2(n),
     FirstRems_avx512(n), <<>>, <<>>)
NextRems(wraps) ==
  [l \in DOMAIN rems |->
     Of(v, NextRem_sse2(l, rems[l], vec, wraps), NextRem_sse41(l, rems[l], vec, wraps),
        NextRem_avx(l, rems[l], vec, wraps), NextRem_avx2(l, rems[l], vec, wraps),
        NextRem_avx512(l, rems[l], vec, wraps), 0, 0)]
LookUp ==
  Of(v, LookUp_sse2(g, sito, n59, rems, ok, SHIFT, maxshift),
     LookUp_sse41(g, sito, n59, rems, ok, SHIFT, maxshift),
     LookUp_avx(g, sito, n59, rems, ok, SHIFT, maxshift),
     LookUp_avx2(g, sito, n59, rems, ok, SHIFT, maxshift),
     LookUp_avx512(g, sito, n59, rems, ok, SHIFT, maxshift),
     LookUp_cuda(v, Groups(v)[g], sito, n59, ok, okok),
     LookUp_opencl(v, Groups(v)[g], sito, n59, ok, okok))
Decode(b) ==
  Of(v, Decode_sse2(n59, b, SHIFT), Decode_sse41(n59, b, SHIFT), Decode_avx(n59, b, SHIFT),
     Decode_avx2(n59, b, SHIFT), Decode_avx512(n59, b, SHIFT), Decode_cuda(n59, b, SHIFT),
     Decode_opencl(n59, b, SHIFT))
Passes(n) ==
  Of(v, Passes_sse2(n, ok), Passes_sse41(n, ok), Passes_avx(n, ok), Passes_avx2(n, ok),
     Passes_avx512(n, ok), Kept_cuda(n), Kept_opencl(n))
----------------------------------------------------------------------------
(* t times n += S; if(n>=MOD) n-=MOD;, which for n and S below MOD is the    *)
(* remainder of n + t*S.                                                     *)
After(n, S, t) == Mod(Plus(n, Times(Small(t), S)), MOD)

Init ==
  /\ pc = "prepare"
  /\ \E s \in Samples : v = s[1] /\ start = s[2]
  /\ q = [STEP |-> Zero] /\ vec = <<>> /\ ok = <<>> /\ okok = {}
  /\ SHIFT = start.startSHIFT
  /\ i43 = 0 /\ i47 = 0 /\ i53 = 0 /\ i59 = 0
  /\ n43 = Zero /\ n47 = Zero /\ n53 = Zero /\ n59 = Zero
  /\ rems = <<>> /\ part = 1 /\ g = 1 /\ sito = {} /\ rows = 0 /\ report = <<>>

(* Search's prologue for K: the locals, the vectors and the OK tables.       *)
Prepare ==
  /\ pc = "prepare"
  /\ q' = Prologue(v, start.K)
  /\ IF v \in Kernel
     THEN vec' = <<>> /\ ok' = IF v \in Cuda THEN Cleared_cuda(q'.STEP) ELSE Cleared_opencl(q'.STEP)
     ELSE vec' = Vectors(v, q') /\ ok' = [P \in OKPrimes(v) |-> MakeOK(v, P, q'.STEP)]
  /\ pc' = "begin"
  /\ UNCHANGED <<v, start, okok, SHIFT, i43, i47, i53, i59, n43, n47, n53, n59, rems, part, g, sito,
                 rows, report>>

(* An iteration over SHIFT fills its OKOK tables, on the GPU in launches of  *)
(* their own, and a thread comes to the position.                            *)
Begin ==
  /\ pc = "begin"
  /\ okok' = Of(v, {}, {}, {}, {}, {}, Setupokok_cuda(okok, SHIFT),
                Setupokok_opencl(Clearokok(okok), SHIFT))
  /\ i43' = start.i43 /\ i47' = start.i47 /\ i53' = start.i53
  /\ n43' = After(N43(v, q, start.entry), q.S43, PRIME5 - 24 - start.i43)
  /\ n47' = After(n43', q.S47, PRIME6 - 24 - start.i47)
  /\ n53' = After(n47', q.S53, PRIME7 - 24 - start.i53)
  /\ rows' = 0
  /\ pc' = "row"
  /\ UNCHANGED <<v, start, tables, SHIFT, i59, n59, rems, part, g, sito, report>>

(* n59=n53, the first remainders, and for(i59=(PRIME8-24);i59>0;i59--).      *)
Row35 ==
  /\ pc = "row"
  /\ n59' = n53
  /\ rems' = FirstRems(n53)
  /\ i59' = PRIME8 - 24
  /\ part' = 1 /\ g' = 1 /\ sito' = Bits(v)[1]
  /\ pc' = "look"
  /\ UNCHANGED <<v, start, tables, okok, SHIFT, i43, i47, i53, n43, n47, n53, rows, report>>

(* Leaving the look-ups of a part: on to the next part, or to n59 += S59.    *)
LeavePart ==
  IF part < Len(Bits(v))
  THEN /\ pc' = "look" /\ part' = part + 1 /\ g' = 1 /\ sito' = Bits(v)[part + 1]
  ELSE /\ pc' = "advance" /\ sito' = {} /\ UNCHANGED <<part, g>>

(* One group of look-ups, and the test of what is left.                      *)
Look ==
  /\ pc = "look"
  /\ LET left == LookUp
     IN  \/ /\ left = {}
           /\ LeavePart
        \/ /\ left # {}
           /\ sito' = left
           /\ IF g < Len(Groups(v)) THEN g' = g + 1 /\ pc' = pc ELSE g' = g /\ pc' = "check"
           /\ UNCHANGED part
  /\ UNCHANGED <<v, start, tables, okok, SHIFT, i43, i47, i53, i59, n43, n47, n53, n59, rems, rows, report>>

(* for each word, while(sito[ii]): the highest bit first.                    *)
Before(b, c) == b \div 64 < c \div 64 \/ (b \div 64 = c \div 64 /\ b > c)
Check ==
  /\ pc \in {"check", "bits"}
  /\ \E b \in sito :
       /\ \A c \in sito \ {b} : Before(b, c)
       /\ report' = IF Passes(Decode(b)) THEN Append(report, Decode(b)) ELSE report
       /\ IF sito = {b} THEN LeavePart
                        ELSE pc' = "bits" /\ sito' = sito \ {b} /\ UNCHANGED <<part, g>>
  /\ UNCHANGED <<v, start, tables, okok, SHIFT, i43, i47, i53, i59, n43, n47, n53, n59, rems, rows>>

(* n59 += S59 with its lanes, inside the row.                                *)
NextN59 ==
  /\ pc = "advance" /\ i59 > 1
  /\ i59' = i59 - 1
  /\ n59' = Advance(n59, q.S59)
  /\ rems' = NextRems(AtLeast(Plus(n59, q.S59), MOD))
  /\ part' = 1 /\ g' = 1 /\ sito' = Bits(v)[1]
  /\ pc' = "look"
  /\ UNCHANGED <<v, start, tables, okok, SHIFT, i43, i47, i53, n43, n47, n53, rows, report>>

(* The end of a row: the innermost of the loops i53, i47, i43 that has a     *)
(* value left goes on and the loops inside it begin again.                   *)
RowEnds == pc = "advance" /\ i59 = 1 /\ rows + 1 < start.rows
NextN53 ==
  /\ RowEnds /\ i53 > 1
  /\ i53' = i53 - 1 /\ n53' = Advance(n53, q.S53)
  /\ UNCHANGED <<i43, i47, n43, n47>>

(* Deviation: n53 is carried on instead of beginning again from n47.         *)
NextN47Carries ==
  /\ RowEnds /\ i53 = 1 /\ i47 > 1
  /\ i47' = i47 - 1 /\ n47' = Advance(n47, q.S47)
  /\ i53' = PRIME7 - 24 /\ n53' = Advance(n53, q.S53)
  /\ UNCHANGED <<i43, n43>>

NextN47 ==
  /\ RowEnds /\ i53 = 1 /\ i47 > 1
  /\ i47' = i47 - 1 /\ n47' = Advance(n47, q.S47)
  /\ i53' = PRIME7 - 24 /\ n53' = n47'
  /\ UNCHANGED <<i43, n43>>
NextN43 ==
  /\ RowEnds /\ i53 = 1 /\ i47 = 1 /\ i43 > 1
  /\ i43' = i43 - 1 /\ n43' = Advance(n43, q.S43)
  /\ i47' = PRIME6 - 24 /\ n47' = n43'
  /\ i53' = PRIME7 - 24 /\ n53' = n43'
NextRow ==
  /\ NextN53 \/ NextN47 \/ NextN43
  /\ rows' = rows + 1
  /\ pc' = "row"
  /\ UNCHANGED <<v, start, tables, okok, SHIFT, i59, n59, rems, part, g, sito, report>>

(* The sampled rows, or the entry, are finished: the next iteration.         *)
EntryEnds == i59 = 1 /\ (rows + 1 = start.rows \/ (i53 = 1 /\ i47 = 1 /\ i43 = 1))
NextIteration ==
  /\ pc = "advance" /\ EntryEnds
  /\ SHIFT' = NextSHIFT(v, SHIFT)
  /\ pc' = IF SHIFT' < maxshift THEN "begin" ELSE "done"
  /\ UNCHANGED <<v, start, tables, okok, i43, i47, i53, i59, n43, n47, n53, n59, rems, part, g, sito,
                 rows, report>>

Done == pc = "done" /\ UNCHANGED vars

Next == Prepare \/ Begin \/ Row35 \/ Look \/ Check \/ NextN59 \/ NextRow \/ NextIteration \/ Done

Spec == Init /\ [][Next]_vars
----------------------------------------------------------------------------
(* The definitions the properties compare the code with.                     *)

STEPrem(p) == Rem(q.STEP, p)

(* The residues x modulo p whose window of 24 terms has no zero.             *)
OpenResidues == [K \in {s[2].K : s \in Samples} |-> [p \in PrimesIn(7, 541) |->
  LET STEP == Rem(Times(Small(K), PRIM23), p)
  IN  {x \in 0 .. p - 1 : \A t \in 0 .. 23 : (x + t * STEP) % p # 0}]]
Open(x, p) == x \in OpenResidues[start.K][p]

(* The shifts of one n59, among those given, whose window no prime of the    *)
(* set divides.                                                              *)
CleanShifts(n, shifts, primes) ==
  LET residues == {<<p, Rem(n, p)>> : p \in primes}
  IN  {s \in shifts : \A r \in residues : Open((r[2] + (s % r[1]) * MODrem[r[1]]) % r[1], r[1])}

(* The variables range over the values the types of the code let them have:  *)
(* 64-bit n below MOD, cleared cells and lanes that index their tables.      *)
TypeOK ==
  /\ pc \in {"prepare", "begin", "row", "look", "check", "bits", "advance", "done"}
  /\ <<v, start>> \in Samples
  /\ \A n \in {n43, n47, n53, n59} : n \in UInt64 /\ ~AtLeast(n, MOD)
  /\ i43 \in 0 .. 19 /\ i47 \in 0 .. 23 /\ i53 \in 0 .. 29 /\ i59 \in 0 .. 35
  /\ v \in CPU => /\ \A P \in DOMAIN ok : ok[P] \subseteq 0 .. OKLength[P] - 1
                  /\ \A l \in DOMAIN rems : rems[l] \in 0 .. OKOKLength(v)[Lanes[l]] - 1
  /\ sito \subseteq Bits(v)[part]
  /\ g \in 1 .. Len(Groups(v)) /\ rows \in 0 .. start.rows
  /\ \A i \in DOMAIN report : report[i] \in UInt64

(* n43_h: the table holds numn43s entries, the size it was allocated with,   *)
(* and every AP26 is reached once.  Write m_p for the term of an AP26 with   *)
(* first term a, a = m_p*STEP modulo p: m_p is in 1..p-26 when no term is    *)
(* divisible by p.  The windows kept are those that start at term 0, 1 or 2  *)
(* of a progression so placed modulo 31, 37 and 41; the loops count m_p - 1. *)
TableExact ==
  LET Extendable(i31, i37, i41) ==
        \E j \in 0 .. 2 : /\ i31 + 1 - j \in 1 .. 31 - 26
                          /\ i37 + 1 - j \in 1 .. 37 - 26
                          /\ i41 + 1 - j \in 1 .. 41 - 26
  IN  pc = "prepare" =>
        /\ Cardinality(Entries(v)) = numn43s
        /\ {<<i[1], i[2], i[3]>> : i \in Entries(v)} =
             {i \in (0 .. 6) \X (0 .. 12) \X (0 .. 16) : Extendable(i[1], i[2], i[3])}
  
(* The loops reach exactly the residue class their counters stand for: n59   *)
(* is the number below MOD that is m_p*STEP modulo each p from 29 to 59,     *)
(* with m_p one more than what loop p has counted (3 for 29), odd, and       *)
(* 1+i3, 1+i5 modulo 3 and 5.  By the Chinese remainder theorem no two       *)
(* positions share an n59, and since 0 < m_p <= p-24 the window is open.     *)
ClassExact ==
  pc = "look" /\ part = 1 /\ g = 1 =>
    LET Class(n, p, m) == Rem(n, p) = (m * STEPrem(p)) % p /\ Open(Rem(n, p), p)
        e == start.entry
    IN  /\ ~AtLeast(n59, MOD)
        /\ Rem(n59, 2) = 1 /\ Rem(n59, 3) = 1 + e[4] /\ Rem(n59, 5) = 1 + e[5]
        /\ Class(n59, 29, 3)
        /\ Class(n59, 31, e[1] + 1) /\ Class(n59, 37, e[2] + 1) /\ Class(n59, 41, e[3] + 1)
        /\ Class(n59, 43, 20 - i43) /\ Class(n59, 47, 24 - i47)
        /\ Class(n59, 53, 30 - i53) /\ Class(n59, 59, 36 - i59)

(* Every row a look-up uses is n59 modulo its prime: the vector lanes, which *)
(* are never recomputed within a row of 35, the REM macro on the CPU and the *)
(* 32-bit remainder on the GPU.                                              *)
RowsExact ==
  pc = "look" /\ part = 1 /\ g = 1 =>
    IF v \in Kernel
    THEN \A p \in PrimesIn(61, 541) : Residue(n59, p) = Rem(n59, p)
    ELSE /\ \A l \in 1 .. 16 : rems[l] = Rem(n59, Lanes[l])
         /\ \A p \in PrimesIn(139, 277) : REM(n59, p, IF p < 257 THEN 8 ELSE 9) = Rem(n59, p)

(* The bits left after each group of look-ups are exactly the shifts, below  *)
(* maxshift, whose windows no prime looked up so far divides: OK and OKOK,   *)
(* the offsets of the flat arrays, the words of a vector and its masks agree.*)
SitoExact ==
  LET last == IF pc = "check" THEN g ELSE g - 1
      shifts == {SHIFT + b : b \in Bits(v)[part]} \ {s \in SHIFT .. SHIFT + 639 : s >= maxshift}
  IN  pc = "check" \/ (pc = "look" /\ g > 1) =>
        {SHIFT + b : b \in sito} =
          CleanShifts(n59, shifts, UNION {Groups(v)[h] : h \in 1 .. last})

(* When the iterations are over, the candidates of the first row walked were *)
(* reported once each, and they are exactly the windows over all 640 shifts  *)
(* that no prime from 7 to 541 divides: no iteration, word or bit is lost or *)
(* visited twice.  Where the start leads to a progression of the repository's*)
(* test files (cpu/test_*.txt) its window is among them.                     *)
RunExact ==
  pc = "done" =>
    LET first == After(After(After(N43(v, q, start.entry), q.S43, 19 - start.i43),
                             q.S47, 23 - start.i47), q.S53, 29 - start.i53)
        row == {After(first, q.S59, t) : t \in 0 .. 34}
        clean(n) == CleanShifts(n, start.startSHIFT .. maxshift - 1, PrimesIn(7, 541))
        windows == UNION {{Candidate(n, s) : s \in clean(n)} : n \in row}
    IN  /\ IsInjective(report)
        /\ windows \subseteq ToSet(report)
        /\ start.rows = 1 => ToSet(report) = windows
        /\ start.known # Zero => start.known \in ToSet(report)
=============================================================================
