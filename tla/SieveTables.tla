---------------------------- MODULE SieveTables ----------------------------
(* The constants every build of the search shares and the idioms its source *)
(* files repeat: the residue constants of mainconst.h and cpuconst.h, the    *)
(* product with K reduced modulo MOD, the OK and OKOK tables, and the fast   *)
(* remainder REM.  The variant modules (Sse2, Sse41, Avx, Avx2, Avx512,      *)
(* Kernels) say what each file does with them.                               *)
EXTENDS UInt64, FiniteSets

PRIM23 == Small(223092870)                   \* 2*3*5*7*11*13*17*19*23
MOD    == Dec(<<258, 559632, 607830>>)       \* 2*3*5*29*31*37*41*43*47*53*59
N0     == Dec(<<106, 990415, 896110>>)
N30    == Dec(<<94, 805198, 622871>>)
S3     == Dec(<<172, 373088, 405220>>)
S5     == Dec(<<51, 711926, 521566>>)
PRES2  == Dec(<<16, 681266, 619860>>)
PRES3  == Dec(<<181, 690552, 643340>>)
PRES4  == Dec(<<132, 432982, 555230>>)
PRES5  == Dec(<<126, 273308, 948010>>)
PRES6  == Dec(<<115, 526644, 356690>>)
PRES7  == Dec(<<48, 784836, 341100>>)
PRES8  == Dec(<<100, 794433, 50510>>)

PRIME5 == 43
PRIME6 == 47
PRIME7 == 53
PRIME8 == 59
numn43s == 10840

IsPrime(p)      == p > 1 /\ \A d \in 2 .. p - 1 : d * d <= p => p % d # 0
Primes          == {p \in 2 .. 541 : IsPrime(p)}
PrimesIn(a, b)  == {p \in Primes : a <= p /\ p <= b}

(* MOD % p, once for every prime the tables use.                             *)
MODrem == [p \in Primes |-> Rem(MOD, p)]

(* c * K % MOD by parts, so that neither product leaves 64 bits:             *)
(* c*(K%17835) + ((c*17835)%MOD)*(K/17835).                                  *)
Parts(c, K)  == Plus(Times(c, Small(K % 17835)),
                     Times(Mod(Times(c, Small(17835)), MOD), Small(K \div 17835)))
Scaled(c, K) == Mod(Parts(c, K), MOD)

(* n += S; if(n>=MOD) n-=MOD;                                                *)
Advance(n, S) == LET m == Plus(n, S) IN IF AtLeast(m, MOD) THEN Minus(m, MOD) ELSE m

(* (j + shift*MOD) % P in 64 bits: up to LastShift the sum is a word and its *)
(* remainder is that of its parts, beyond it the sum wraps.                  *)
LastShift == 71344
Row(j, shift, P) ==
  IF shift <= LastShift
  THEN (j + (shift % P) * MODrem[P]) % P
  ELSE Rem(Plus(Small(j), Times(Small(shift), MOD)), P)

(* n59 + shift*MOD, the candidate a set bit stands for.                      *)
Candidate(n59, shift) == Plus(n59, Times(Small(shift), MOD))

(* Deviation: one of the window conditions is off by one.                    *)
NearWide(i31, i37, i41) ==
  /\ i37 - i31 <= 10 /\ i31 - i37 <= 4
  /\ i41 - i31 <= 15 /\ i41 - i37 <= 14 /\ i31 - i41 <= 4 /\ i37 - i41 <= 10

(* The five counters of the table's loops, as the conditions between them    *)
(* let them through, and what the table holds for them.                      *)
Counters == (0 .. 6) \X (0 .. 12) \X (0 .. 16) \X (0 .. 1) \X (0 .. 3)
Near(i31, i37, i41) ==
  /\ i37 - i31 <= 10 /\ i31 - i37 <= 4
  /\ i41 - i31 <= 14 /\ i41 - i37 <= 14 /\ i31 - i41 <= 4 /\ i37 - i41 <= 10

(* The lengths of the tables: char OK<P>[P], and a vector for each row of    *)
(* the look-ups, ixOKOK<P>[P] of 128 and xOKOK<P>[P] of 256 bits.            *)
OKLength == [P \in PrimesIn(61, 541) |-> P]
ixLength == [P \in PrimesIn(61, 277) |-> P]
xLength  == [P \in PrimesIn(61, 277) |-> P]

(* The literals INV<P> of cpuconst.h, each after its prime.                   *)
INVs == <<
  <<61, 302405, 640552, 615600>>, <<67, 275324, 538413, 575397>>, <<71, 259813, 296812, 810586>>,
  <<73, 252695, 124297, 391118>>, <<79, 233503, 89540, 627235>>, <<83, 222249, 928598, 910260>>,
  <<89, 207266, 787345, 51141>>, <<97, 190172, 619316, 593315>>, <<101, 182641, 30432, 767837>>,
  <<103, 179094, 602657, 374287>>, <<107, 172399, 477324, 388332>>, <<109, 169236, 184162, 472950>>,
  <<113, 163245, 522776, 190722>>, <<127, 145249, 953336, 295682>>, <<131, 140814, 840257, 324821>>,
  <<137, 134647, 766961, 383588>>, <<139, 132710, 389019, 493177>>, <<149, 123803, 651501, 406386>>,
  <<151, 122163, 868037, 811600>>, <<157, 117495, 185182, 863386>>, <<163, 113170, 209041, 162893>>,
  <<167, 110459, 545351, 554201>>, <<173, 106628, 578460, 748853>>, <<179, 103054, 436165, 975148>>,
  <<181, 101915, 713114, 417412>>, <<191, 96579, 811904, 238490>>, <<193, 95578, 984837, 873324>>,
  <<197, 93638, 294790, 403815>>, <<199, 92697, 206400, 550510>>, <<211, 87425, 327363, 552377>>,
  <<223, 82720, 825442, 643729>>, <<227, 81263, 189752, 24456>>, <<229, 80553, 467570, 784068>>,
  <<233, 79170, 575423, 646144>>, <<239, 77183, 29597, 111094>>, <<241, 76542, 506529, 915151>>,
  <<251, 73493, 4277, 727297>>, <<257, 71777, 214294, 589695>>, <<263, 70139, 711306, 880424>>,
  <<269, 68575, 256779, 589411>>, <<271, 68069, 166323, 651481>>, <<277, 66594, 743948, 409933>> >>
INV == [p \in PrimesIn(61, 277) |->
          Dec(Tail(INVs[CHOOSE i \in 1 .. Len(INVs) : INVs[i][1] = p]))]

(* REM(N,P,S): the high bits of INV<P>*(N+1), cut to 32 bits, times P in 32  *)
(* bits, and the top S of those.  The two shifts discard 32+S and 32-S bits. *)
REM(N, P, S) ==
  LET x == Times(INV[P], Plus(N, Small(1)))
      h == x[1] * 2 ^ (16 - S) + x[2] \div 2 ^ (8 + S)
      y == Times(Small(P), Small(h))
  IN  ((y[2] % 256) * 256 + y[3] \div 65536) \div 2 ^ (16 - S)

(* One lane of the vector update: add, and when n59 wrapped subtract MOD%P   *)
(* and repair a negative lane.                                               *)
Wrapped(r, P, m, wraps) == IF ~wraps THEN r ELSE IF r - m < 0 THEN r - m + P ELSE r - m

(* The sixteen primes whose rows the vector lanes hold, in lane order.       *)
Lanes  == <<61, 67, 71, 73, 79, 83, 89, 97, 101, 103, 107, 109, 113, 127, 131, 137>>
LaneOf == [P \in PrimesIn(61, 137) |-> CHOOSE l \in 1 .. 16 : Lanes[l] = P]
=============================================================================
