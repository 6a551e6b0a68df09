------------------------------ MODULE Candidate ------------------------------
(* What happens to one candidate of the sieve: the walk along its progression *)
(* with the base 2 test (the end of the loops in the five Search files, and   *)
(* the kernel checkn), and ReportSolution with the tests of validate_ap26     *)
(* that split a progression at terms which are only probable primes.          *)
(*                                                                            *)
(* Words have 16 bits (Montgomery); the other literals that 64 bits make      *)
(* large are constants, and keep what the code relies on: bases below Limit   *)
(* divide PRIM, to which every term is prime.                                 *)
EXTENDS Montgomery, SequencesExt, FiniteSetsExt

CONSTANTS
  PRIM,         \* 23#
  Longest,      \* more terms than any walk goes in one direction
  MAXINTV, Word32, \* of the accumulator, see Checksum
  Skip,         \* 5: the walk forward begins at n + Skip*STEP
  Full,         \* 10: the length from which a progression counts
  MINIMUM_AP_LENGTH_TO_REPORT,
  base,         \* the bases of validate_ap26
  Few,          \* 9: those it uses below Limit
  Limit,        \* 3825123056546413051
  Inputs        \* triples of a build, "cpu" or "gpu", a candidate and a K

VARIABLES
  build, n, K,
  pc,           \* "start", "forward", "back", "report", "done", "limit", "invalid"
  m, k, mstart,
  overflow,     \* counter[3], the software limit
  calls,        \* the calls of ReportSolution still to be made, <<AP_Length, First_Term>>
  lines,        \* the lines written to the results file
  checksum,
  apcount

vars == <<build, n, K, pc, m, k, mstart, overflow, calls, lines, checksum, apcount>>

Accumulator == INSTANCE Checksum WITH Word <- Word32

(* The step of a K, and walks that end: forward at a term of the word that    *)
(* fails the test or, for the kernel, where m would leave the word, and back  *)
(* at a term that fails the test or where the word ends.                      *)
StepOf(x) == (x * PRIM) % R
EndsForward(input) == \E j \in Skip .. Skip + Longest :
  LET distance == j * StepOf(input[3])
      last == input[2] + distance
  IN  distance < R /\ IF last < R THEN ~PrimeQ(last) ELSE input[1] = "gpu"
EndsBack(input) == \E d \in 0 .. Longest :
  LET first == input[2] + (Skip - 1 - d) * StepOf(input[3])
  IN  first > 0 /\ first < R => ~PrimeQ(first)

(* K is an int: STEP is an even number below 2^59, and of its multiples up to *)
(* the 32nd none wraps, more than there are terms in any progression known.   *)
(* What the sieve leaves is odd.  One addition never exceeds MAXINTV.         *)
ASSUME CandidateAssumption ==
  /\ Longest \in Nat /\ MAXINTV \in Nat /\ Word32 \in Nat
  /\ 999 + 2 * Longest <= MAXINTV /\ 2 * MAXINTV < Word32
  /\ PRIM \in Nat /\ PRIM % 2 = 0
  /\ Skip \in Nat \ {0} /\ Full \in Nat \ {0, 1} /\ MINIMUM_AP_LENGTH_TO_REPORT \in Nat \ {0}
  /\ \A i \in Inputs :
       /\ i \in {"cpu", "gpu"} \X Word \X (Nat \ {0})
       /\ i[2] % 2 = 1
       /\ i[3] * PRIM > 0 /\ i[3] * PRIM < R /\ (Skip + 1) * (i[3] * PRIM) < R
       /\ EndsForward(i) /\ EndsBack(i)

STEP == StepOf(K)
----------------------------------------------------------------------------
(* validate_ap26: the index of the first term refused, or AP_Length.          *)
Accepted(N) == \A i \in 1 .. (IF N < Limit THEN Few ELSE Len(base)) : strong_prp(base[i], N)
FirstFailing(AP_Length, f, Test(_)) ==
  IF f % 2 = 0 THEN 0
  ELSE LET failing == {j \in 0 .. AP_Length - 1 : ~Test((f + j * STEP) % R)}
       IN  IF failing = {} THEN AP_Length ELSE Min(failing)
validate_ap26(AP_Length, f)  == FirstFailing(AP_Length, f, Accepted)
val_base2_ap26(AP_Length, f) == FirstFailing(AP_Length, f, LAMBDA N : strong_prp(2, N))

Init ==
  /\ \E i \in Inputs : build = i[1] /\ n = i[2] /\ K = i[3]
  /\ pc = "start" /\ m = 0 /\ k = 0 /\ mstart = 0 /\ overflow = FALSE
  /\ calls = <<>> /\ lines = <<>> /\ checksum = 0 /\ apcount = 0

(* m = n + STEP*5; the kernel notes when that leaves the word.                *)
Start ==
  /\ pc = "start"
  /\ m' = (n + Skip * STEP) % R
  /\ overflow' = (build = "gpu" /\ m' < n)
  /\ pc' = "forward"
  /\ UNCHANGED <<build, n, K, k, mstart, calls, lines, checksum, apcount>>

(* Deviation: the walk back begins where the walk forward began.              *)
LeaveForwardTwice(length) ==
  IF length >= Full
  THEN pc' = "back" /\ m' = (n + Skip * STEP) % R /\ mstart' = m'
  ELSE pc' = (IF overflow' THEN "limit" ELSE "done") /\ UNCHANGED <<m, mstart>>

(* After the walk forward: back from n + STEP*4, or no progression.           *)
LeaveForward(length) ==
  IF length >= Full
  THEN pc' = "back" /\ m' = (n + (Skip - 1) * STEP) % R /\ mstart' = m'
  ELSE pc' = (IF overflow' THEN "limit" ELSE "done") /\ UNCHANGED <<m, mstart>>

(* Deviation: the kernel, too, walks on when m wraps.                         *)
ForwardWraps ==
  /\ pc = "forward"
  /\ IF PrimeQ(m) THEN k' = k + 1 /\ m' = (m + STEP) % R /\ UNCHANGED <<pc, mstart, overflow>>
     ELSE UNCHANGED <<k, overflow>> /\ LeaveForward(k)
  /\ UNCHANGED <<build, n, K, calls, lines, checksum, apcount>>

(* while(PrimeQ(m)) { k++; m += STEP; }, which the kernel leaves when m wraps.*)
Forward ==
  /\ pc = "forward"
  /\ IF PrimeQ(m)
     THEN /\ k' = k + 1
          /\ LET next == (m + STEP) % R
                 wraps == build = "gpu" /\ next < n
             IN  /\ overflow' = (overflow \/ wraps)
                 /\ IF wraps THEN LeaveForward(k')
                    ELSE m' = next /\ UNCHANGED <<pc, mstart>>
     ELSE /\ UNCHANGED <<k, overflow>>
          /\ LeaveForward(k)
  /\ UNCHANGED <<build, n, K, calls, lines, checksum, apcount>>

(* Deviation: the term that ended the walk is reported as the first.          *)
LeaveBackBelow(length, below) ==
  /\ apcount' = apcount + 1
  /\ IF overflow
     THEN pc' = "limit" /\ UNCHANGED calls
     ELSE pc' = "report" /\ calls' = <<<<length, below>>>>

(* ReportSolution(k, K, m + STEP), which the host of the kernel does not come *)
(* to when it finds counter[3] set.                                           *)
LeaveBack(length, below) ==
  /\ apcount' = apcount + 1
  /\ IF overflow
     THEN pc' = "limit" /\ UNCHANGED calls
     ELSE pc' = "report" /\ calls' = <<<<length, (below + STEP) % R>>>>

(* Deviation: m is signed and does not wrap.                                  *)
BackSigned ==
  /\ pc = "back"
  /\ IF PrimeQ(m)
     THEN k' = k + 1 /\ m' = m - STEP /\ UNCHANGED <<pc, calls, apcount>>
     ELSE UNCHANGED <<k, m>> /\ LeaveBack(k, m)
  /\ UNCHANGED <<build, n, K, mstart, overflow, lines, checksum>>

(* Deviation: without the test of m > mstart.                                 *)
BackThroughZero ==
  /\ pc = "back"
  /\ IF PrimeQ(m)
     THEN k' = k + 1 /\ m' = (m - STEP) % R /\ UNCHANGED <<pc, calls, apcount>>
     ELSE UNCHANGED <<k, m>> /\ LeaveBack(k, m)
  /\ UNCHANGED <<build, n, K, mstart, overflow, lines, checksum>>

(* while(PrimeQ(m)) { k++; m -= STEP; if(m > mstart) break; }                 *)
Back ==
  /\ pc = "back"
  /\ IF PrimeQ(m)
     THEN /\ k' = k + 1
          /\ m' = (m - STEP) % R
          /\ IF m' > mstart THEN LeaveBack(k', m') ELSE UNCHANGED <<pc, calls, apcount>>
     ELSE UNCHANGED <<k, m>> /\ LeaveBack(k, m)
  /\ UNCHANGED <<build, n, K, mstart, overflow, lines, checksum>>

(* Deviation: the trailing terms are not looked at.                           *)
SplitLeading(AP_Length, f, i) == <<<<i, f>>>>

(* The leading terms and those behind the term refused.                       *)
Split(AP_Length, f, i) ==
  <<<<i, f>>, <<AP_Length - (i + 1), (f + (i + 1) * STEP) % R>>>>

(* Deviation: a call for no terms adds nothing.                               *)
AddedForTerms(AP_Length, f) == IF AP_Length = 0 THEN 0 ELSE (f % 1000) + AP_Length

(* What a call adds to the checksum, also one for no terms.                   *)
Added(AP_Length, f) == (f % 1000) + AP_Length

(* The first term in the results file: PRId64 in the CPU build, which prints  *)
(* the upper half of the words as negative numbers, PRIu64 in the GPU builds. *)
Printed(f) == IF build = "cpu" /\ f >= R \div 2 THEN f - R ELSE f

(* One call of ReportSolution: its two additions to the checksum, then the    *)
(* calls for the terms before and after the first one refused, or a line.     *)
ReportSolution ==
  /\ pc = "report" /\ calls # <<>>
  /\ LET AP_Length == calls[1][1]
         f == calls[1][2]
         i == validate_ap26(AP_Length, f)
     IN  /\ checksum' = Accumulator!AddMod(checksum, Added(AP_Length, f))
         /\ \/ /\ i < AP_Length
               /\ UNCHANGED lines
               /\ IF val_base2_ap26(AP_Length, f) < AP_Length
                  THEN pc' = "invalid" /\ UNCHANGED calls
                  ELSE calls' = Split(AP_Length, f, i) \o Tail(calls) /\ UNCHANGED pc
            \/ /\ i = AP_Length
               /\ lines' = IF AP_Length >= MINIMUM_AP_LENGTH_TO_REPORT
                           THEN Append(lines, <<AP_Length, Printed(f)>>) ELSE lines
               /\ calls' = Tail(calls) /\ UNCHANGED pc
  /\ UNCHANGED <<build, n, K, m, k, mstart, overflow, apcount>>

Return ==
  /\ pc = "report" /\ calls = <<>>
  /\ pc' = "done"
  /\ UNCHANGED <<build, n, K, m, k, mstart, overflow, calls, lines, checksum, apcount>>

Ended == pc \in {"done", "limit", "invalid"} /\ UNCHANGED vars

Next == Start \/ Forward \/ Back \/ ReportSolution \/ Return \/ Ended

Spec == Init /\ [][Next]_vars
----------------------------------------------------------------------------
(* m stays a word, the calls stay within the run the walk found, and only a   *)
(* GPU build stops at the software limit.                                     *)
TypeOK ==
  /\ pc \in {"start", "forward", "back", "report", "done", "limit", "invalid"}
  /\ m \in Word /\ mstart \in Word /\ k \in Nat
  /\ overflow \in BOOLEAN /\ (overflow => build = "gpu")
  /\ calls \in Seq(Nat \X Word) /\ lines \in Seq(Nat \X Int)
  /\ checksum \in Accumulator!Sums /\ apcount \in Nat

(* The definitions the properties compare the code with.                      *)

IsPrime(p) == p > 1 /\ ~\E d \in 2 .. 255 : d * d <= p /\ p % d = 0

(* The composites below 2^16 that pass the strong test to base 2.             *)
Pseudoprimes == {2047, 3277, 4033, 4681, 8321, 15841, 29341, 42799, 49141, 52633, 65281}

Probable(N)  == IsPrime(N) \/ N \in Pseudoprimes

(* The terms n + j*STEP by their index, the test they pass inside the word,   *)
(* and the first on either side of the start of the walk that does not.       *)
Term(j) == n + j * STEP
Pass(j) == Term(j) > 0 /\ Term(j) < R /\ PrimeQ(Term(j))
Beyond  == CHOOSE j \in Skip .. Skip + Longest : ~Pass(j) /\ \A i \in Skip .. j - 1 : Pass(i)
Behind  == CHOOSE d \in 0 .. Longest :
             ~Pass(Skip - 1 - d) /\ \A e \in 0 .. d - 1 : Pass(Skip - 1 - e)
Below   == Skip - 1 - Behind

(* The terms between two cuts, as ReportSolution gets them; the cuts are the  *)
(* ends of the run and the terms the bases of validate_ap26 refuse, and the   *)
(* pieces of the run lie between neighbours.                                  *)
Between(a, b) == <<b - a - 1, Term(a + 1)>>
CutsOf(a, b) == {a, b} \cup {j \in a + 1 .. b - 1 : ~Accepted(Term(j))}
Cuts         == CutsOf(Below, Beyond)
PiecesOf(cuts) == {p \in cuts \X cuts : p[1] < p[2] /\ \A c \in cuts : c <= p[1] \/ p[2] <= c}
Pieces         == PiecesOf(Cuts)

(* The Montgomery arithmetic decides what it stands for, but for the number   *)
(* 1: the test of the walk lets through the primes and the strong             *)
(* pseudoprimes to base 2, and the bases of validate_ap26 leave the primes.   *)
(* Both also let 1 through, which is not prime: a progression that begins     *)
(* there is taken for one of primes, and what the comment on validate_ap26    *)
(* promises (AP26.cpp:464-470, f+j*d*23# is prime) does not hold for it.      *)
TestsExact ==
  /\ pc \in {"forward", "back"} => (PrimeQ(m) <=> m = 1 \/ Probable(m))
  /\ pc = "report" /\ calls # <<>> =>
       \A j \in 0 .. calls[1][1] - 1 :
         LET N == calls[1][2] + j * STEP IN Accepted(N) <=> N = 1 \/ IsPrime(N)

(* The two loops together find the whole run: the progression handed to       *)
(* ReportSolution is as long as the terms that pass go in both directions,    *)
(* and none is handed over when fewer than Full terms follow n + Skip*STEP.   *)
WalkExact ==
  LET counts == \A j \in Skip .. Skip + Full - 1 : Pass(j)
  IN  /\ pc = "report" /\ checksum = 0 => counts /\ calls = <<Between(Below, Beyond)>>
      /\ pc = "done" => (apcount = 1 <=> counts) /\ apcount <= 1

(* The line of a piece: its length and its first term, from which the CPU     *)
(* build takes the size of the word in the upper half of it.                  *)
Line(a, b) ==
  LET first == Term(a + 1)
  IN  <<b - a - 1, IF build = "cpu" /\ 2 * first >= R THEN first - R ELSE first>>

(* However the recursion splits a progression, the results file gets each     *)
(* piece that is long enough, once, and nothing else.                         *)
LinesExact ==
  pc = "done" =>
    /\ IsInjective(lines)
    /\ ToSet(lines) = IF apcount = 0 THEN {}
                      ELSE {Line(p[1], p[2]) : p \in {p \in Pieces :
                              p[2] - p[1] - 1 >= MINIMUM_AP_LENGTH_TO_REPORT}}

(* "It is bit-exact with the OpenCL/CPU reference -- same solutions ..."      *)
(* (src/cuda/README.md:4-5): a line holds the first term itself, as the GPU   *)
(* builds print it, whatever the build.  The CPU build does not keep this.    *)
SameSolutions ==
  pc = "done" => ToSet(lines) \subseteq {Between(p[1], p[2]) : p \in Pieces}

(* "add each AP10+ first_term mod 1000 and that AP's length to checksum"      *)
(* (AP26.cpp:521): what is added is a progression of at least Full terms.     *)
(* ReportSolution adds before it looks at the length, also for shorter parts. *)
AddsAP10Only ==
  pc = "report" /\ calls # <<>> => calls[1][1] >= Full

(* The checksum counts the progression, and for each term that is refused the *)
(* part between it and the one refused before it and all that follows it,     *)
(* however short they are (AddsAP10Only is what the comment says), and is     *)
(* that sum reduced to 1 .. MAXINTV.                                          *)
Sums(amount, count) ==
  Iterates(0, [i \in 1 .. count |-> [s \in Nat |-> s + amount[i]]], count)
Mass(a, b) == (Term(a + 1) % 1000) + (b - a - 1)
Paid(below, beyond) ==
  LET cuts == Cuts
  IN  [i \in 1 .. beyond - below - 1 |->
         LET r == below + i
         IN  IF r \in cuts THEN Mass(Max({c \in cuts : c < r}), r) + Mass(r, beyond) ELSE 0]
Total(below, beyond) ==
  Mass(below, beyond) + Sums(Paid(below, beyond), beyond - below - 1)[beyond - below - 1]
ChecksumExact ==
  pc = "done" => checksum = IF apcount = 0 THEN 0 ELSE Accumulator!Canon(Total(Below, Beyond))

(* "Computation error" is printed for a defect only: whatever the walk counts *)
(* passes the base 2 test of val_base2_ap26, which computes it differently.   *)
NeverInvalid == pc # "invalid"

(* The kernel notices exactly the walks that would leave the word.            *)
SoftwareLimit ==
  build = "gpu" /\ pc \in {"done", "limit"} => (pc = "limit" <=> Term(Beyond) >= R)

(* Both loops and the recursion come to an end: the walks never turn round,   *)
(* not even through zero, and a call of ReportSolution leaves less to look at *)
(* than there was before it.                                                  *)
Left == Sums([i \in DOMAIN calls |-> 2 * calls[i][1] + 1], Len(calls))[Len(calls)]
Descends ==
  [][ /\ pc = "forward" /\ pc' = "forward" => m' > m
      /\ pc = "back" /\ pc' = "back" => m' < m
      /\ pc = "report" /\ calls # <<>> => Left' < Left ]_vars
=============================================================================
