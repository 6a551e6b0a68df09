# A verification project for AP26

AP26 searches for arithmetic progressions of 26 primes
`p, p + n, ..., p + 25n` with `n = K * 23#`.  A *workunit* is a range
`KMIN <= K <= KMAX` and a `SHIFT`; BOINC (or a user) starts the program as
often as it takes until the range is done.  The repository holds three
programs with one skeleton: `src/cpu` (threads and SIMD), `src/cuda` and
`src/opencl` (a GPU sieve with a host loop).

This directory holds TLA+ specifications translated from that source, TLC
models of them, and proofs for TLAPS.

## 1. Inventory

| part | source | state | operations |
|---|---|---|---|
| main program | `cpu/AP26.cpp` 612-926, `main` of `cuda`, `opencl` | `K`, `cksum`, `totalaps`, `last_ckpt`, `write_state_a_next` | resume or begin, skip a K (`will_search`), search it, checkpoint, finish |
| checkpoint files | `cpu/AP26.cpp` 312-436, 578-610 | `AP26-state.a.txt`, `AP26-state.b.txt`, the toggle | `write_state`, `read_state`, `checkpoint` |
| results file and result checksum | `cpu/AP26.cpp` 283-308, 512-576 | `SOL-AP26.txt`, the lazily opened `results_file` and its stdio buffer | `ReportSolution`, the merge at the end of a worker, `write_cksum` |
| trickles | `cpu/AP26.cpp` 59-88 | `last_trickle`, saved in the state files | `handle_trickle_up` |
| CPU worker pool | `cpu/cpusse2.cpp` and four siblings | `current_n43`, three mutexes, local and global totals, the `ixOKOK` tables | `Search_*`, `thr_func_*` |
| GPU search | `cuda/AP26.h`, `opencl/AP26.h`, `simple*.h`, `kernels/` | the stream or queue, two device arrays, four counters, one event | `SearchAP26`, the kernels |
| sieve arithmetic | `cpu/cpu*.cpp`, `cpuconst.h`, `kernels/{sieve*,setupok,setupokok,offset}` | constant tables `OK*`, `ixOKOK*` | `MAKE_OK`, `MAKE_OKOK`, residue updates, SHIFT coverage |
| primality tests | `cpu/AP26.cpp` 92-278 and 438-510, `kernels/checkn` | none | Montgomery product, `strong_prp`, `PrimeQ`, `validate_ap26` |
| BOINC library | external | | `boinc_finish`, trickle, file names |
| start-up | argument parsing, CPU detection, GPU choice, kernel compilation | none that outlives it | |

**Interactions.**  `main` calls `Search_*` (or `SearchAP26`) once per K.  Workers
call `ReportSolution`, which appends to `results_file` and adds to a local
checksum; each worker adds that to `cksum` and `totalaps` when it ends.  `main`
calls `checkpoint` between two K: it closes `results_file`, then writes one of
the two state files, then considers a trickle.  After the last K, a forced
checkpoint is followed by `write_cksum` and `boinc_finish`.

**What is hard.**  (1) The process may die between any two of those steps and is
started again: the search position, the totals and the lines on the disk are
three things in three files that are written at different times.  (2) System
calls fail half-way: the code checks some of them.  (3) State files may be those
of another workunit.  (4) Workers interleave on a shared position, a lazily
opened file and shared totals, and the search tables are globals rebuilt
between iterations.  (5) The clock may be set back, and two comparisons treat
that differently (one signed, one unsigned).  (6) The GPU's arrays have a
capacity that is checked only after the fact.

**What makes it correct.**  Every K of the range is searched, and a search that
is repeated leaves no trace in checksum and count; every solution has its line;
the checksum is the one of an uninterrupted run on any machine, so that two
volunteers' results can be compared.  `PROJECT.json` lists every hazard with the
properties aimed at it.

## 2. Modules

| module | models | composed with |
|---|---|---|
| `Checksum` | the accumulator `(a + b)`, minus `MAXINTV` once, on 32 bits, and the value `write_cksum` prints | extended by `Workunit` and `WorkPool` |
| `Workunit` | one workunit from first launch to `boinc_finish` | ends with the mapping to `DurableSearch` |
| `DurableSearch` | the abstract promise: position, recorded lines, published checksum, end | `Workunit` implements it |
| `WorkPool` | `Search_*` and its threads at the granularity of the mutexes | opens up `Report`/`EndOfK` of `Workunit` |
| `GpuSearch` | the GPU program's `SearchAP26`: host loop, in-order queue, kernels' counters | ditto |
| `RangeSearch` | the abstract search: a K is left when all of its progressions were reported and counted | `WorkPool` and `GpuSearch` implement it |
| `UInt64` | `uint64_t` on three base-2^24 digits | extended by `SieveTables` |
| `SieveTables` | the constants and idioms all builds share: `MOD`, `S31`..., the literals `INV*`, `REM`, rows of the tables | extended by the variants |
| `Sse2`, `Sse41`, `Avx`, `Avx2`, `Avx512` | what each `cpu/cpu*.cpp` computes: locals, `n43_h`, OK and OKOK, lanes, look-ups, iterations over SHIFT | extended by `Sieve` |
| `Kernels`, `OpenCl` | the same of the CUDA and the OpenCL build: flat arrays, offsets, the kernels that fill and read them | extended by `Sieve` |
| `Sieve` | the search of one K in any of the eleven variants, step by step | what `Where` stands for in `WorkPool` and `GpuSearch` |
| `Montgomery` | the primality tests' arithmetic on words of 16 bits | extended by `Candidate` |
| `Candidate` | the walk along a candidate, `validate_ap26`, `ReportSolution`'s recursion | what becomes of a candidate of `Sieve`; the line and the sums of `WorkPool` |
| `MC*` | constants, sampled positions and inputs for TLC | |
| `ChecksumTheorems`, `WorkunitTheorems`, `WorkPoolTheorems`, `GpuSearchTheorems`, `SieveTheorems`, `CandidateTheorems` | proofs (section 4) | each extends the module it is named for |
| `SieveRunTheorems` | proofs: what the loops of a K reach and what a run of them reports | extends `SieveTheorems` |
| `ArithmeticTheorems` | lemmas about `UInt64`, division, congruence and powers, induction over sets of numbers | extended by `SieveTheorems` and `CandidateTheorems` |

### 2.1 Workunit

`pc` names the point `main` has reached.  The process' variables keep the names
of the source and are lost in a crash (`NoMemory`); `state`, `sol_lines` and
`sol_cksums` are the disk.  `results_file` is the set of lines that sit in the
stdio buffer.

| action | code (`cpu/AP26.cpp`) |
|---|---|
| `Launch`, `LaunchFinished` | a start of the program, also when it has already finished |
| `Resume`, `Begin` | `read_state` returned 1 / 0 and the branches behind it; `Chosen` is its choice between the files |
| `SkipK`, `NoCheckpoint`, `StartCheckpoint` | the head of the loop, `checkpoint`'s test of `diff` |
| `CloseResults` | `fclose(results_file); results_file = NULL` |
| `OpenState`, `CloseState` | `write_state`: truncation, then `fprintf` and a good `fclose`, which flips the toggle |
| `Trickle` | `handle_trickle_up` |
| `Report`, `EndOfK` | the search of a K, as `main` sees it |
| `WriteCksum`, `BoincFinish` | the end |
| `Crash`, `...Fails`, `ClockSetBack` | what may go wrong at each of these points |

A crash is the death of the process.  Data that reached the operating system
survives it; `Crash` lets any subset of the buffered lines be written, and a
state file be complete or empty when the crash hits `fclose`.  Power loss is not
modelled: the code never calls `fsync` and makes no promise.

A state file is a record: is it parsed, are `KMIN`, `KMAX` and `SHIFT` mine,
what does it say.  A write whose `fclose` fails leaves nothing that parses, the
whole line, or the line without its last digits, which `fscanf` still accepts
with seven fields: the last field is `last_trickle`, so only that can be wrong.

### 2.2 DurableSearch

`pos` only advances, past no solution that is not recorded; only a search at
`KMIN` starts over; only the one right checksum is published; nothing finishes
before all is recorded.  The mapping, at the end of `Workunit`, is `pos <- acked` (the K of the last
checkpoint whose `fclose` returned 0), the lines with a copy in the file, the set
of checksum lines, and `pc = "done"`.

### 2.3 WorkPool

The five `Search_*` functions share one structure: for each of `NIterations`
SHIFTs, build the tables, create the threads, join them.  A worker takes a chunk
under `lock1` (`Lock1`, `ReadN43`, `WriteN43`), sieves it (`Hit`, `NextIndex`),
reports lines under `lock2` (`Lock2`, `CheckFile`, `OpenFile`, `WriteLine`), and
merges under `lock3` (`Lock3`, `ReadTotal`, `WriteTotal`).  The critical sections
are split so that a missing mutex would show.  What the sieve finds where is the
constant `Where`; its arithmetic is a component of its own.

### 2.4 GpuSearch

The host enqueues kernels (`Setup`, `ProfileLaunch`, `NewShift`, `Launch`) and
goes on; the GPU (`Run...`) takes them from the head of `queue` at its own pace.
A command carries the arguments and the size it was enqueued with, as the
driver copies them.  Device memory is described by whose tables it holds (`n59`,
`OK`, `OKOK`); a sieve launch whose tables are not those of its arguments finds
nothing.  `n_result` and `sols` are sequences whose lengths are `counter[0]` and
`counter[2]`, so that a missing clear shows as a candidate tested twice.  After
every third launch the host waits for the event of the first of the three
(`Wait`); at the end of a K it waits for the last event (`WaitLast`), drains the
queue (`Drain`), reads the counters (`Read`) and reports (`Report`, `Return`).
Of the driver's errors the program looks at those of launches, copies and
allocations, which end it (`Fails`), and at those of event queries, which end the
wait (`QueryFails`); what the creation, recording and timing of an event return is
ignored (`simpleCU.h:278-296`), and an event that failed there ends the wait, too.
`driverFailed` remembers that one of these has happened.
The first K of a program start times one launch; `ProfileDone` may choose any
size, and waits for the kernels because it frees the array they write to.  A launch that overflows `n_result` loses what does not fit; what such a
write does to other buffers is not modelled.

The CUDA program is the one translated; `sieve_wpt = 1` gives the
plain sieve kernel and the launch loop of the OpenCL program, which also clears
OKOK before it builds it.

### 2.5 RangeSearch

`Report(ap)` in any order, `EndOfK` when all of this K are reported; the number
is added to `totalaps` once.  This is what `Report` and `EndOfK` of `Workunit`
assume of the search, and what both search modules are shown to provide.  Each mapping stands
at the end of its module.  In `GpuSearch` a K is left when `SearchAP26` returns, and
what was reported counts for the K being searched (`CurrentK`, `ReportedOf`); in
`WorkPool`, which searches one K, `reported` is read off what the threads have
completed.

### 2.6 Sieve and its variants

A variant module is an operator per block of its source file, in the order the
code computes them: `Prologue` (`STEP`, `n0`, `S31`...`S59`), `Entries` and
`n43_h`, `MakeOK`, `FirstRems` and `NextRem` (the vector lanes and their two
repairs, which differ in the comparison they use), the words of a table and
`Groups`, the primes of each chain of look-ups between two tests for zero.  The
files differ in exactly these (a definition carries the name of its file: `Prologue_sse2`,
`offset_cuda`), and the differences are the point: 5 iterations
of 2 words in SSE, 3 of 4 in AVX with a mask for what lies beyond `maxshift`, one
pass of 8 + 2 words in AVX-512, ten iterations of one word on a GPU, where OK is
a flat array, residues are 32-bit remainders of two halves of `n59`, and the
OpenCL build ORs where CUDA stores.

`Sieve` is the control around them: `Prepare` (tables of one K), `Begin` (an
iteration over SHIFT), `Row35`, `Look` (one group of look-ups), `Check` (the
surviving bits, decoded, against the primes up to 541), `NextN59`, `NextRow`
with its three cases and `NextIteration`.  Sets of shifts stand for the bit
vectors.  The numbers are the real ones: 64-bit, with overflow.  That includes
`Row`: `(jj+SHIFT)*MOD` wraps when `SHIFT+jj` passes 71344 (`LastShift`; that it is this
number is the lemma `LastShiftIs`), and so do the candidates
`n59 + SHIFT*MOD` themselves.  `CleanShifts`, which the bits are compared with, is stated
without a word size; the two agree up to there, and nothing is claimed for a larger SHIFT.

### 2.7 Montgomery and Candidate

`Montgomery` keeps each function of `cpu/AP26.cpp` 92-278 (`mul_wide`, `invert`,
`montMul`, `add`, `mont_init`, `strong_prp`, `PrimeQ`) on 16-bit words.  Width
enters the code by the size of the word, by the number of squarings of
`mont_init` and by the literals below; nothing else is changed.  `Candidate`
scales those literals and keeps what the code relies on: `PRIM` = 30 for 23#,
the walk begins at `Skip` = 2 for 5, a progression counts from `Full` = 3 for 10,
is written from 4 for 20, and `Limit` = 32749 separates the three bases from the
six as 3825123056546413051 separates nine from twelve.

Actions: `Start`, `Forward`, `Back` (with the kernel's test for a wrapped `m`, which
the CPU build does not have), one `ReportSolution` per call, its recursive calls
in `calls`, and `Return`.  `validate_ap26` and `val_base2_ap26` are operators.
A line holds the length and what `fprintf` makes of the first term (`Printed`): the CPU build
converts it with `PRId64`, so that the upper half of the words comes out negative, the GPU
builds with `PRIu64`.  The checksum is added up by `AddMod` of `Checksum`.

The properties name the terms `n + j*STEP` by their index.  `Below` and `Beyond` are the
first terms on either side of the start of the walk that fail the walk's own test
(`Pass`, which is `PrimeQ` inside the word), `Cuts` are these two and the terms the bases
of `validate_ap26` refuse, `Pieces` what lies between neighbouring cuts.  `WalkExact`,
`LinesExact` and `ChecksumExact` say what the code makes of any such run, whatever its tests
decide; `TestsExact` is the property that says what they decide, and it compares them
with primality: they accept the primes and, which the sources do not say, the number 1
(section 5).  `CandidateAssumption` holds the premises: `K` is an `int` and `23#`
below 2^28, so `STEP` is even and below 2^59 (of its multiples up to the 32nd none
wraps); the sieve leaves odd candidates; and the walk forward ends inside the word
(`EndsForward`), or is the kernel's, which notices when it leaves it.  The CPU program has no
such test: that its walk ends first is what it takes for granted, and what the
assumption says.

## 3. Runs

| run | instance | question |
|---|---|---|
| `workunit` | K in 28..31 (29 and 31 skipped), three progressions, 3 launches, 2 failures of any kind except `fclose(results_file)`, a clock that is set back among them | is anything on the disk ever wrong, lost or doubled, are trickles spaced, does it implement `DurableSearch`? |
| `workunit_live` | the GPU's `main`, standalone, every failure, that of `fclose(results_file)` included | does it finish? |
| `workunit_missing_checksum`, `workunit_lost_result`, `workunit_once_per_day` | | three statements of the docs and comments that the code does not keep (section 5) |
| `workpool` | 3 threads, 5 indices in chunks of 2, 2 iterations | is every index searched once, are totals and lines exact, are the threads one search? |
| `workpool_live` | 2 threads, any of which may exit the process | does the search end, does progress never go back? |
| `gpusearch` | 6 K, 2 SHIFTs, tables of 6 words, launches of 4 or 8 words, capacity 2 or 4, waits that end early, driver errors | is a K that returns complete, are overflows noticed exactly, are events sound, is the queue bounded, is it one search, does it end? |
| `sieve` | eleven variants, eight sampled positions of the real tables | are the table, every `n59`, every lane and remainder, every word of every group and the reported candidates exact? |
| `candidate` | 16-bit words, candidates near 1, near the top of the word and around pseudoprimes, ten K | do the tests accept the primes and nothing else but 1, do the two walks find the whole run, does the recursion write each longest piece once and add up the right checksum, does it end? |
| `candidate_bit_exact`, `candidate_checksum_ap10` | the same | two more statements that the code does not keep (section 5) |

**Why the bounds are enough.**  *Workunit:* the toggle alternates with period
two, so two checkpoints and one failure reach every combination of a good, an
older and an unreadable file, and the second failure or crash hits during the
repair; three launches allow a crash of a resumed search.  K has a skipped value
in the middle and at the end, because `KMAX + 1` is reached by skipping as well
as by searching.  `Mass` is chosen so that sums pass `MAXINTV` and reach it
exactly.  *WorkPool:* three threads are one more than a lost update needs; the
table is not a multiple of the chunk and the last, shorter chunk holds a
progression; the sums overflow in a thread and in the merge.  *GpuSearch:* one K
makes 4 or 8 launches, so that the loops end with `iter` at 1 and at 2, and the
queue reaches its bound; K = 2 overflows the small array and not the large one,
K = 4 has more progressions than `sol`, K = 5 passes 2^64, K = 6 ends normally, and the search may
start at any of them, which is how the last ones are reached.
`MaxLaunches`, `MaxFaults` and `MaxTime` are the only bounds on counters.
*Sieve:* one K visits 10840 * 443555 values of `n59`, so the run enters the loops
at sampled positions and walks on from there: the four of known progressions of
`cpu/test_*.txt` (in the first word, the last two words, the last word and a second
range of 640 shifts), and the ends of the loops for K = 1 and for the largest K
whose prologue stays in 64 bits, where a row ends, an inner loop begins again
and the last `n59` is reached, and `LastRange`, the last `startSHIFT` (70704) from which all
640 shifts give 64-bit candidates.  Every build visits one position, and the others are
visited by those whose tables have different words there; all words, iterations and
groups of a position are visited.  `TableExact` is about the whole table of 10840 entries.
*Candidate:* every number coprime to 30 up to 1500 and (for the GPU) from 63000 to
the top of the word; and around each of the eleven strong pseudoprimes to base 2
below 2^16 the starts that put it at any place of a walk.  2047 and 3277 meet in
one progression for K = 41, so that the recursion splits twice.  The CPU loops
have no software limit, so CPU inputs leave the walk room below 2^16; a GPU walk
may leave the word.

**Fairness.**  `WF(Work)` and `WF(Launch)`: the operating system runs the process
and the BOINC client starts an unfinished workunit again; crashes are bounded,
as no program that is always killed gets anywhere.  In `WorkPool` every thread is
scheduled (weak fairness per thread), while nothing is asked of the mutexes:
with a finite table even unfair mutexes let everybody through in the end.  In
`GpuSearch` the host is scheduled and no kernel runs for ever.  `Sieve` and `Candidate`
are sequential and take no fairness: `Descends` is a variant, each step of a walk or
of the recursion leaves less to do.

**Deadlock** is checked in every run: `Finished` and `Over` are the only states
in which a system may stop.

## 4. Proofs

Proved with TLAPS for all values of the constants, under the assumptions named
in the modules (`ChecksumAssumption`, `WorkunitAssumption`, `WorkPoolAssumption`,
`GpuSearchAssumption`, `SieveAssumption`, `CandidateAssumption`), which the runs evaluate:

* `ChecksumTheorems`: the accumulator stays in `0..MAXINTV`, never passes 32
  bits, and is the canonical residue of the true sum (`AddModCanon`); so neither
  threads, nor their number, nor GPU order change the checksum.  The canonical
  residue of a positive multiple of `MAXINTV` is `MAXINTV`, not 0: the code
  subtracts on `>` only, everywhere.
* `WorkunitTheorems`: `TypeCorrect`, `ExactCheckpoints`, `RightChecksum`.  The
  properties are about files, and files alone are not inductive: what is written
  next comes from memory.  The inductive invariant `Totals` adds that while
  `main` runs the totals in memory are those of an uninterrupted run at the K in
  memory, that a checkpoint is forced exactly beyond `KMAX`, and that
  `write_cksum` is reached at `KMAX + 1` only.
  Of recovery: `AckedCheckpointSurvives` rests on `Alternation`:
  while the program runs, the file that is *not* written next holds the
  acknowledged checkpoint or a later one, and neither is beyond the K in memory.
  `SolutionsSurvive` rests on `Buffers` (what sits unflushed belongs to the K
  searched so far) and `Recorded` (every line of an earlier K is in the results
  file or in the buffer, and in the file for every K below that of a state file);
  it assumes that `fclose(results_file)` does not fail, and
  `workunit_lost_result` shows that the assumption is needed.
  `OneCopyPerLaunch` rests on `Copies`: a line this launch still has to write
  (`Pending`) has fewer copies than there were launches.
  `RefinesDurableSearch`: that every step of
  `Workunit` is a step or a stutter of `DurableSearch`, from the invariants above:
  `Alternation` is why the position only advances and why only a search at `KMIN`
  starts over, `Recorded` is why it passes no solution without a line.  Same
  assumption as `SolutionsSurvive`.  `OneLine` rests on `LastCheckpointFirst` (a
  checksum line implies that a finished checkpoint is on the disk, which the next
  launch resumes), `TricklesSpaced` on `Remembered` (while this launch has sent
  something, `last_trickle` says when).
* `WorkPoolTheorems`, for any number of threads, size of table and chunk and
  number of iterations: `TypeCorrect`, `StableTables`, `IndexOnce`,
  `ProgressForward`.  The invariant `Order` is a conjunction: `Phases` (which threads
  exist in each phase of `main`'s create and join loops), `Mutex1`, `Chunks` (the
  chunks being searched are disjoint pieces below `current_n43`) and `Accounts`
  (what is below `current_n43` and in no chunk has been searched).
  Of results: `TotalsSequential` and `LinesOnce`.  The ghost `Found`
  follows a progression from its index to the totals; `Shares` splits what was
  found into what was merged under `lock3` and what each thread still holds, so
  that the merged sums and the local ones always add up to the sequential ones.
  `RefinesRangeSearch`: what has been found is what `RangeSearch` calls reported;
  only `Hit` adds to it, and `Return` leaves the K with the exact count.
* `GpuSearchTheorems`, for any tables, sizes and driver errors: `GpuTypeCorrect`
  (which needs `Struck`: `setupok` never meets a table that was not just cleared),
  `EventsAlwaysSound` (from `Loops`, which ties the event to the count of
  launches) and `QueueStaysBounded`: `Window` places the sieve launches of the queue
  in the five slots since the event last waited for, across SHIFTs and K.
  For the results it also proves `Flow`, about every state in which the device will
  be when a command of the queue reaches its head: `Pipeline` says that the tables are
  then those of the command's arguments and that `checkn` follows each launch, `Looping` and
  `Sized` tie the arguments to the host's loop counters, so that launches are
  disjoint and cover the table.
  Of results, under any driver errors: `EveryKComplete`,
  `StopsOnOverflow`, `GpuRefinesRangeSearch`.  The counters alone do not say what was
  found, because `clearn` resets the first before each launch, `clearok` the others at the
  start of a K, and the host reads them only at the end.  `Account` therefore follows each candidate from the launch that sieves
  it, through `n_result`, to the `checkn` that stores it: it is in at most one place at a
  time (`OnceWaiting`, `OnceSeen`), and everything sieved before the last `checkn` has been
  checked (`AllChecked`).  `Justified` does the same for the overflow flags.  `Sound`
  joins these with what the host has reported.
* `ArithmeticTheorems`: that `Plus`, `Minus`, `Times`, `Rem`, `Mod` and `Dec` of `UInt64`
  compute modulo 2^64 (or exactly, below it) what their names say, by way of
  `Val`, the number a word stands for; and the facts about division and congruence
  that both arithmetics rest on, up to Fermat's theorem (`Fermat`), by way of products whose factors are
  moved about (`ProdPermuted`).
* `SieveTheorems`, for all eleven variants, every `K` of an `int`, every position in the
  table and any number of rows (`SieveAssumption`; the constants of the code are the real ones):
  `TypeCorrect`, `RowsAreExact` and `BitsAreExact`.  The first two rest
  on one inductive invariant, `IInv`, the third on `SInv`, which adds to it what the look-ups
  keep.
  What makes a row of a table the right one is different for each reader.  The vector lanes are filled from `n59` at the
  start of a row of 35 and only advanced after that, by an addition and two repairs:
  `LanesFollow` shows that one update takes a lane from `n % P` to the remainder of the number
  `n59` steps to, for every prime, modulus and step, and the conjunct `Followed` that the lanes are those of
  `n59` through a row; it needs `Numbered` (every `n` is below `MOD`) and
  `Filled` (the increments and the vectors are those of the same `K`).  `REM` multiplies by a literal:
  `InverseIs` shows that each of the 42 is the reciprocal rounded down,
  `REMIs` that one correction is then enough for every `n59` below `MOD`.  The kernels' remainder of
  two halves is exact (`ResidueIs`), whatever the prime.
  `BitsAreExact` is the property `SitoExact`: the look-ups leave exactly the shifts whose
  windows no prime has divided.  `WindowIs` says which cells `MAKE_OK` clears, those with a
  zero among their 24 terms, and `OpenIs` that the definition the code is compared with
  leaves the same ones.  `ClearedIs` carries that to the flat array of the GPU, where a cell of
  one prime must not be cleared for another (`BlocksApart`), and `CopiedIs` shows that a
  word read in shared memory is one that the block has copied.  `CpuLookUpIs` and
  `KernelLookUpIs` then say what one look-up does to the bits, `MaskIs` that the masks cut
  off `maxshift` and nothing else.  Of the run itself `SInv` needs `Made` (the tables are
  those of this `K`), `Held` (`OKOK` was made for this `SHIFT`), `Aligned` (a `SHIFT` is a
  whole number of words from the first, and `cpuavx512`'s one range begins there) and
  `Kept` (what the groups so far have left).  Its hypothesis is that the 640 shifts leave the
  candidates in 64 bits: with `Fitting` the products `(jj+SHIFT)*MOD` of the rows do
  not wrap either, and `RowIs` finds the row of the shift it stands for.
* `SieveRunTheorems`, about the same variants, positions and numbers of rows: `ClassesAreExact`,
  `RunsAreExact` and `TablesAreExact`.
  `ClassesAreExact` is the property `ClassExact`, from the invariant `CInv`, which adds to `IInv`
  what the loops count, and under the one assumption that the sampled
  `K` are `Searched`: those `will_search` lets through, up to the limit the sources name
  (for a `K` that a prime of the loops divides the steps do not move, and the property is
  false).  `PartsAre` shows that the product with `K`, taken in two parts so that it stays in
  64 bits, is the product modulo `MOD`; `Place` is the number that counters stand for, and
  the conjunct `Placed` of `CInv` that each of `n43` to `n59` has counted its own loop and
  those around it, however often they were reduced by `MOD` on the way.  `WeightsAre` reads
  the header: each of `PRES2` to `PRES8` is 2\*3\*...\*23 modulo one prime and zero modulo the
  others.  `ClassIs` puts them together, and with `Euclid` that the window is open.
  `RunsAreExact` is the property `RunExact`, what all the steps of a run are for.  Its invariant
  `RInv` adds `Ran` to `SInv` and `CInv`: the report holds, once each (`Once`), the candidates of
  exactly the places and shifts passed so far that have a clean window (`Right`).  What has been
  passed (`Passed`) is all places of the walk at the shifts of earlier iterations, the places
  before the present one at the shifts of this iteration, and at the present place the bits that
  were refused or tested.  Behind it stand four facts.  No two places have the same `n59`
  (`PlaceUnique`, from `CInv` and `Euclid`), so that no window is reported twice.  The groups of look-ups together
  cover every prime that the tests after them leave out (`GroupsCover`), so that what survives and passes
  has no divisor from 7 to 541 (`PassesIs`).  The parts of the words are disjoint and make
  up the shifts of the iteration (`BitsCover`).  And the loops step from a place to the next
  one and end at the last (`LoopSteps`, by an index for places).
  There are three hypotheses.  The sampled `K` are `Searched`, as before.  The 640 shifts leave the
  candidates in 64 bits, as in `BitsAreExact`: above that `Candidate` wraps, too.  And a progression stated as `known` begins in its row (`BeginsInRow`),
  a condition on the data of the samples only.  The samples of the run `sieve` satisfy all three.
  `TablesAreExact` is the property `TableExact`.  `NearIs` compares the conditions of the nest, counter by
  counter, with the three windows of a progression of 26; `EntriesCount` counts what they keep
  as three boxes less the two intersections of neighbours, 1355 starts modulo 31, 37 and 41 times the 8 of 3 and 5.
* `CandidateTheorems`, first the arithmetic, for every odd modulus and all operands of the word.
  `MontgomeryProduct`: `montMul(a, b)` is below `p` and `R` times it is `a*b` modulo `p`
  whenever `p*q = 1` modulo `R`; `ModularSum`: `add` is exact where `a + b` leaves the
  word.  `InverseRight`: the Newton rounds of `invert` end with that `q` (each squares
  the error, which begins even).  `RSquared`: `mont_init` computes `R*R` modulo `N`.
  `TestsAgree`: `PrimeQ` and `strong_prp(2, .)`, which go through the exponent in
  different ways (shifts of `N >> ctz`, bits from the top with doublings in Montgomery
  form), are the same predicate.
  `PrimesPass`: neither of them refuses a prime, but for a base that is a multiple of it;
  `OnePasses`: both let 1 through, whatever the base.
  `PoweredStands` and `SquaresStand` say which power of the base each residue is the Montgomery form of
  (the bits of `exp` are consumed from the top, and `ctz` counts the halvings of `N - 1`);
  `Fermat` that the last one is 1, `RootOfOne` that before the first 1 comes -1 or nothing.
  Of `R` the proofs use that it is 256*256, the square of
  the base of `mul_wide`; the three squarings of `mont_init` and the rounds of
  `invert` are counted for a width of 16.
  Then the walks, for every build, step, set of bases and candidate: `TypeCorrect`,
  `WholeRun`, `EachPieceOnce`, `SumOfPieces`, `BaseTwoAgrees`, `LimitNoticed`,
  `Terminating`.  `m` alone does not say where a walk is, since it wraps; the invariant
  `IInv` names the term it stands for.  `AtForward`: the k-th from the start, or, on a GPU,
  the first one when that has already wrapped.  `AtBack`: the last of the `k` terms before
  `Beyond`, so that what `LeaveBack` reports reaches from `Below` to `Beyond`, also where
  the walk goes down through zero.  `AtReport`: before every call the stack holds all that
  follows a cut (`Following`), or the piece behind a cut and all that follows that piece
  (`Splitting`).  The lines are then those of the pieces up to the cut (`Written`), as the
  build prints them (`LineIs`; `LineUnique`: the sign keeps the first terms apart), and the
  checksum the residue of what is to be added up to there (`Spent`, `AccumulatorIs`,
  by `AddModCanon`), which is how a recursion of any depth keeps its books.  `BaseTwoAgrees` is where the arithmetic enters: the walk has
  tested with `PrimeQ`, the check that would call its result a computation error tests with
  `strong_prp(2, .)`, and `TestsAgree` says they cannot differ.  `PrimesReported` joins
  `PrimesPass` with the books of the recursion: when a candidate is done with, a progression of primes
  that has the `Full` terms that count and is long enough lies within one line of the results file.
  Its hypotheses are the types of `base` and `Few`; primes that divide a base are left out
  (`PrimeTerm`): those bases refuse them, and the code's are smaller than any term.  `Terminating` is the
  property `Descends`: `m` moves one way in each walk, and `Left`, two for each term plus
  one for each call on the stack, gets smaller with every call.

Each invariant is proved as `Init => Inv`, `Inv /\ [Next]_vars => Inv'`, with one step
per action, from the invariants before it.

Recursive definitions are recursive functions here, and the library's theorems about
them take an operator as a parameter, which the provers cannot instantiate.
`ArithmeticTheorems` therefore begins with `SetInduction`, induction over Nat stated for sets
(from the library's fact that the order of Nat is well-founded), and `CandidateTheorems` with
`IteratesAre`, what the rounds of a loop compute; `Iterates` is the one recursion of
`Montgomery` and `Candidate`.

The prover folds products of literals in words of 63 bits without noticing an overflow.
No leaf therefore expands literals whose value could reach 2^62: 64-bit sizes and literals are
compared by groups of digits (`SizeIs`, `CutOff`, `Within`) or behind a name.

**Only model-checked:** liveness (`Finishes`, `Ends`), which is beyond the prover; and of `Candidate`
`TestsExact`.  Of its two halves, `PrimesPass` proves that primes pass; that nothing else does, but for 1 and
the table of pseudoprimes and only below a bound, is a computed fact and not a consequence of the code.

## 5. What the runs found

1. *A finished workunit without a checksum.*  `main` forces a checkpoint at
   `K = KMAX + 1` and then calls `write_cksum`.  A process that dies in between is
   relaunched into "trying to resume a finished workunit" and calls
   `boinc_finish` at once (`workunit_missing_checksum`).
2. *A lost solution.*  `checkpoint` does not look at what
   `fclose(results_file)` returns (`workunit_lost_result`).
3. *Two trickles on one day.*  `write_state` saves `last_trickle` before
   `handle_trickle_up` changes it (`workunit_once_per_day`); within one launch the
   spacing holds, but for a clock that was set back to before the last trickle
   (`TrickleSpacing`).
4. *Negative first terms.*  The CPU program prints the first term of a result with
   `PRId64` (`cpu/AP26.cpp:567`), the GPU programs with `PRIu64`
   (`cuda/AP26.cpp:542`): from 2^63 on their lines differ, where `cuda/README.md:4-5` says
   "bit-exact with the OpenCL/CPU reference -- same solutions"
   (`candidate_bit_exact`).  The checksum is not affected.
5. *What the checksum adds.*  The comment at `cpu/AP26.cpp:521` (`cuda/AP26.cpp:498`)
   says "add each AP10+"; the code adds on every call, also for the shorter and
   the empty parts of a progression that was split (`candidate_checksum_ap10`).  All
   three programs do the same, so results can be compared (`ChecksumExact` says
   what the sum is).
6. *The number 1.*  The comment on `validate_ap26` (`cpu/AP26.cpp:464-470`) says that it
   returns `k` when all terms are prime and is "good to 2^64-1".  It, and
   `PrimeQ`, let 1 through (`OnePasses`), and a progression that begins at 1 counts as one of primes;
   the run `candidate` has such candidates.  `TestsExact` states the exception.

## 6. Not modelled

* Power loss without `fsync`; the overflow of `KMIN + KMAX` as an `int`, which no
  range in use comes near; K beyond 1048929854, the limit the sources themselves give
  for the products of the prologue (`S37 K max`, `cuda/AP26.h:99`).
* A SHIFT of more than 70704: see `Row` in 2.6.
* For `N = 2^t + 1` the exponent is 1 and the code shifts `curBit` by 64, which C leaves
  undefined.  `Bits` gives both outcomes, a masked shift count and no bit at all (`Masked`);
  the run has the first, the proofs both.  A program is one of the two throughout: that
  CUDA's device may drop the bit where its host masks the shift is not modelled.
* `Sieve` visits sampled positions, not all of the 4.8 * 10^9 of a K.  Its SIMD
  instructions are sets of bits and functions of lanes; their latency and layout in
  registers are left out.  The OpenCL `checkn` and host loop are those of CUDA and are
  not modelled a second time.
* `Candidate` has 16-bit words; the twelve bases' claim for 64 bits rests on published
  tables that no model can check.  The CPU
  program has no counterpart of the kernel's software limit; a CPU walk that would
  leave the word is not followed there.
* What an out-of-bounds write of an overflowed `n_result` does to other device
  memory, and the profiling launch's candidates, which are thrown away.
* How the profiling launch's time becomes a launch size (any size may come out),
  and the choice of shared memory carve-out.
* BOINC's suspension of the process (it shows as time passing), its trickle
  text, progress bar and file name resolution.
* Command line, CPU detection, GPU selection, kernel compilation, build and
  benchmark scripts, vendored headers and binaries.

## 7. Plan

| order | module | content | state |
|---|---|---|---|
| 1 | `Checksum`, `Workunit`, `DurableSearch` | the core: what survives crashes | checked; safety and refinement proved |
| 2 | `WorkPool`, `RangeSearch` | the CPU search | checked; safety and refinement proved |
| 3 | `GpuSearch` | the GPU search | checked; safety and refinement proved |
| 4 | `Sieve` and its variants | tables, residues, look-ups, shifts | checked at sampled positions; all properties proved |
| 5 | `Montgomery`, `Candidate` | tests, walks, recursion | checked on 16-bit words; the arithmetic and all properties proved, of `TestsExact` the half about primes |
