------------------------------ MODULE WorkPool ------------------------------
(***************************************************************************)
(* The search of one K by the CPU program: Search_sse2 and its siblings    *)
(* build the sieve tables of a SHIFT, start the workers (thr_func_sse2..)  *)
(* and join them, once per iteration.  The workers take chunks of the n43  *)
(* table from current_n43 under lock1, report what they find (lines of     *)
(* SOL-AP26.txt under lock2) and add their local checksum and count to the *)
(* totals under lock3 before they exit.                                    *)
(*                                                                         *)
(* What the sieve finds at an index is given (Where): the interest is in   *)
(* who does what when.  exit(EXIT_FAILURE) in any thread ends all of them. *)
(***************************************************************************)
EXTENDS Checksum, FiniteSets

CONSTANTS
  NThreads,        \* -t, --nthreads
  numn43s,         \* 10840 entries of n43_h
  thread_range,    \* 50 of them make a chunk
  NIterations,     \* 5 (sse2, sse41), 3 (avx, avx2) or 1 (avx512)
  AP, Where,       \* what there is to find, at which <<iteration, index>>
  Long,            \* those whose line ReportSolution writes
  Mass,            \* what ReportSolution adds for a set of them, unreduced
  Before,          \* what all earlier K have added to cksum
  MayFail          \* does this instance exercise exit(EXIT_FAILURE)?

Threads    == 0..(NThreads - 1)
Indices    == 0..(numn43s - 1)
Iterations == 0..(NIterations - 1)

ASSUME WorkPoolAssumption ==
  /\ NThreads \in Nat \ {0} /\ numn43s \in Nat \ {0}
  /\ thread_range \in Nat \ {0} /\ NIterations \in Nat \ {0}
  /\ IsFiniteSet(AP) /\ Long \subseteq AP
  /\ Where \in [AP -> Iterations \X Indices]
  /\ Mass \in [SUBSET AP -> Nat] /\ Mass[{}] = 0
  /\ \A S, T \in SUBSET AP : S \cap T = {} => Mass[S \cup T] = Mass[S] + Mass[T]
  /\ Before \in Nat /\ MayFail \in BOOLEAN

Nobody == -1

VARIABLES
  \* the main thread in Search_*
  mpc, iteration,
  k,                      \* threads created, then threads joined
  tables,                 \* the iteration whose SHIFT the ixOKOK tables serve
  \* shared
  current_n43, lock1, lock2, lock3, cksum, totalaps, results_file,
  \* the worker threads
  pc, start, stop,
  hits,                   \* reported at index start so far
  line,                   \* the progression whose line is to be written
  checksum, apcount, total,
  \* history
  searched,               \* how often each <<iteration, index>> was completed
  lines,                  \* how often each line was written
  opens,                  \* how often the results file was opened
  progress                \* the last value thread 0 gave to Progress

main   == <<mpc, iteration, k, tables>>
locks  == <<lock1, lock2, lock3>>
totals == <<cksum, totalaps>>
chunk  == <<start, stop, hits, line>>
local  == <<checksum, apcount, total>>
output == <<results_file, lines, opens>>
vars   == <<main, current_n43, locks, totals, output, pc, chunk, local,
            searched, progress>>

At(it, i) == {ap \in AP : Where[ap] = <<it, i>>}

\* Deviation: the last chunk is not clipped.
LesserUnclipped(a, b) == a

Lesser(a, b) == IF a < b THEN a ELSE b

Init ==
  /\ mpc = "tables" /\ iteration = 0 /\ k = 0 /\ tables = Nobody
  /\ current_n43 = 0
  /\ lock1 = Nobody /\ lock2 = Nobody /\ lock3 = Nobody
  /\ cksum = Canon(Before) /\ totalaps = 0
  /\ results_file = "NULL" /\ lines = [ap \in AP |-> 0] /\ opens = 0
  /\ pc = [t \in Threads |-> "none"]
  /\ start = [t \in Threads |-> 0] /\ stop = [t \in Threads |-> 0]
  /\ hits = [t \in Threads |-> {}] /\ line = [t \in Threads |-> {}]
  /\ checksum = [t \in Threads |-> 0] /\ apcount = [t \in Threads |-> 0]
  /\ total = [t \in Threads |-> 0]
  /\ searched = [x \in Iterations \X Indices |-> 0]
  /\ progress = 0
-----------------------------------------------------------------------------
\* MAKE_OKOK for this SHIFT, and "initialize shared data".
MakeTables ==
  /\ mpc = "tables" /\ iteration < NIterations
  /\ tables' = iteration /\ current_n43' = 0
  /\ mpc' = "create" /\ k' = 0
  /\ UNCHANGED <<iteration, locks, totals, output, pc, chunk, local, searched,
                 progress>>

\* pthread_create; the new thread starts with zeroed local totals.
Create ==
  /\ mpc = "create"
  /\ pc' = [pc EXCEPT ![k] = "lock1"]
  /\ checksum' = [checksum EXCEPT ![k] = 0]
  /\ apcount' = [apcount EXCEPT ![k] = 0]
  /\ IF k + 1 = NThreads THEN mpc' = "join" /\ k' = 0
                         ELSE k' = k + 1 /\ UNCHANGED mpc
  /\ UNCHANGED <<iteration, tables, current_n43, locks, totals, output, chunk,
                 total, searched, progress>>

\* Deviation: the next iteration does not wait for the threads of this one.
JoinNotWaiting ==
  /\ mpc = "join"
  /\ IF k + 1 = NThreads
     THEN mpc' = "tables" /\ k' = 0 /\ iteration' = iteration + 1
     ELSE k' = k + 1 /\ UNCHANGED <<mpc, iteration>>
  /\ UNCHANGED <<tables, current_n43, locks, totals, output, pc, chunk, local,
                 searched, progress>>

Join ==
  /\ mpc = "join" /\ pc[k] = "exited"
  /\ IF k + 1 = NThreads
     THEN mpc' = "tables" /\ k' = 0 /\ iteration' = iteration + 1
     ELSE k' = k + 1 /\ UNCHANGED <<mpc, iteration>>
  /\ UNCHANGED <<tables, current_n43, locks, totals, output, pc, chunk, local,
                 searched, progress>>

Return ==
  /\ mpc = "tables" /\ iteration = NIterations
  /\ mpc' = "returned"
  /\ UNCHANGED <<iteration, k, tables, current_n43, locks, totals, output, pc,
                 chunk, local, searched, progress>>

\* pthread_create or pthread_join fails: exit(EXIT_FAILURE), whatever the
\* threads that run are doing.
MainFails ==
  /\ MayFail /\ mpc \in {"create", "join"} /\ mpc' = "exited"
  /\ UNCHANGED <<iteration, k, tables, current_n43, locks, totals, output, pc,
                 chunk, local, searched, progress>>

Live == mpc # "exited"

Go(t, from, to) == Live /\ pc[t] = from /\ pc' = [pc EXCEPT ![t] = to]

\* Deviation: current_n43 is read and written without lock1.
Lock1Ignored(t) ==
  /\ Go(t, "lock1", "read_n43") /\ lock1' = t
  /\ UNCHANGED <<main, current_n43, lock2, lock3, totals, output, chunk, local,
                 searched, progress>>

\* pthread_mutex_lock returns when nobody holds the lock.
Lock1(t) ==
  /\ Go(t, "lock1", "read_n43") /\ lock1 = Nobody /\ lock1' = t
  /\ UNCHANGED <<main, current_n43, lock2, lock3, totals, output, chunk, local,
                 searched, progress>>

ReadN43(t) ==
  /\ Go(t, "read_n43", "write_n43")
  /\ start' = [start EXCEPT ![t] = current_n43]
  /\ stop' = [stop EXCEPT ![t] = Lesser(current_n43 + thread_range, numn43s)]
  /\ UNCHANGED <<main, current_n43, locks, totals, output, hits, line,
                 local, searched, progress>>

\* current_n43 = stop, unlock, and the test of the outer while loop.
WriteN43(t) ==
  /\ Go(t, "write_n43", IF start[t] < numn43s THEN "search" ELSE "lock3")
  /\ current_n43' = stop[t] /\ lock1' = Nobody
  /\ UNCHANGED <<main, lock2, lock3, totals, output, chunk, local, searched,
                 progress>>

\* Deviation: every thread reports.
ProgressOfAll(t) ==
  /\ Live /\ pc[t] = "search" /\ start[t] < stop[t] /\ hits[t] = {}
  /\ progress' = iteration * numn43s + start[t]
  /\ UNCHANGED <<main, current_n43, locks, totals, output, pc, chunk, local,
                 searched>>

\* Thread 0 tells BOINC how far it is, when its clock says so.
Progress(t) ==
  /\ Live /\ t = 0 /\ pc[t] = "search" /\ start[t] < stop[t] /\ hits[t] = {}
  /\ progress' = iteration * numn43s + start[t]
  /\ UNCHANGED <<main, current_n43, locks, totals, output, pc, chunk, local,
                 searched>>

\* The sieve and the PRP tests at index start lead to ReportSolution, which adds
\* to the checksum of this thread and may have a line to write.
Hit(t, ap) ==
  /\ Go(t, "search", IF ap \in Long THEN "lock2" ELSE "search")
  /\ start[t] < stop[t] /\ ap \in At(tables, start[t]) \ hits[t]
  /\ hits' = [hits EXCEPT ![t] = @ \cup {ap}]
  /\ line' = [line EXCEPT ![t] = {ap} \cap Long]
  /\ checksum' = [checksum EXCEPT ![t] = AddMod(@, Canon(Mass[{ap}]))]
  /\ apcount' = [apcount EXCEPT ![t] = @ + 1]
  /\ UNCHANGED <<main, current_n43, locks, totals, output, start, stop, total,
                 searched, progress>>

\* Deviation: results_file is tested, opened and written without lock2.
Lock2Ignored(t) ==
  /\ Go(t, "lock2", "check_file") /\ lock2' = t
  /\ UNCHANGED <<main, current_n43, lock1, lock3, totals, output, chunk, local,
                 searched, progress>>

Lock2(t) ==
  /\ Go(t, "lock2", "check_file") /\ lock2 = Nobody /\ lock2' = t
  /\ UNCHANGED <<main, current_n43, lock1, lock3, totals, output, chunk, local,
                 searched, progress>>

\* if (results_file == NULL)
CheckFile(t) ==
  /\ Go(t, "check_file", IF results_file = "NULL" THEN "open_file" ELSE "write_line")
  /\ UNCHANGED <<main, current_n43, locks, totals, output, chunk, local,
                 searched, progress>>

OpenFile(t) ==
  /\ Go(t, "open_file", "write_line")
  /\ results_file' = "open" /\ opens' = opens + 1
  /\ UNCHANGED <<main, current_n43, locks, totals, lines, chunk, local,
                 searched, progress>>

\* Deviation: a return without unlocking lock2.
WriteLineKeepsLock(t) ==
  /\ Go(t, "write_line", "search")
  /\ lines' = [ap \in AP |-> IF ap \in line[t] THEN lines[ap] + 1 ELSE lines[ap]]
  /\ line' = [line EXCEPT ![t] = {}]
  /\ UNCHANGED <<main, current_n43, locks, totals, results_file, opens,
                 start, stop, hits, local, searched, progress>>

\* fprintf and unlock.
WriteLine(t) ==
  /\ Go(t, "write_line", "search")
  /\ lines' = [ap \in AP |-> IF ap \in line[t] THEN lines[ap] + 1 ELSE lines[ap]]
  /\ line' = [line EXCEPT ![t] = {}] /\ lock2' = Nobody
  /\ UNCHANGED <<main, current_n43, lock1, lock3, totals, results_file, opens,
                 start, stop, hits, local, searched, progress>>

\* ++start: everything at this index is done.
NextIndex(t) ==
  /\ Go(t, "search", IF start[t] + 1 < stop[t] THEN "search" ELSE "lock1")
  /\ start[t] < stop[t] /\ hits[t] = At(tables, start[t])
  /\ searched' = [searched EXCEPT ![<<tables, start[t]>>] = @ + 1]
  /\ start' = [start EXCEPT ![t] = @ + 1]
  /\ hits' = [hits EXCEPT ![t] = {}]
  /\ UNCHANGED <<main, current_n43, locks, totals, output, stop, line, local,
                 progress>>

\* Deviation: the totals are read and written without lock3.
Lock3Ignored(t) ==
  /\ Go(t, "lock3", "read_total") /\ lock3' = t
  /\ UNCHANGED <<main, current_n43, lock1, lock2, totals, output, chunk, local,
                 searched, progress>>

Lock3(t) ==
  /\ Go(t, "lock3", "read_total") /\ lock3 = Nobody /\ lock3' = t
  /\ UNCHANGED <<main, current_n43, lock1, lock2, totals, output, chunk, local,
                 searched, progress>>

\* total = cksum + checksum, reduced
ReadTotal(t) ==
  /\ Go(t, "read_total", "write_total")
  /\ total' = [total EXCEPT ![t] = AddMod(cksum, checksum[t])]
  /\ UNCHANGED <<main, current_n43, locks, totals, output, chunk, checksum,
                 apcount, searched, progress>>

\* cksum = total; totalaps += apcount; unlock; pthread_exit
WriteTotal(t) ==
  /\ Go(t, "write_total", "exited")
  /\ cksum' = total[t] /\ totalaps' = totalaps + apcount[t] /\ lock3' = Nobody
  /\ UNCHANGED <<main, current_n43, lock1, lock2, output, chunk, local,
                 searched, progress>>

\* An invalid progression, a file that cannot be opened or written, a mutex
\* that fails: exit(EXIT_FAILURE), with the other threads anywhere.
WorkerFails(t) ==
  /\ MayFail /\ Live /\ pc[t] \notin {"none", "exited"} /\ mpc' = "exited"
  /\ UNCHANGED <<iteration, k, tables, current_n43, locks, totals, output, pc,
                 chunk, local, searched, progress>>

Worker(t) ==
  \/ Lock1(t) \/ ReadN43(t) \/ WriteN43(t)
  \/ \E ap \in AP : Hit(t, ap)
  \/ Lock2(t) \/ CheckFile(t) \/ OpenFile(t) \/ WriteLine(t)
  \/ NextIndex(t)
  \/ Lock3(t) \/ ReadTotal(t) \/ WriteTotal(t)

Main == MakeTables \/ Create \/ Join \/ Return

\* The search is over: Search_* returned, or the process is gone.
Over == mpc \in {"returned", "exited"} /\ UNCHANGED vars

Next ==
  \/ Main \/ MainFails \/ Over
  \/ \E t \in Threads : Worker(t) \/ Progress(t) \/ WorkerFails(t)

Spec == Init /\ [][Next]_vars

\* Every thread is scheduled.  Nothing is asked of the mutexes: they need not
\* be fair, the work runs out.
FairSpec == Spec /\ WF_vars(Main) /\ \A t \in Threads : WF_vars(Worker(t))
-----------------------------------------------------------------------------
WorkerSteps == {"none", "lock1", "read_n43", "write_n43", "search", "lock2",
                "check_file", "open_file", "write_line", "lock3", "read_total",
                "write_total", "exited"}

\* Every variable has its type.  current_n43 and every chunk stay inside the
\* table of numn43s entries, whose size no multiple of thread_range has to be.
TypeOK ==
  /\ mpc \in {"tables", "create", "join", "returned", "exited"}
  /\ iteration \in 0..NIterations /\ k \in 0..NThreads
  /\ tables \in Iterations \cup {Nobody}
  /\ current_n43 \in 0..numn43s
  /\ lock1 \in Threads \cup {Nobody}
  /\ lock2 \in Threads \cup {Nobody}
  /\ lock3 \in Threads \cup {Nobody}
  /\ cksum \in Sums /\ totalaps \in Nat
  /\ results_file \in {"NULL", "open"} /\ opens \in Nat
  /\ lines \in [AP -> Nat]
  /\ pc \in [Threads -> WorkerSteps]
  /\ start \in [Threads -> 0..numn43s] /\ stop \in [Threads -> 0..numn43s]
  /\ hits \in [Threads -> SUBSET AP] /\ line \in [Threads -> SUBSET Long]
  /\ checksum \in [Threads -> Sums] /\ apcount \in [Threads -> Nat]
  /\ total \in [Threads -> Sums]
  /\ searched \in [Iterations \X Indices -> Nat]
  /\ progress \in Nat

\* No index of the n43 table is searched twice in an iteration, and when the
\* last thread is joined none was left out.
EachIndexOnce ==
  /\ \A x \in Iterations \X Indices : searched[x] <= 1
  /\ mpc \in {"tables", "returned"} =>
       \A x \in Iterations \X Indices : x[1] < iteration => searched[x] = 1

\* The tables of the next SHIFT are not built while a thread sieves with those
\* of this one: join waits for every thread.
TablesStable ==
  mpc = "tables" => \A t \in Threads : pc[t] \in {"none", "exited"}

\* The totals do not depend on the number of threads, on which thread found
\* what, or on the order in which they came to lock3: whenever all threads are
\* joined the checksum is bit for bit that of a sequential search so far.
TotalsExact ==
  mpc \in {"tables", "returned"} =>
    LET done == {ap \in AP : Where[ap][1] < iteration} IN
      /\ cksum = AddMod(Canon(Before), Canon(Mass[done]))
      /\ totalaps = Cardinality(done)

\* Every line is written once, through one FILE: two threads that find
\* results_file NULL at the same time would open it twice and lose one of them.
LinesExact ==
  /\ opens <= 1
  /\ mpc = "returned" => \A ap \in AP : lines[ap] = IF ap \in Long THEN 1 ELSE 0

\* What thread 0 tells BOINC never goes back, across chunks and iterations.
ProgressMonotone == [][progress' >= progress]_vars

\* The search of a K ends: no thread waits for ever for a mutex or a join.
Ends == <>(mpc \in {"returned", "exited"})
-----------------------------------------------------------------------------
\* What RangeSearch calls its variables, for the one K this pool searches.
Reported == {ap \in AP : searched[Where[ap]] > 0 \/ \E t \in Threads : ap \in hits[t]}

Abstract == INSTANCE RangeSearch WITH
  NK       <- 1,
  KOf      <- [ap \in AP |-> 1],
  K        <- IF mpc = "returned" THEN 2 ELSE 1,
  reported <- IF mpc = "returned" THEN {} ELSE Reported,
  totalaps <- IF mpc = "returned" THEN totalaps ELSE 0

\* The worker threads together are one search.
ImplementsRangeSearch == Abstract!Spec
=============================================================================
