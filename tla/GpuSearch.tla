------------------------------ MODULE GpuSearch ------------------------------
(***************************************************************************)
(* The search of one K after the other by the GPU programs: SearchAP26     *)
(* enqueues kernels without waiting for them, three sieve launches ahead   *)
(* of an event, and reads four counters at the end of a K.  The GPU runs   *)
(* the kernels of its one queue in order.                                  *)
(*                                                                         *)
(* What there is to find is given: Cands passes the sieve, AP of these     *)
(* are the progressions checkn finds.  Words of the n59 tables, launches   *)
(* and array sizes are modelled exactly, the arithmetic on n is not.       *)
(***************************************************************************)
EXTENDS Integers, Sequences, FiniteSets, SequencesExt

CONSTANTS
  NK,              \* the K of a workunit are 1..NK here
  NShifts,         \* 10 values of SHIFT, 64 apart
  halfn59s,        \* words in each of the two n59 tables
  sieve_wpt,       \* words per thread: 1, or 2 in the ilp2 kernel
  local_size,      \* threads per block
  sol,             \* capacity of sol_k, sol_val
  Cands, Where,    \* candidates, each at a [K, shift, array, word]
  AP,              \* the candidates checkn stores
  TooLarge,        \* those at which checkn passes 2^64-1
  MayFail          \* does this instance exercise driver errors?

Shifts == 0..(NShifts - 1)
Arrays == {0, 1}
Units  == halfn59s \div sieve_wpt       \* threads a table takes

ASSUME GpuSearchAssumption ==
  /\ NK \in Nat \ {0} /\ NShifts \in Nat \ {0}
  /\ halfn59s \in Nat \ {0} /\ sieve_wpt \in {1, 2}
  /\ halfn59s % sieve_wpt = 0
  /\ local_size \in Nat \ {0} /\ sol \in Nat
  /\ IsFiniteSet(Cands) /\ AP \subseteq Cands /\ TooLarge \subseteq Cands
  /\ Where \in [Cands -> [K : 1..NK, shift : Shifts, array : Arrays,
                          word : 0..(halfn59s - 1)]]
  /\ MayFail \in BOOLEAN

VARIABLES
  \* the host
  hpc, K,
  profile,         \* TRUE until the first K has sized the launches
  global_size,     \* of the sieve kernel
  numn,            \* capacity of n_result
  SHIFT, devicearray, p, iter, launchEvent,
  reported,        \* given to ReportSolution for this K
  totalaps,
  \* kernels enqueued and not finished
  queue,
  \* device memory: whose n59 tables and OK tables, which OKOK tables
  n59, OK, OKOK,
  n_result,        \* counter[0] is its length
  largest,         \* counter[1]
  sols,            \* counter[2] is its length
  limit,           \* counter[3]
  \* history
  first,           \* the K the program was started with
  driverFailed

loop   == <<SHIFT, devicearray, p, iter, launchEvent>>
sizes  == <<profile, global_size, numn>>
result == <<reported, totalaps>>
tables == <<n59, OK, OKOK>>
found  == <<n_result, largest, sols, limit>>
device == <<tables, found>>
vars   == <<hpc, K, sizes, loop, result, queue, device, first, driverFailed>>

Larger(a, b) == IF a > b THEN a ELSE b
Lesser(a, b) == IF a < b THEN a ELSE b

GlobalSize(threads) == (threads \div local_size) * local_size + local_size

\* Half the words of a launch.
NResultSize(threads) == (threads * sieve_wpt) \div 2

\* Kernels in the queue, with the arguments and sizes they were enqueued with.
Setupn         == [kernel |-> "setupn", K |-> K]
Clearok        == [kernel |-> "clearok"]
Setupok        == [kernel |-> "setupok", K |-> K]
Setupokok(s)   == [kernel |-> "setupokok", shift |-> s]
Clearn         == [kernel |-> "clearn"]
Sieve(s, array, from, size, event) ==
  [kernel |-> "sieve", K |-> K, shift |-> s, array |-> array, p |-> from,
   size |-> size, event |-> event]
Checkn         == [kernel |-> "checkn"]

Mixed == -1

Pending(kernel) == {i \in 1..Len(queue) : queue[i].kernel = kernel}

Init ==
  /\ hpc = "setup" /\ K \in 1..NK /\ first = K
  /\ profile = TRUE /\ global_size = 0 /\ numn = 0
  /\ SHIFT = 0 /\ devicearray = 0 /\ p = 0 /\ iter = 0 /\ launchEvent = "NULL"
  /\ reported = << >> /\ totalaps = 0 /\ queue = << >>
  /\ n59 = 0 /\ OK = 0 /\ OKOK = [K |-> 0, shift |-> 0]
  /\ n_result = << >> /\ largest = 0 /\ sols = << >> /\ limit = FALSE
  /\ driverFailed = FALSE
-----------------------------------------------------------------------------
\* The blocking write of the n43 table, then setupn, clearok and setupok.
Setup ==
  /\ hpc = "setup" /\ queue = << >>
  /\ queue' = <<Setupn, Clearok, Setupok>>
  /\ SHIFT' = 0 /\ iter' = 0 /\ launchEvent' = "NULL"
  /\ reported' = << >>
  /\ hpc' = IF profile THEN "profile" ELSE "shift"
  /\ UNCHANGED <<K, sizes, devicearray, p, totalaps, device, first, driverFailed>>

\* The first sieve launch of the program, on a guess from the number of
\* compute units, is timed.
ProfileLaunch ==
  /\ hpc = "profile"
  /\ \E worksize \in 1..Units :
       /\ global_size' = GlobalSize(worksize)
       /\ numn' = NResultSize(GlobalSize(worksize))
       /\ queue' = queue \o <<Setupokok(SHIFT), Clearn,
                              Sieve(SHIFT, 0, 0, GlobalSize(worksize), FALSE)>>
  /\ profile' = FALSE /\ hpc' = "profile_wait"
  /\ UNCHANGED <<K, loop, result, device, first, driverFailed>>

\* The time the launch took, whatever it says, sizes all later launches; n_result
\* is freed behind the kernels that use it.
ProfileDone ==
  /\ hpc = "profile_wait" /\ queue = << >>
  /\ \E new_range \in 0..Units :
       /\ global_size' = GlobalSize(new_range)
       /\ numn' = NResultSize(GlobalSize(new_range))
  /\ hpc' = "shift"
  /\ UNCHANGED <<K, profile, loop, result, queue, device, first, driverFailed>>

\* Deviation: the OKOK tables are built for the first SHIFT only.
NewShiftKeepsTables ==
  /\ hpc = "shift" /\ SHIFT < NShifts
  /\ queue' = IF SHIFT = 0 THEN Append(queue, Setupokok(SHIFT)) ELSE queue
  /\ devicearray' = 0 /\ p' = 0 /\ hpc' = "launch"
  /\ UNCHANGED <<K, sizes, SHIFT, iter, launchEvent, result, device, first,
                 driverFailed>>

NewShift ==
  /\ hpc = "shift" /\ SHIFT < NShifts
  /\ queue' = Append(queue, Setupokok(SHIFT))
  /\ devicearray' = 0 /\ p' = 0 /\ hpc' = "launch"
  /\ UNCHANGED <<K, sizes, SHIFT, iter, launchEvent, result, device, first,
                 driverFailed>>

\* for SHIFT, for devicearray, for p: what comes after this launch.
AdvanceLoops ==
  IF p + global_size < Units
  THEN p' = p + global_size /\ UNCHANGED <<hpc, SHIFT, devicearray>>
  ELSE /\ p' = 0
       /\ IF devicearray = 0
          THEN devicearray' = 1 /\ UNCHANGED <<hpc, SHIFT>>
          ELSE SHIFT' = SHIFT + 1 /\ hpc' = "shift" /\ UNCHANGED devicearray

\* Deviation: the wait comes one launch late.
LaunchFourth ==
  /\ hpc = "launch" /\ iter <= 3
  /\ queue' = queue \o <<Clearn,
                         Sieve(SHIFT, devicearray, p, global_size, iter = 0),
                         Checkn>>
  /\ launchEvent' = IF iter = 0 THEN "recorded" ELSE launchEvent
  /\ iter' = iter + 1
  /\ AdvanceLoops
  /\ UNCHANGED <<K, sizes, result, device, first, driverFailed>>

\* Deviation: the event comes with the last of three launches.
LaunchLateEvent ==
  /\ hpc = "launch" /\ iter < 3
  /\ queue' = queue \o <<Clearn,
                         Sieve(SHIFT, devicearray, p, global_size, iter = 2),
                         Checkn>>
  /\ launchEvent' = IF iter = 2 THEN "recorded" ELSE launchEvent
  /\ iter' = iter + 1
  /\ AdvanceLoops
  /\ UNCHANGED <<K, sizes, result, device, first, driverFailed>>

Launch ==
  /\ hpc = "launch" /\ iter < 3
  /\ queue' = queue \o <<Clearn,
                         Sieve(SHIFT, devicearray, p, global_size, iter = 0),
                         Checkn>>
  /\ launchEvent' = IF iter = 0 THEN "recorded" ELSE launchEvent
  /\ iter' = iter + 1
  /\ AdvanceLoops
  /\ UNCHANGED <<K, sizes, result, device, first, driverFailed>>

\* cuEventQuery returns CUDA_SUCCESS once the kernel before it has finished.
EventDone == \A i \in Pending("sieve") : ~queue[i].event

\* Deviation: the launches are not held back.
WaitNotWaiting ==
  /\ hpc = "launch" /\ iter = 3
  /\ iter' = 0 /\ launchEvent' = "destroyed"
  /\ UNCHANGED <<hpc, K, sizes, SHIFT, devicearray, p, result, queue, device,
                 first, driverFailed>>

\* Deviation: iter is not reset.
WaitKeepsIter ==
  /\ hpc = "launch" /\ iter = 3 /\ EventDone
  /\ launchEvent' = "destroyed"
  /\ UNCHANGED <<hpc, K, sizes, SHIFT, devicearray, p, iter, result, queue,
                 device, first, driverFailed>>

\* waitOnEvent at iter = 3.
Wait ==
  /\ hpc = "launch" /\ iter = 3 /\ EventDone
  /\ iter' = 0 /\ launchEvent' = "destroyed"
  /\ UNCHANGED <<hpc, K, sizes, SHIFT, devicearray, p, result, queue, device,
                 first, driverFailed>>

\* waitOnEvent after the loops.
WaitLast ==
  /\ hpc = "shift" /\ SHIFT = NShifts /\ EventDone
  /\ launchEvent' = "destroyed" /\ hpc' = "drain"
  /\ UNCHANGED <<K, sizes, SHIFT, devicearray, p, iter, result, queue, device,
                 first, driverFailed>>

\* sleepCPU.
Drain ==
  /\ hpc = "drain" /\ queue = << >> /\ hpc' = "read"
  /\ UNCHANGED <<K, sizes, loop, result, queue, device, first, driverFailed>>

Overflow == largest > numn \/ Len(sols) > sol \/ limit

\* Deviation: the counters are read without waiting for the kernels.
ReadAtOnce ==
  /\ hpc = "read"
  /\ hpc' = IF Overflow THEN "exited" ELSE "report"
  /\ UNCHANGED <<K, sizes, loop, result, queue, device, first, driverFailed>>

\* The blocking read of the counters is ordered behind all kernels.
Read ==
  /\ hpc = "read" /\ queue = << >>
  /\ hpc' = IF Overflow THEN "exited" ELSE "report"
  /\ UNCHANGED <<K, sizes, loop, result, queue, device, first, driverFailed>>

Report ==
  /\ hpc = "report" /\ Len(reported) < Len(sols)
  /\ reported' = Append(reported, sols[Len(reported) + 1])
  /\ UNCHANGED <<hpc, K, sizes, loop, totalaps, queue, device, first,
                 driverFailed>>

Return ==
  /\ hpc = "report" /\ Len(reported) = Len(sols)
  /\ totalaps' = totalaps + Len(sols)
  /\ hpc' = "returned"
  /\ UNCHANGED <<K, sizes, loop, reported, queue, device, first, driverFailed>>

\* main goes on with the next K.
NextK ==
  /\ hpc = "returned" /\ K < NK
  /\ K' = K + 1 /\ hpc' = "setup"
  /\ UNCHANGED <<sizes, loop, result, queue, device, first, driverFailed>>

\* A wait that is over at once: cuEventQuery returns an error, which is printed
\* and the event destroyed; or the event was not created or recorded, which
\* sclEnqueueKernelEvent does not notice and the query takes for an error, or
\* for the end of a kernel.
QueryFails ==
  /\ MayFail /\ driverFailed' = TRUE
  /\ \/ /\ hpc = "launch" /\ iter = 3
        /\ iter' = 0 /\ launchEvent' = "destroyed" /\ UNCHANGED hpc
     \/ /\ hpc = "shift" /\ SHIFT = NShifts
        /\ launchEvent' = "destroyed" /\ hpc' = "drain" /\ UNCHANGED iter
     \/ /\ hpc = "drain" /\ hpc' = "read" /\ UNCHANGED <<iter, launchEvent>>
  /\ UNCHANGED <<K, sizes, SHIFT, devicearray, p, result, queue, device, first>>

\* The errors the program looks at, of a launch, a copy, an allocation or in
\* ReportSolution: exit(EXIT_FAILURE), boinc_temporary_exit in sclMalloc.
Fails ==
  /\ MayFail /\ hpc \notin {"returned", "exited"} /\ hpc' = "exited"
  /\ driverFailed' = TRUE
  /\ UNCHANGED <<K, sizes, loop, result, queue, device, first>>
-----------------------------------------------------------------------------
\* The GPU.  Run(kernel): the kernel at the head of the queue finishes.
Run(kernel) ==
  /\ queue # << >> /\ Head(queue).kernel = kernel /\ queue' = Tail(queue)
  /\ UNCHANGED <<hpc, K, sizes, loop, result, first, driverFailed>>

RunSetupn ==
  /\ Run("setupn") /\ n59' = Head(queue).K
  /\ UNCHANGED <<OK, OKOK, found>>

\* clearok also clears counters 1, 2 and 3.
RunClearok ==
  /\ Run("clearok") /\ OK' = 0
  /\ largest' = 0 /\ sols' = << >> /\ limit' = FALSE
  /\ UNCHANGED <<n59, OKOK, n_result>>

\* setupok only ever strikes out residues: in a table that was not cleared
\* those of another K stay struck out.
RunSetupok ==
  /\ Run("setupok") /\ OK' = IF OK = 0 THEN Head(queue).K ELSE Mixed
  /\ UNCHANGED <<n59, OKOK, found>>

RunSetupokok ==
  /\ Run("setupokok") /\ OKOK' = [K |-> OK, shift |-> Head(queue).shift]
  /\ UNCHANGED <<n59, OK, found>>

RunClearn ==
  /\ Run("clearn") /\ n_result' = << >>
  /\ UNCHANGED <<tables, largest, sols, limit>>

Words(from, threads) ==
  {w \in 0..(halfn59s - 1) :
     sieve_wpt * from <= w /\ w < sieve_wpt * (from + threads)}

At(k, s, array, words) ==
  {c \in Cands : /\ Where[c].K = k /\ Where[c].shift = s
                 /\ Where[c].array = array /\ Where[c].word \in words}

\* What a launch adds to n_result; nothing fits unless the tables are those of
\* the arguments the launch was given.
Sieved(cmd) ==
  IF n59 = cmd.K /\ OKOK = [K |-> cmd.K, shift |-> cmd.shift]
  THEN At(n59, cmd.shift, cmd.array, Words(cmd.p, cmd.size))
  ELSE {}

\* The threads come to atomicAdd in any order.
RunSieve ==
  /\ Run("sieve")
  /\ \E hits \in SetToSeqs(Sieved(Head(queue))) : n_result' = n_result \o hits
  /\ UNCHANGED <<tables, largest, sols, limit>>

\* Deviation: only the last launch is remembered.
LargestIsLast == Len(n_result)

Largest == Larger(largest, Len(n_result))

\* What was stored behind the end of n_result is lost; here too the threads
\* come to atomicAdd in any order.
Stored == {n_result[i] : i \in 1..Lesser(Len(n_result), numn)}

RunCheckn ==
  /\ Run("checkn")
  /\ \E new \in SetToSeqs(Stored \cap AP) : sols' = sols \o new
  /\ limit' = (limit \/ Stored \cap TooLarge # {})
  /\ largest' = Largest
  /\ UNCHANGED <<tables, n_result>>

Host ==
  \/ Setup \/ ProfileLaunch \/ ProfileDone \/ NewShift \/ Launch \/ Wait
  \/ WaitLast \/ Drain \/ Read \/ Report \/ Return \/ NextK

Gpu ==
  \/ RunSetupn \/ RunClearok \/ RunSetupok \/ RunSetupokok \/ RunClearn
  \/ RunSieve \/ RunCheckn

\* All K are done, or the process is gone.
Over == \/ hpc = "exited" /\ UNCHANGED vars
        \/ hpc = "returned" /\ K = NK /\ UNCHANGED vars

Next == \/ hpc # "exited" /\ (Host \/ Gpu)
        \/ QueryFails \/ Fails \/ Over

Spec == Init /\ [][Next]_vars

\* The host is scheduled, and no kernel runs for ever.
FairSpec == Spec /\ WF_vars(Host) /\ WF_vars(hpc # "exited" /\ Gpu)
-----------------------------------------------------------------------------
Hosts == {"setup", "profile", "profile_wait", "shift", "launch", "drain",
          "read", "report", "returned", "exited"}

Kernels == [kernel : {"setupn", "setupok"}, K : 1..NK]
           \cup [kernel : {"clearok", "clearn", "checkn"}]
           \cup [kernel : {"setupokok"}, shift : Shifts]
           \cup [kernel : {"sieve"}, K : 1..NK, shift : Shifts, array : Arrays,
                 p : Nat, size : Nat, event : BOOLEAN]

\* Every variable has its type; n_result is sized by half the words of a launch.
TypeOK ==
  /\ hpc \in Hosts /\ K \in 1..NK /\ first \in 1..NK
  /\ profile \in BOOLEAN /\ global_size \in Nat
  /\ numn = NResultSize(global_size)
  /\ SHIFT \in 0..NShifts /\ devicearray \in Arrays /\ p \in 0..Units
  /\ iter \in 0..3 /\ launchEvent \in {"NULL", "recorded", "destroyed"}
  /\ reported \in Seq(AP) /\ totalaps \in Nat
  /\ queue \in Seq(Kernels)
  /\ n59 \in 0..NK /\ OK \in 0..NK /\ OKOK \in [K : 0..NK, shift : Shifts]
  /\ n_result \in Seq(Cands) /\ largest \in Nat /\ sols \in Seq(AP)
  /\ limit \in BOOLEAN /\ driverFailed \in BOOLEAN

OfK(k) == {c \in Cands : Where[c].K = k}

\* A K that returns has reported each of its progressions exactly once, in
\* whatever order the GPU met them and however the launches were cut, and the
\* count of the workunit agrees.
Complete ==
  hpc = "returned" =>
    /\ ToSet(reported) = OfK(K) \cap AP
    /\ Len(reported) = Cardinality(OfK(K) \cap AP)
    /\ totalaps = Cardinality({c \in AP : Where[c].K \in first..K})

Exceeds(k) ==
  \/ \E s \in Shifts, array \in Arrays, i \in 0..Units :
       Cardinality(At(k, s, array, Words(i * global_size, global_size))) > numn
  \/ Cardinality(OfK(k) \cap AP) > sol
  \/ OfK(k) \cap TooLarge # {}

\* The four counters read at the end of a K tell exactly whether any of its
\* launches overflowed an array or the prime test: no K is reported that did,
\* and before a driver error no K is given up that did not.
StopsExactly ==
  /\ hpc \in {"report", "returned"} => ~Exceeds(K)
  /\ hpc = "exited" /\ ~driverFailed => Exceeds(K)

\* No event is waited on after it was destroyed or before it was recorded, and
\* none is overwritten while it lives.
EventsSound ==
  /\ hpc = "launch" /\ iter = 3 => launchEvent = "recorded"
  /\ hpc = "shift" /\ SHIFT = NShifts => launchEvent = "recorded"
  /\ hpc = "launch" /\ iter = 0 => launchEvent # "recorded"

\* "this way we limit the queue depth": at most the two launches behind the
\* one waited for, and three more.
QueueBounded == ~driverFailed => Cardinality(Pending("sieve")) <= 5

\* The search comes to its end: no wait is for an event that never completes.
Ends == <>(hpc = "exited" \/ (hpc = "returned" /\ K = NK))
-----------------------------------------------------------------------------
\* What RangeSearch calls its variables: a K is left when SearchAP26 returns,
\* and what was reported of the K before does not count.
CurrentK == IF hpc = "returned" THEN K + 1 ELSE K

ReportedOf(k) == {ap \in ToSet(reported) : Where[ap].K = k}

Abstract == INSTANCE RangeSearch WITH
  KOf      <- [ap \in AP |-> Where[ap].K],
  K        <- CurrentK,
  reported <- ReportedOf(CurrentK)

\* SearchAP26 is a search that reports every progression of a K before the next.
ImplementsRangeSearch == Abstract!Spec
=============================================================================
