-------------------------- MODULE WorkPoolTheorems --------------------------
(***************************************************************************)
(* What the worker pool promises for every number of threads, every size   *)
(* of the table and of a chunk, and every number of iterations.            *)
(*                                                                         *)
(* That no index is searched twice and none is left out rests on Chunks:   *)
(* the chunks being searched are disjoint pieces of the table below        *)
(* current_n43, and Accounts: what lies below current_n43 and in no chunk  *)
(* is searched.  Phases says which threads there are while main creates    *)
(* and joins them, Mutex1 that lock1 does its work.                        *)
(*                                                                         *)
(* Then: the checksum, the count and the lines of SOL-AP26.txt are those   *)
(* of a sequential search.  The argument follows a progression from the    *)
(* table to the totals.  Found says that it has been reported; every step  *)
(* keeps Found but Hit, which adds one that was not found before           *)
(* (FoundStep).  What is found is split into what was merged under lock3   *)
(* and the shares the threads still hold (Shares); the merge moves a share *)
(* and lock3 keeps it whole.  A line is written when its progression is    *)
(* found and no thread has it pending.                                     *)
(***************************************************************************)
EXTENDS WorkPool, ChecksumTheorems, FiniteSetTheorems

Searching == {"search", "lock2", "check_file", "open_file", "write_line"}
Taking    == {"read_n43", "write_n43"}
Leaving   == {"lock3", "read_total", "write_total", "exited"}
Idle      == {"none", "exited"}

\* Which threads there are, and which tables they use.
Phases ==
  /\ mpc \in {"tables", "returned"} => \A t \in Threads : pc[t] \in Idle
  /\ mpc \in {"create", "join"} => k < NThreads
  /\ mpc = "create" => \A t \in Threads : k <= t => pc[t] \in Idle
  /\ mpc = "join" => \A t \in Threads : t < k => pc[t] = "exited"
  /\ mpc \in {"create", "join", "exited"} => iteration < NIterations /\ tables = iteration
  /\ mpc = "returned" => iteration = NIterations

Mutex1 == \A t \in Threads : pc[t] \in Taking => lock1 = t

\* This thread has been created in this iteration.
Started(t) == mpc = "join" \/ (mpc = "create" /\ t < k)

Chunks ==
  /\ \A t \in Threads : pc[t] = "write_n43" =>
       start[t] = current_n43 /\ stop[t] = Lesser(current_n43 + thread_range, numn43s)
  /\ \A t \in Threads : pc[t] \in Searching =>
       stop[t] <= current_n43 /\ start[t] < stop[t]
  /\ \A t, u \in Threads : t # u /\ pc[t] \in Searching /\ pc[u] \in Searching =>
       stop[t] <= start[u] \/ stop[u] <= start[t]
  /\ \A t \in Threads : Started(t) /\ pc[t] \in Leaving => current_n43 = numn43s

\* Index i belongs to a chunk that is being searched and is still to be done.
Held(i) == \E t \in Threads : pc[t] \in Searching /\ start[t] <= i /\ i < stop[t]

Accounts ==
  /\ \A x \in Iterations \X Indices : x[1] < iteration => searched[x] = 1
  /\ \A x \in Iterations \X Indices : x[1] > iteration => searched[x] = 0
  /\ mpc \in {"tables", "returned"} =>
       \A x \in Iterations \X Indices : x[1] = iteration => searched[x] = 0
  /\ mpc \in {"create", "join", "exited"} =>
       \A i \in Indices :
         searched[<<iteration, i>>] = IF i < current_n43 /\ ~Held(i) THEN 1 ELSE 0

-----------------------------------------------------------------------------
LEMMA Numbers ==
  /\ NThreads \in Nat /\ numn43s \in Nat /\ thread_range \in Nat /\ NIterations \in Nat
  /\ NThreads > 0 /\ numn43s > 0 /\ thread_range > 0 /\ NIterations > 0
  /\ \A t \in Threads : t \in Nat /\ t < NThreads /\ t # Nobody
  /\ 0 \in Threads
BY WorkPoolAssumption DEF Threads, Nobody

LEMMA MassType ==
  ASSUME NEW ap \in AP
  PROVE  Canon(Mass[{ap}]) \in Sums
<1>1. Mass[{ap}] \in Nat
  BY WorkPoolAssumption
<1> QED
  BY <1>1, CanonType

LEMMA InitTyped == Init => TypeOK /\ Phases
<1> SUFFICES ASSUME Init PROVE TypeOK /\ Phases
  OBVIOUS
<1>1. cksum \in Sums
  BY CanonType, WorkPoolAssumption DEF Init
<1>2. 0 \in Sums
  BY ChecksumAssumption DEF Sums
<1> QED
  BY <1>1, <1>2, Numbers DEF Init, TypeOK, Phases, Idle, WorkerSteps

\* The program never leaves its types, and main's phases are as described.
LEMMA NextTyped == TypeOK /\ Phases /\ [Next]_vars => TypeOK' /\ Phases'
<1> SUFFICES ASSUME TypeOK, Phases, [Next]_vars PROVE TypeOK' /\ Phases'
  OBVIOUS
<1> USE DEF vars, main, locks, totals, chunk, local, output
<1>1. CASE MakeTables
  BY <1>1, Numbers DEF MakeTables, TypeOK, Phases, Iterations, Idle
<1>2. CASE Create
  <2> USE DEF Create, TypeOK, Phases
  <2>1. k \in Threads /\ 0 \in Sums
    BY <1>2, Numbers, ChecksumAssumption DEF Threads, Sums
  <2>2. pc' \in [Threads -> WorkerSteps] /\ checksum' \in [Threads -> Sums]
        /\ apcount' \in [Threads -> Nat]
    BY <1>2, <2>1 DEF WorkerSteps
  <2>3. \A t \in Threads : t # k => pc'[t] = pc[t]
    BY <1>2, <2>1
  <2>4. CASE k + 1 = NThreads
    BY <1>2, <2>1, <2>2, <2>4, Numbers, SMTT(20) DEF Threads
  <2>5. CASE k + 1 # NThreads
    <3>1. k' = k + 1 /\ k' < NThreads /\ mpc' = "create" /\ k' \in 0..NThreads
      BY <1>2, <2>1, <2>5, Numbers DEF Threads
    <3>2. \A t \in Threads : k' <= t => t # k /\ k <= t
      BY <3>1, <2>1, Numbers
    <3>3. \A t \in Threads : k' <= t => pc'[t] \in Idle
      BY <1>2, <2>3, <3>2
    <3> QED
      BY <1>2, <2>2, <3>1, <3>3
  <2> QED
    BY <2>4, <2>5
<1>3. CASE Join
  <2> USE DEF Join, TypeOK, Phases
  <2>1. CASE k + 1 = NThreads
    <3>1. \A t \in Threads : t < k \/ t = k
      BY <1>3, <2>1, Numbers DEF Threads
    <3>2. \A t \in Threads : pc[t] \in Idle
      BY <1>3, <3>1 DEF Idle
    <3> QED
      BY <1>3, <2>1, <3>2, Numbers DEF Iterations
  <2>2. CASE k + 1 # NThreads
    <3>1. k' = k + 1 /\ k' < NThreads /\ mpc' = "join" /\ k' \in 0..NThreads
      BY <1>3, <2>2, Numbers
    <3>2. \A t \in Threads : t < k' => t < k \/ t = k
      BY <1>3, <3>1, Numbers
    <3> QED
      BY <1>3, <3>1, <3>2
  <2> QED
    BY <2>1, <2>2
<1>4. CASE Return
  BY <1>4, Numbers DEF Return, TypeOK, Phases
<1>5. CASE MainFails
  BY <1>5 DEF MainFails, TypeOK, Phases
<1>6. CASE UNCHANGED vars
  BY <1>6 DEF TypeOK, Phases
<1>7. ASSUME NEW t \in Threads, Worker(t)
      PROVE  TypeOK' /\ Phases'
  <2> USE DEF Go, Live, TypeOK, Phases, Idle, WorkerSteps
  <2>1. CASE Lock1(t)
    BY <2>1 DEF Lock1
  <2>2. CASE ReadN43(t)
    BY <2>2, Numbers DEF ReadN43, Lesser
  <2>3. CASE WriteN43(t)
    BY <2>3 DEF WriteN43
  <2>4. ASSUME NEW ap \in AP, Hit(t, ap)
        PROVE  TypeOK' /\ Phases'
    <3>1. AddMod(checksum[t], Canon(Mass[{ap}])) \in Sums
      BY MassType, AddModInRange
    <3>2. {ap} \cap Long \in SUBSET Long
      OBVIOUS
    <3> QED
      BY <2>4, <3>1, <3>2 DEF Hit
  <2>5. CASE Lock2(t)
    BY <2>5 DEF Lock2
  <2>6. CASE CheckFile(t)
    BY <2>6 DEF CheckFile
  <2>7. CASE OpenFile(t)
    BY <2>7 DEF OpenFile
  <2>8. CASE WriteLine(t)
    BY <2>8 DEF WriteLine
  <2>9. CASE NextIndex(t)
    <3>1. start[t] + 1 \in 0..numn43s /\ start[t] \in Indices
      BY <2>9, Numbers DEF NextIndex, Indices
    <3>2. mpc \in {"create", "join"} /\ tables \in Iterations
      BY <2>9, Numbers DEF NextIndex, Iterations
    <3>3. searched' \in [Iterations \X Indices -> Nat]
      BY <2>9, <3>1, <3>2 DEF NextIndex
    <3>4. /\ start' \in [Threads -> 0..numn43s] /\ hits' \in [Threads -> SUBSET AP]
          /\ pc' \in [Threads -> {"search", "lock1"} \cup WorkerSteps]
      BY <2>9, <3>1 DEF NextIndex
    <3> QED
      BY <2>9, <3>2, <3>3, <3>4 DEF NextIndex
  <2>10. CASE Lock3(t)
    BY <2>10 DEF Lock3
  <2>11. CASE ReadTotal(t)
    <3>1. AddMod(cksum, checksum[t]) \in Sums
      BY AddModInRange
    <3> QED
      BY <2>11, <3>1 DEF ReadTotal
  <2>12. CASE WriteTotal(t)
    BY <2>12 DEF WriteTotal
  <2> QED
    BY <1>7, <2>1, <2>2, <2>3, <2>4, <2>5, <2>6, <2>7, <2>8, <2>9, <2>10, <2>11, <2>12 DEF Worker
<1>8. ASSUME NEW t \in Threads, Progress(t)
      PROVE  TypeOK' /\ Phases'
  BY <1>8, Numbers DEF Progress, TypeOK, Phases, Live
<1>9. ASSUME NEW t \in Threads, WorkerFails(t)
      PROVE  TypeOK' /\ Phases'
  BY <1>9 DEF WorkerFails, TypeOK, Phases, Live, Idle
<1> QED
  BY <1>1, <1>2, <1>3, <1>4, <1>5, <1>6, <1>7, <1>8, <1>9 DEF Next, Main, Over

\* Every variable stays in its type, whatever the number of threads and chunks
\* and wherever a thread fails: no chunk reaches beyond the n43 table.
THEOREM TypeCorrect == Spec => []TypeOK
<1>1. Spec => [](TypeOK /\ Phases)
  BY InitTyped, NextTyped, PTL DEF Spec
<1> QED
  BY <1>1, PTL

\* The tables of the next SHIFT are not built while a thread sieves with the
\* old ones, however many threads there are: join waits for every one.
THEOREM StableTables == Spec => []TablesStable
<1>1. Spec => [](TypeOK /\ Phases)
  BY InitTyped, NextTyped, PTL DEF Spec
<1>2. TypeOK /\ Phases => TablesStable
  BY DEF TypeOK, Phases, TablesStable, Idle
<1> QED
  BY <1>1, <1>2, PTL
-----------------------------------------------------------------------------
\* lock1 keeps a second thread out from the read to the write of current_n43.
LEMMA MutexStep == TypeOK /\ Phases /\ Mutex1 /\ [Next]_vars => Mutex1'
<1> SUFFICES ASSUME TypeOK, Phases, Mutex1, [Next]_vars PROVE Mutex1'
  OBVIOUS
<1> USE DEF vars, main, locks, totals, chunk, local, output, Mutex1, Taking
<1>1. CASE Create
  <2>1. \A t \in Threads : pc'[t] \in Taking => pc[t] \in Taking
    BY <1>1 DEF Create, TypeOK
  <2> QED
    BY <1>1, <2>1 DEF Create
<1>2. CASE UNCHANGED <<pc, lock1>>
  BY <1>2
<1>3. ASSUME NEW t \in Threads, Worker(t)
      PROVE  Mutex1'
  <2> USE DEF Go, TypeOK
  <2>1. CASE Lock1(t)
    BY <2>1, Numbers DEF Lock1
  <2>2. CASE ReadN43(t)
    BY <2>2 DEF ReadN43
  <2>3. CASE WriteN43(t)
    <3>1. \A u \in Threads : pc'[u] \notin Taking
      BY <2>3 DEF WriteN43
    <3> QED
      BY <3>1
  <2>4. ASSUME NEW ap \in AP, Hit(t, ap) PROVE Mutex1'
    BY <2>4 DEF Hit
  <2>5. CASE Lock2(t)
    BY <2>5 DEF Lock2
  <2>6. CASE CheckFile(t)
    BY <2>6 DEF CheckFile
  <2>7. CASE OpenFile(t)
    BY <2>7 DEF OpenFile
  <2>8. CASE WriteLine(t)
    BY <2>8 DEF WriteLine
  <2>9. CASE NextIndex(t)
    BY <2>9 DEF NextIndex
  <2>10. CASE Lock3(t)
    BY <2>10 DEF Lock3
  <2>11. CASE ReadTotal(t)
    BY <2>11 DEF ReadTotal
  <2>12. CASE WriteTotal(t)
    BY <2>12 DEF WriteTotal
  <2> QED
    BY <1>3, <2>1, <2>2, <2>3, <2>4, <2>5, <2>6, <2>7, <2>8, <2>9, <2>10, <2>11, <2>12 DEF Worker
<1> QED
  BY <1>1, <1>2, <1>3 DEF Next, Main, Over, MakeTables, Join, Return, MainFails, Progress, WorkerFails

\* A step that takes and finishes nothing keeps the chunks as they are.
LEMMA ChunksKept ==
  ASSUME TypeOK, Chunks, UNCHANGED <<current_n43, start, stop>>,
         \A t \in Threads : pc'[t] = "write_n43" => pc[t] = "write_n43",
         \A t \in Threads : pc'[t] \in Searching => pc[t] \in Searching,
         \A t \in Threads : Started(t)' /\ pc'[t] \in Leaving
                            => Started(t) /\ pc[t] \in Leaving
  PROVE  Chunks'
BY DEF Chunks

\* What ReadN43 has prepared is the next piece of the table.
LEMMA NextChunk ==
  ASSUME TypeOK, Phases, Mutex1, Chunks, NEW t \in Threads, pc[t] = "write_n43"
  PROVE  /\ start[t] = current_n43 /\ current_n43 <= stop[t] /\ stop[t] <= numn43s
         /\ start[t] < numn43s => start[t] < stop[t]
         /\ start[t] >= numn43s => stop[t] = numn43s
         /\ stop[t] \in Nat /\ current_n43 \in Nat /\ start[t] \in Nat
         /\ \A u \in Threads : u # t => pc[u] # "write_n43"
<1>1. \A u \in Threads : u # t => pc[u] # "write_n43"
  BY DEF Mutex1, Taking
<1> QED
  BY <1>1, Numbers DEF Chunks, TypeOK, Lesser

LEMMA ChunksStep == TypeOK /\ Phases /\ Mutex1 /\ Chunks /\ [Next]_vars => Chunks'
<1> SUFFICES ASSUME TypeOK, Phases, Mutex1, Chunks, [Next]_vars PROVE Chunks'
  OBVIOUS
<1> USE DEF vars, main, locks, totals, chunk, local, output
<1>1. CASE MakeTables
  <2>1. \A t \in Threads : pc'[t] \in Idle /\ ~Started(t)'
    BY <1>1, Numbers DEF MakeTables, Phases, Started
  <2> QED
    BY <2>1 DEF Chunks, Idle, Searching
<1>2. CASE Create
  <2>1. \A t \in Threads : t # k => pc'[t] = pc[t]
    BY <1>2 DEF Create, TypeOK
  <2>2. k \in Threads /\ pc'[k] = "lock1"
    BY <1>2, Numbers DEF Create, TypeOK, Phases, Threads
  <2>3. ASSUME NEW t \in Threads, t # k, Started(t)' PROVE Started(t)
    BY <1>2, <2>2, <2>3, Numbers DEF Create, Started, Threads
  <2> QED
    BY <1>2, <2>1, <2>2, <2>3, ChunksKept DEF Create, Searching, Leaving
<1>3. CASE UNCHANGED <<pc, current_n43, start, stop>> /\ ((mpc' = mpc /\ k' = k) \/ mpc' # "create")
           /\ (mpc' = "join" => mpc = "join")
  BY <1>3, ChunksKept DEF Started
<1>4. ASSUME NEW t \in Threads, Worker(t)
      PROVE  Chunks'
  <2> USE DEF Go
  <2>0. \A u \in Threads : Started(u)' <=> Started(u)
    BY <1>4 DEF Started, Worker, Lock1, ReadN43, WriteN43, Hit, Lock2, CheckFile, OpenFile,
         WriteLine, NextIndex, Lock3, ReadTotal, WriteTotal
  <2>1. CASE WriteN43(t)
    <3>1. \A u \in Threads : u # t => pc'[u] = pc[u] /\ pc[u] # "write_n43"
      BY <2>1, NextChunk DEF WriteN43, TypeOK
    <3>2. /\ pc[t] = "write_n43" /\ UNCHANGED <<start, stop>> /\ current_n43' = stop[t]
          /\ start[t] < numn43s => pc'[t] = "search"
          /\ ~(start[t] < numn43s) => pc'[t] = "lock3"
      BY <2>1 DEF WriteN43, TypeOK
    <3>3. /\ start[t] = current_n43 /\ current_n43 <= stop[t] /\ stop[t] <= numn43s
          /\ start[t] < numn43s => start[t] < stop[t]
          /\ start[t] >= numn43s => stop[t] = numn43s
          /\ stop[t] \in Nat /\ current_n43 \in Nat /\ start[t] \in Nat
      BY <3>2, NextChunk
    <3>4. \A u \in Threads : pc'[u] # "write_n43"
      BY <3>1, <3>2
    <3>5. \A u \in Threads : pc'[u] \in Searching => stop'[u] <= current_n43' /\ start'[u] < stop'[u]
      <4> TAKE u \in Threads
      <4>1. CASE u = t
        BY <4>1, <3>2, <3>3, Numbers DEF Searching
      <4>2. CASE u # t
        BY <4>2, <3>1, <3>2, <3>3 DEF Chunks, TypeOK
      <4> QED
        BY <4>1, <4>2
    <3>6. \A u, v \in Threads : u # v /\ pc'[u] \in Searching /\ pc'[v] \in Searching =>
             stop'[u] <= start'[v] \/ stop'[v] <= start'[u]
      BY <3>1, <3>2, <3>3 DEF Chunks, TypeOK
    <3>7. \A u \in Threads : Started(u)' /\ pc'[u] \in Leaving => current_n43' = numn43s
      <4> TAKE u \in Threads
      <4> HAVE Started(u)' /\ pc'[u] \in Leaving
      <4>1. CASE u = t
        BY <4>1, <3>2, <3>3, Numbers DEF Leaving
      <4>2. CASE u # t
        BY <4>2, <2>0, <3>1, <3>2, <3>3, Numbers DEF Chunks
      <4> QED
        BY <4>1, <4>2
    <3> QED
      BY <3>4, <3>5, <3>6, <3>7 DEF Chunks
  <2>2. CASE ReadN43(t)
    <3>1. \A u \in Threads : u # t => pc'[u] = pc[u] /\ start'[u] = start[u] /\ stop'[u] = stop[u]
      BY <2>2 DEF ReadN43, TypeOK
    <3>2. /\ pc'[t] = "write_n43" /\ start'[t] = current_n43 /\ current_n43' = current_n43
          /\ stop'[t] = Lesser(current_n43 + thread_range, numn43s)
      BY <2>2 DEF ReadN43, TypeOK
    <3> QED
      BY <2>0, <3>1, <3>2 DEF Chunks, Searching, Leaving
  <2>3. CASE NextIndex(t)
    <3>1. \A u \in Threads : u # t => pc'[u] = pc[u] /\ start'[u] = start[u]
      BY <2>3 DEF NextIndex, TypeOK
    <3>2. /\ start'[t] = start[t] + 1 /\ UNCHANGED <<stop, current_n43>>
          /\ pc[t] = "search" /\ pc'[t] \in {"search", "lock1"}
          /\ pc'[t] = "search" => start[t] + 1 < stop[t]
          /\ start[t] \in Nat /\ stop[t] \in Nat
      BY <2>3, Numbers DEF NextIndex, TypeOK
    <3>3. \A u \in Threads : pc'[u] \in Searching => pc[u] \in Searching /\ start'[u] < stop'[u]
                              /\ start[u] <= start'[u]
      BY <3>1, <3>2, Numbers DEF Searching, Chunks, TypeOK
    <3>4. \A u, v \in Threads : u # v /\ pc'[u] \in Searching /\ pc'[v] \in Searching =>
             stop'[u] <= start'[v] \/ stop'[v] <= start'[u]
      BY <3>1, <3>2, <3>3, Numbers DEF Chunks, TypeOK
    <3>5. \A u \in Threads : u # t => (pc'[u] \in Leaving => pc[u] \in Leaving)
      BY <3>1
    <3> QED
      BY <2>0, <3>1, <3>2, <3>3, <3>4, <3>5 DEF Chunks, Leaving
  <2>4. ASSUME UNCHANGED <<current_n43, start, stop>>,
               \A u \in Threads : u # t => pc'[u] = pc[u],
               pc'[t] # "write_n43",
               pc'[t] \in Searching => pc[t] \in Searching,
               pc'[t] \in Leaving => pc[t] \in Leaving
        PROVE  Chunks'
    BY <2>0, <2>4, ChunksKept
  <2>5. CASE ~(WriteN43(t) \/ ReadN43(t) \/ NextIndex(t))
    <3>1. UNCHANGED <<current_n43, start, stop>> /\ \A u \in Threads : u # t => pc'[u] = pc[u]
      BY <1>4, <2>5 DEF Worker, Lock1, Hit, Lock2, CheckFile, OpenFile,
           WriteLine, Lock3, ReadTotal, WriteTotal, TypeOK
    <3>2. /\ pc'[t] # "write_n43"
          /\ pc'[t] \in Searching => pc[t] \in Searching
          /\ pc'[t] \in Leaving => pc[t] \in Leaving
      BY <1>4, <2>5, ZenonT(30) DEF Worker, Lock1, Hit, Lock2, CheckFile, OpenFile,
           WriteLine, Lock3, ReadTotal, WriteTotal, TypeOK, Searching, Leaving
    <3> QED
      BY <3>1, <3>2, <2>4
  <2> QED
    BY <2>1, <2>2, <2>3, <2>5
<1> QED
  BY <1>1, <1>2, <1>3, <1>4 DEF Next, Main, Over, Join, Return, MainFails, Progress, WorkerFails
-----------------------------------------------------------------------------
\* What is searched and what is being searched determine Accounts.
LEMMA AccountsKept ==
  ASSUME TypeOK, Accounts, UNCHANGED <<searched, iteration, current_n43>>,
         mpc' \in {"create", "join", "exited"}, mpc \in {"create", "join", "exited"},
         \A i \in Indices : Held(i)' <=> Held(i)
  PROVE  Accounts'
BY DEF Accounts

LEMMA HeldKept ==
  ASSUME TypeOK, UNCHANGED <<start, stop>>,
         \A t \in Threads : pc'[t] \in Searching <=> pc[t] \in Searching
  PROVE  \A i \in Indices : Held(i)' <=> Held(i)
BY DEF Held

LEMMA AccountsStep ==
  TypeOK /\ Phases /\ Mutex1 /\ Chunks /\ Accounts /\ [Next]_vars => Accounts'
<1> SUFFICES ASSUME TypeOK, Phases, Mutex1, Chunks, Accounts, [Next]_vars PROVE Accounts'
  OBVIOUS
<1> USE DEF vars, main, locks, totals, chunk, local, output
<1>1. CASE MakeTables
  <2>1. \A i \in Indices : ~Held(i)'
    BY <1>1 DEF MakeTables, Phases, Idle, Held, Searching
  <2>2. iteration \in Iterations /\ current_n43' = 0 /\ UNCHANGED <<searched, iteration>>
    BY <1>1, Numbers DEF MakeTables, TypeOK, Iterations
  <2>3. \A i \in Indices : searched[<<iteration, i>>] = 0 /\ ~(i < 0)
    BY <1>1, <2>2, Numbers DEF MakeTables, Accounts, Indices
  <2> QED
    BY <1>1, <2>1, <2>2, <2>3 DEF MakeTables, Accounts
<1>2. CASE Create
  <2>1. k \in Threads
    BY <1>2, Numbers DEF Create, TypeOK, Phases, Threads
  <2>2. pc[k] \notin Searching /\ pc'[k] \notin Searching /\ \A t \in Threads : t # k => pc'[t] = pc[t]
    BY <1>2, <2>1, Numbers DEF Create, TypeOK, Phases, Idle, Searching
  <2>3. \A i \in Indices : Held(i)' <=> Held(i)
    BY <1>2, <2>2, HeldKept DEF Create
  <2> QED
    BY <1>2, <2>3, AccountsKept DEF Create
<1>3. CASE Join
  <2>1. CASE k + 1 = NThreads
    <3>1. \A t \in Threads : pc[t] = "exited"
      <4>1. mpc = "join" /\ pc[k] = "exited" /\ k \in Nat
        BY <1>3, Numbers DEF Join, TypeOK
      <4>2. \A t \in Threads : t = k \/ t < k
        BY <2>1, <4>1, Numbers DEF Threads
      <4> QED
        BY <4>1, <4>2 DEF Phases
    <3>2. \A i \in Indices : ~Held(i)
      BY <3>1 DEF Held, Searching
    <3>3. current_n43 = numn43s
      BY <1>3, <3>1, Numbers DEF Join, Chunks, Started, Leaving
    <3>4. \A i \in Indices : searched[<<iteration, i>>] = 1
      BY <1>3, <3>2, <3>3, Numbers DEF Join, Accounts, Indices
    <3>5. iteration' = iteration + 1 /\ mpc' = "tables" /\ searched' = searched /\ iteration \in Nat
      BY <1>3, <2>1, Numbers DEF Join, TypeOK
    <3>6. \A x \in Iterations \X Indices : x = <<x[1], x[2]>> /\ x[1] \in Nat /\ x[2] \in Indices
      BY Numbers DEF Iterations
    <3>7. \A x \in Iterations \X Indices : x[1] < iteration + 1 => searched[x] = 1
      BY <3>4, <3>5, <3>6 DEF Accounts
    <3>8. \A x \in Iterations \X Indices : x[1] >= iteration + 1 => searched[x] = 0
      BY <3>5, <3>6 DEF Accounts
    <3> QED
      BY <3>5, <3>6, <3>7, <3>8 DEF Accounts
  <2>2. CASE k + 1 # NThreads
    BY <1>3, <2>2, HeldKept, AccountsKept DEF Join
  <2> QED
    BY <2>1, <2>2
<1>4. CASE Return
  BY <1>4 DEF Return, Accounts
<1>5. CASE UNCHANGED <<searched, iteration, current_n43, pc, start, stop>>
           /\ (mpc' = mpc \/ (mpc' = "exited" /\ mpc \in {"create", "join"}))
  BY <1>5, HeldKept, AccountsKept DEF Accounts, Held
<1>6. ASSUME NEW t \in Threads, Worker(t)
      PROVE  Accounts'
  <2> USE DEF Go
  <2>1. /\ UNCHANGED <<mpc, iteration>> /\ mpc \in {"create", "join", "exited"}
        /\ pc[t] \notin Idle /\ \A u \in Threads : u # t => pc'[u] = pc[u]
    BY <1>6 DEF Worker, Lock1, ReadN43, WriteN43, Hit, Lock2, CheckFile, OpenFile, WriteLine,
         NextIndex, Lock3, ReadTotal, WriteTotal, Phases, Idle, TypeOK
  <2>2. CASE WriteN43(t)
    <3>1. \A i \in Indices : i \in Nat /\ i < numn43s
      BY Numbers DEF Indices
    <3>2. /\ pc[t] = "write_n43" /\ UNCHANGED <<start, stop, searched>> /\ current_n43' = stop[t]
          /\ start[t] < numn43s => pc'[t] = "search"
          /\ ~(start[t] < numn43s) => pc'[t] = "lock3"
      BY <2>2 DEF WriteN43, TypeOK
    <3>3. /\ start[t] = current_n43 /\ current_n43 <= stop[t]
          /\ stop[t] \in Nat /\ current_n43 \in Nat
      BY <3>2, NextChunk
    <3>4. \A i \in Indices : Held(i) => i < current_n43
      BY <3>1, <3>3, Numbers DEF Held, Chunks, TypeOK
    <3>5. \A i \in Indices : Held(i)' <=> Held(i) \/ (pc'[t] = "search" /\ start[t] <= i /\ i < stop[t])
      <4>1. "write_n43" \notin Searching /\ "lock3" \notin Searching /\ "search" \in Searching
        BY DEF Searching
      <4>2. pc'[t] \in Searching <=> pc'[t] = "search"
        BY <3>2, <4>1
      <4> QED
        BY <2>1, <3>2, <4>1, <4>2 DEF Held
    <3>6. \A i \in Indices : (i < current_n43' /\ ~Held(i)') <=> (i < current_n43 /\ ~Held(i))
      <4> TAKE i \in Indices
      <4>1. CASE i < current_n43
        BY <3>1, <3>2, <3>3, <3>5, <4>1
      <4>2. CASE ~(i < current_n43)
        BY <3>1, <3>2, <3>3, <3>5, <4>2, Numbers
      <4> QED
        BY <4>1, <4>2
    <3> QED
      BY <2>1, <3>2, <3>6 DEF Accounts
  <2>3. CASE NextIndex(t)
    <3>1. /\ start' = [start EXCEPT ![t] = start[t] + 1] /\ UNCHANGED <<stop, current_n43>>
          /\ pc[t] = "search" /\ start[t] < stop[t]
          /\ pc'[t] = IF start[t] + 1 < stop[t] THEN "search" ELSE "lock1"
          /\ searched' = [searched EXCEPT ![<<tables, start[t]>>] = searched[<<tables, start[t]>>] + 1]
      BY <2>3 DEF NextIndex, TypeOK
    <3>2. /\ \A i \in Indices : i \in Nat /\ i < numn43s
          /\ \A u \in Threads : start[u] \in Nat /\ stop[u] \in Nat /\ stop[u] <= numn43s
          /\ current_n43 \in Nat
      BY Numbers DEF Indices, TypeOK
    <3>3. tables = iteration /\ iteration \in Iterations /\ start[t] \in Indices /\ start[t] < current_n43
      BY <2>1, <3>1, <3>2, Numbers DEF Phases, TypeOK, Chunks, Searching, Indices, Iterations
    <3>4. Held(start[t])
      BY <3>1, <3>2 DEF Held, Searching
    <3>5. ASSUME NEW i \in Indices, i = start[t] PROVE ~Held(i)'
      <4> SUFFICES ASSUME NEW u \in Threads, pc'[u] \in Searching,
                          start'[u] <= i, i < stop'[u]
                   PROVE  FALSE
        BY DEF Held
      <4>1. CASE u = t
        BY <3>1, <3>2, <3>5, <4>1 DEF TypeOK
      <4>2. CASE u # t
        BY <2>1, <3>1, <3>2, <3>5, <4>2 DEF TypeOK, Chunks, Searching
      <4> QED
        BY <4>1, <4>2
    <3>6. ASSUME NEW i \in Indices, i # start[t]
          PROVE  Held(i)' <=> Held(i)
      <4>1. \A u \in Threads : u # t =>
              ((pc'[u] \in Searching /\ start'[u] <= i /\ i < stop'[u])
                 <=> (pc[u] \in Searching /\ start[u] <= i /\ i < stop[u]))
        BY <2>1, <3>1 DEF TypeOK
      <4>2. (pc'[t] \in Searching /\ start'[t] <= i /\ i < stop'[t])
                 <=> (pc[t] \in Searching /\ start[t] <= i /\ i < stop[t])
        <5>1. start'[t] = start[t] + 1 /\ stop'[t] = stop[t] /\ "search" \in Searching /\ "lock1" \notin Searching
          BY <3>1 DEF TypeOK, Searching
        <5>2. start[t] + 1 <= i <=> start[t] <= i
          BY <3>2, <3>6
        <5>3. start[t] + 1 <= i /\ i < stop[t] => start[t] + 1 < stop[t]
          BY <3>2
        <5> QED
          BY <3>1, <5>1, <5>2, <5>3
      <4> QED
        BY <4>1, <4>2 DEF Held
    <3>7. <<iteration, start[t]>> \in Iterations \X Indices /\ searched[<<iteration, start[t]>>] = 0
      BY <2>1, <3>3, <3>4 DEF Accounts
    <3>8. \A x \in Iterations \X Indices : x[1] # iteration => searched'[x] = searched[x]
      BY <3>1, <3>3
    <3>9. \A i \in Indices : searched'[<<iteration, i>>] = IF i < current_n43 /\ ~Held(i)' THEN 1 ELSE 0
      <4> TAKE i \in Indices
      <4>1. CASE i = start[t]
        BY <3>1, <3>3, <3>5, <3>7, <4>1 DEF TypeOK
      <4>2. CASE i # start[t]
        <5>1. searched'[<<iteration, i>>] = searched[<<iteration, i>>]
          BY <3>1, <3>3, <4>2 DEF TypeOK
        <5> QED
          BY <2>1, <3>6, <4>2, <5>1 DEF Accounts
      <4> QED
        BY <4>1, <4>2
    <3>10. iteration \in Nat /\ \A x \in Iterations \X Indices : x[1] \in Nat
      BY <3>3, Numbers DEF Iterations
    <3>11. \A x \in Iterations \X Indices : /\ x[1] < iteration => searched'[x] = 1
                                            /\ x[1] > iteration => searched'[x] = 0
      BY <3>8, <3>10 DEF Accounts
    <3>12. UNCHANGED <<mpc, iteration, current_n43>> /\ mpc \notin {"tables", "returned"}
      BY <2>1, <3>1
    <3> QED
      BY <3>9, <3>11, <3>12 DEF Accounts
  <2>4. CASE ~(WriteN43(t) \/ NextIndex(t))
    <3>1. /\ UNCHANGED <<searched, current_n43>>
          /\ pc'[t] \in Searching <=> pc[t] \in Searching
          /\ \/ UNCHANGED <<start, stop>>
             \/ pc[t] \notin Searching /\ \A u \in Threads : u # t => start'[u] = start[u] /\ stop'[u] = stop[u]
      BY <1>6, <2>4 DEF Worker, Lock1, ReadN43, Hit, Lock2, CheckFile, OpenFile, WriteLine,
           Lock3, ReadTotal, WriteTotal, TypeOK, Searching
    <3>2. \A i \in Indices : Held(i)' <=> Held(i)
      BY <2>1, <3>1 DEF Held
    <3> QED
      BY <2>1, <3>1, <3>2, AccountsKept
  <2> QED
    BY <2>2, <2>3, <2>4
<1>7. ASSUME NEW t \in Threads, Progress(t) PROVE Accounts'
  BY <1>5, <1>7 DEF Progress
<1>8. ASSUME NEW t \in Threads, WorkerFails(t) PROVE Accounts'
  <2>1. mpc \in {"create", "join"}
    BY <1>8 DEF WorkerFails, Phases, TypeOK, Live, Idle
  <2> QED
    BY <1>5, <1>8, <2>1 DEF WorkerFails
<1> QED
  BY <1>1, <1>2, <1>3, <1>4, <1>5, <1>6, <1>7, <1>8 DEF Next, Main, Over, MainFails

LEMMA InitAccounts == Init => Mutex1 /\ Chunks /\ Accounts
<1> SUFFICES ASSUME Init PROVE Mutex1 /\ Chunks /\ Accounts
  OBVIOUS
<1>1. Mutex1 /\ Chunks
  BY DEF Init, Mutex1, Chunks, Taking, Searching, Leaving
<1>2. Accounts
  BY Numbers DEF Init, Accounts, Iterations
<1> QED
  BY <1>1, <1>2

\* The whole invariant of the division of the table among the threads.
Order == TypeOK /\ Phases /\ Mutex1 /\ Chunks /\ Accounts

LEMMA OrderHolds == Spec => []Order
<1>1. Init => Order
  BY InitTyped, InitAccounts DEF Order
<1>2. Order /\ [Next]_vars => Order'
  BY NextTyped, MutexStep, ChunksStep, AccountsStep DEF Order
<1> QED
  BY <1>1, <1>2, PTL DEF Spec

\* No index of the n43 table is searched twice in an iteration and none is left
\* out when the threads are joined, for any number of threads, any size of the
\* table and of a chunk, and any schedule of the steps between the locks.
THEOREM IndexOnce == Spec => []EachIndexOnce
<1>1. Order => EachIndexOnce
  <2> SUFFICES ASSUME Order PROVE EachIndexOnce
    OBVIOUS
  <2> USE DEF Order
  <2>1. ASSUME NEW x \in Iterations \X Indices PROVE searched[x] <= 1
    <3>1. x[1] \in Nat /\ iteration \in Nat /\ x = <<x[1], x[2]>> /\ x[2] \in Indices
      BY Numbers DEF TypeOK, Iterations
    <3>2. CASE x[1] = iteration
      BY <3>1, <3>2 DEF Accounts, TypeOK
    <3>3. CASE x[1] # iteration
      BY <3>1, <3>3 DEF Accounts
    <3> QED
      BY <3>2, <3>3
  <2> QED
    BY <2>1 DEF EachIndexOnce, Accounts
<1> QED
  BY <1>1, OrderHolds, PTL
-----------------------------------------------------------------------------
\* What has been reported lies behind thread 0 and behind current_n43.
Clock ==
  /\ mpc \in {"tables", "returned"} => progress <= iteration * numn43s
  /\ mpc \in {"create", "join"} => progress <= iteration * numn43s + current_n43
  /\ mpc \in {"create", "join"} /\ pc[0] \in Searching \cup {"write_n43"} =>
       progress <= iteration * numn43s + start[0]

LEMMA ClockStep == Order /\ Order' /\ Clock /\ [Next]_vars => Clock' /\ progress' >= progress
<1> SUFFICES ASSUME Order, Order', Clock, [Next]_vars PROVE Clock' /\ progress' >= progress
  OBVIOUS
<1> USE DEF vars, main, locks, totals, chunk, local, output, Searching
<1>0. /\ TypeOK /\ Phases /\ progress \in Nat /\ iteration \in Nat /\ current_n43 \in Nat
      /\ current_n43 <= numn43s /\ iteration * numn43s \in Nat
      /\ (iteration + 1) * numn43s = iteration * numn43s + numn43s
      /\ start[0] \in Nat /\ stop[0] \in Nat /\ 0 \in Threads
  BY Numbers DEF Order, TypeOK
<1>1. CASE MakeTables
  BY <1>0, <1>1 DEF MakeTables, Clock, Phases, Idle
<1>2. CASE Create
  <2>1. pc'[0] = pc[0] \/ pc'[0] = "lock1"
    BY <1>0, <1>2 DEF Create, TypeOK
  <2> QED
    BY <1>0, <1>2, <2>1 DEF Create, Clock
<1>3. CASE Join
  BY <1>0, <1>3, Numbers DEF Join, Clock
<1>4. CASE Return
  BY <1>0, <1>4 DEF Return, Clock
<1>5. CASE /\ UNCHANGED <<iteration, current_n43, pc, start, progress>>
           /\ mpc' = mpc \/ mpc' = "exited"
  BY <1>0, <1>5 DEF Clock
<1>6. ASSUME NEW t \in Threads, Progress(t) PROVE Clock' /\ progress' >= progress
  <2>1. mpc \in {"create", "join"} /\ start[0] < stop[0] /\ stop[0] <= current_n43
    BY <1>0, <1>6 DEF Progress, Live, Phases, Idle, TypeOK, Order, Chunks
  <2>2. progress' = iteration * numn43s + start[0] /\ pc[0] = "search"
        /\ UNCHANGED <<mpc, iteration, current_n43, pc, start>>
    BY <1>6 DEF Progress
  <2> QED
    BY <1>0, <2>1, <2>2 DEF Clock
<1>7. ASSUME NEW t \in Threads, WorkerFails(t) PROVE Clock' /\ progress' >= progress
  BY <1>5, <1>7 DEF WorkerFails
<1>8. ASSUME NEW t \in Threads, Worker(t) PROVE Clock' /\ progress' >= progress
  <2> USE DEF Go
  <2>0. UNCHANGED <<mpc, iteration, progress>> /\ mpc \in {"create", "join"}
    BY <1>0, <1>8 DEF Worker, Lock1, ReadN43, WriteN43, Hit, Lock2, CheckFile, OpenFile, WriteLine,
         NextIndex, Lock3, ReadTotal, WriteTotal, Live, Phases, Idle, TypeOK
  <2>1. CASE ReadN43(t)
    BY <1>0, <2>0, <2>1 DEF ReadN43, Clock, TypeOK
  <2>2. CASE WriteN43(t)
    <3>1. current_n43' = stop[t] /\ current_n43 <= stop[t] /\ stop[t] \in Nat /\ pc[t] = "write_n43"
          /\ start' = start
      BY <1>0, <2>2, NextChunk DEF WriteN43, Order
    <3>2. pc'[0] \in Searching => pc[0] \in Searching \cup {"write_n43"}
      BY <1>0, <2>2 DEF WriteN43, TypeOK
    <3>3. pc'[0] = "write_n43" => pc[0] = "write_n43"
      BY <1>0, <2>2 DEF WriteN43, TypeOK
    <3> QED
      BY <1>0, <2>0, <3>1, <3>2, <3>3 DEF Clock
  <2>3. CASE NextIndex(t)
    <3>1. start'[0] >= start[0] /\ start'[0] \in Nat /\ current_n43' = current_n43
      BY <1>0, <2>3 DEF NextIndex, TypeOK
    <3>2. pc'[0] \in Searching \cup {"write_n43"} => pc[0] \in Searching \cup {"write_n43"}
      BY <1>0, <2>3 DEF NextIndex, TypeOK
    <3> QED
      BY <1>0, <2>0, <3>1, <3>2 DEF Clock
  <2>4. CASE ~(ReadN43(t) \/ WriteN43(t) \/ NextIndex(t))
    <3>1. UNCHANGED <<start, current_n43>>
      BY <1>8, <2>4 DEF Worker, Lock1, Hit, Lock2, CheckFile, OpenFile, WriteLine, Lock3,
           ReadTotal, WriteTotal
    <3>2. pc'[0] \in Searching \cup {"write_n43"} => pc[0] \in Searching \cup {"write_n43"}
      BY <1>0, <1>8, <2>4 DEF Worker, Lock1, Hit, Lock2, CheckFile, OpenFile, WriteLine, Lock3,
           ReadTotal, WriteTotal, TypeOK
    <3> QED
      BY <1>0, <2>0, <3>1, <3>2 DEF Clock
  <2> QED
    BY <2>1, <2>2, <2>3, <2>4
<1> QED
  BY <1>1, <1>2, <1>3, <1>4, <1>5, <1>6, <1>7, <1>8 DEF Next, Main, Over, MainFails

\* What thread 0 tells BOINC never goes back: not at a new chunk, which another
\* thread's may have preceded, and not at a new iteration.
THEOREM ProgressForward == Spec => ProgressMonotone
<1>1. Init => Clock
  BY Numbers DEF Init, Clock
<1>2. Order /\ Order' /\ Clock /\ [Next]_vars => Clock' /\ [progress' >= progress]_vars
  BY ClockStep
<1> QED
  BY <1>1, <1>2, OrderHolds, PTL DEF Spec, ProgressMonotone

-----------------------------------------------------------------------------
Reporting == {"lock2", "check_file", "open_file", "write_line"}
Merging   == {"read_total", "write_total"}

\* A thread's hits are of the index it is at, its line is one of them.
Hits ==
  /\ \A t \in Threads : pc[t] \notin Searching => hits[t] = {}
  /\ \A t \in Threads : pc[t] \in Searching => hits[t] \subseteq At(tables, start[t])
  /\ \A t \in Threads : pc[t] \in Reporting => line[t] \subseteq hits[t]
  /\ \A t \in Threads : pc[t] \notin Reporting => line[t] = {}

HitAt(t, ap) == pc[t] \in Searching /\ ap \in hits[t]

\* The progression has been reported to the thread that searched its index.
Found(ap) ==
  \/ Where[ap][1] < iteration
  \/ /\ mpc \in {"create", "join", "exited"} /\ Where[ap][1] = iteration
     /\ searched[Where[ap]] = 1 \/ \E t \in Threads : HitAt(t, ap)

Mutex2 == \A t \in Threads : pc[t] \in {"check_file", "open_file", "write_line"} => lock2 = t
Mutex3 == \A t \in Threads : pc[t] \in Merging => lock3 = t

\* One FILE: it is opened when results_file is NULL, and only then.
OneFile ==
  /\ opens = IF results_file = "NULL" THEN 0 ELSE 1
  /\ \A t \in Threads : pc[t] = "open_file" => results_file = "NULL"

Pending(ap) == \E t \in Threads : ap \in line[t]

Lines == \A ap \in AP : lines[ap] = IF ap \in Long /\ Found(ap) /\ ~Pending(ap) THEN 1 ELSE 0

\* share[t] is what thread t has found and not merged, merged what the totals hold.
Shares(share, merged) ==
  /\ share \in [Threads -> SUBSET AP] /\ merged \in SUBSET AP
  /\ \A t \in Threads : share[t] \cap merged = {}
  /\ \A t, u \in Threads : t # u => share[t] \cap share[u] = {}
  /\ \A ap \in AP : Found(ap) <=> ap \in merged \/ \E t \in Threads : ap \in share[t]
  /\ \A t \in Threads : pc[t] \in Idle => share[t] = {}
  /\ \A t \in Threads : pc[t] \notin Idle =>
       checksum[t] = Canon(Mass[share[t]]) /\ apcount[t] = Cardinality(share[t])
  /\ cksum = Canon(Before + Mass[merged]) /\ totalaps = Cardinality(merged)
  /\ \A t \in Threads : pc[t] = "write_total" => total[t] = AddMod(cksum, checksum[t])

Result ==
  /\ Hits /\ Mutex2 /\ Mutex3 /\ OneFile /\ Lines
  /\ \E share \in [Threads -> SUBSET AP], merged \in SUBSET AP : Shares(share, merged)

-----------------------------------------------------------------------------
\* Two threads never search the same index.
LEMMA Apart ==
  ASSUME Order, NEW t \in Threads, NEW u \in Threads, t # u,
         pc[t] \in Searching, pc[u] \in Searching
  PROVE  start[t] # start[u]
<1>1. /\ start[t] \in Nat /\ start[u] \in Nat /\ stop[t] \in Nat /\ stop[u] \in Nat
  BY Numbers DEF Order, TypeOK
<1>2. start[t] < stop[t] /\ start[u] < stop[u] /\ (stop[t] <= start[u] \/ stop[u] <= start[t])
  BY DEF Order, Chunks
<1> QED
  BY <1>1, <1>2

LEMMA WhereType ==
  ASSUME NEW ap \in AP
  PROVE  /\ Where[ap] \in Iterations \X Indices /\ Where[ap] = <<Where[ap][1], Where[ap][2]>>
         /\ Where[ap][1] \in Nat /\ Where[ap][1] < NIterations /\ Where[ap][2] \in Indices
<1>1. Where[ap] \in Iterations \X Indices
  BY WorkPoolAssumption
<1> QED
  BY <1>1, Numbers DEF Iterations

\* While a thread searches, the tables are those of this iteration and the index
\* it is at is not searched yet.
LEMMA AtWork ==
  ASSUME Order, NEW t \in Threads, pc[t] \in Searching
  PROVE  /\ tables = iteration /\ mpc \in {"create", "join", "exited"}
         /\ start[t] \in Indices /\ iteration \in Iterations
         /\ searched[<<iteration, start[t]>>] = 0
<1> USE DEF Order
<1>1. mpc \in {"create", "join", "exited"}
  BY DEF Phases, TypeOK, Searching, Idle
<1>2. start[t] < stop[t] /\ stop[t] <= numn43s /\ start[t] \in Nat /\ stop[t] \in Nat
  BY Numbers DEF Chunks, TypeOK
<1>3. start[t] \in Indices
  BY <1>2, Numbers DEF Indices
<1>4. Held(start[t])
  BY <1>2 DEF Held
<1>5. tables = iteration /\ iteration \in Iterations
  BY <1>1, Numbers DEF Phases, Iterations, TypeOK
<1> QED
  BY <1>1, <1>3, <1>4, <1>5 DEF Accounts

\* What a thread has found and not finished is of its index in this iteration.
LEMMA HitPlace ==
  ASSUME Order, Hits, NEW t \in Threads, NEW ap \in AP, HitAt(t, ap)
  PROVE  Where[ap] = <<iteration, start[t]>>
BY AtWork DEF HitAt, Hits, At

LEMMA HitsStep == Order /\ Hits /\ [Next]_vars => Hits'
<1> SUFFICES ASSUME Order, Hits, [Next]_vars PROVE Hits'
  OBVIOUS
<1> USE DEF vars, main, locks, totals, chunk, local, output
<1>0. TypeOK /\ Phases
  BY DEF Order
<1>1. CASE MakeTables
  <2>1. \A t \in Threads : pc[t] \notin Searching
    BY <1>0, <1>1 DEF MakeTables, Phases, Idle, Searching
  <2> QED
    BY <1>1, <2>1 DEF MakeTables, Hits
<1>2. CASE Create
  <2>1. k \in Threads
    BY <1>0, <1>2, Numbers DEF Create, TypeOK, Phases, Threads
  <2>2. \A t \in Threads : t # k => pc'[t] = pc[t]
    BY <1>0, <1>2, <2>1 DEF Create, TypeOK
  <2>3. pc[k] \in Idle /\ pc'[k] = "lock1"
    BY <1>0, <1>2, <2>1, Numbers DEF Create, TypeOK, Phases
  <2> QED
    BY <1>2, <2>2, <2>3 DEF Create, Hits, Idle, Searching, Reporting
<1>3. CASE UNCHANGED <<pc, hits, line, tables, start>>
  BY <1>3 DEF Hits, At
<1>4. ASSUME NEW t \in Threads, Worker(t) PROVE Hits'
  <2> USE DEF Go, TypeOK
  <2>1. CASE ReadN43(t)
    BY <1>0, <2>1 DEF ReadN43, Hits, Searching, Reporting, At
  <2>2. CASE WriteN43(t)
    BY <1>0, <2>2 DEF WriteN43, Hits, Searching, Reporting, At
  <2>3. ASSUME NEW ap \in AP, Hit(t, ap) PROVE Hits'
    BY <1>0, <2>3 DEF Hit, Hits, Searching, Reporting, At
  <2>4. CASE NextIndex(t)
    BY <1>0, <2>4 DEF NextIndex, Hits, Searching, Reporting, At
  <2>5. CASE WriteLine(t)
    BY <1>0, <2>5 DEF WriteLine, Hits, Searching, Reporting, At
  <2>6. CASE Lock1(t)
    BY <1>0, <2>6 DEF Lock1, Hits, Searching, Reporting, At
  <2>7. CASE Lock2(t)
    BY <1>0, <2>7 DEF Lock2, Hits, Searching, Reporting, At
  <2>8. CASE CheckFile(t)
    BY <1>0, <2>8 DEF CheckFile, Hits, Searching, Reporting, At
  <2>9. CASE OpenFile(t)
    BY <1>0, <2>9 DEF OpenFile, Hits, Searching, Reporting, At
  <2>10. CASE Lock3(t)
    BY <1>0, <2>10 DEF Lock3, Hits, Searching, Reporting, At
  <2>11. CASE ReadTotal(t)
    BY <1>0, <2>11 DEF ReadTotal, Hits, Searching, Reporting, At
  <2>12. CASE WriteTotal(t)
    BY <1>0, <2>12 DEF WriteTotal, Hits, Searching, Reporting, At
  <2> QED
    BY <1>4, <2>1, <2>2, <2>3, <2>4, <2>5, <2>6, <2>7, <2>8, <2>9, <2>10, <2>11, <2>12 DEF Worker
<1> QED
  BY <1>1, <1>2, <1>3, <1>4
     DEF Next, Main, Over, Join, Return, MainFails, Progress, WorkerFails
-----------------------------------------------------------------------------
\* A step that finishes no index and finds nothing changes nothing in Found.
LEMMA FoundKept ==
  ASSUME UNCHANGED <<iteration, searched>>,
         mpc \in {"create", "join", "exited"} <=> mpc' \in {"create", "join", "exited"},
         \A t \in Threads, ap \in AP : HitAt(t, ap)' <=> HitAt(t, ap)
  PROVE  \A ap \in AP : Found(ap)' <=> Found(ap)
BY DEF Found

\* A hit is of a progression that no thread has found before.
LEMMA FoundHit ==
  ASSUME Order, Hits, NEW t \in Threads, NEW a \in AP, Hit(t, a)
  PROVE  ~Found(a) /\ \A ap \in AP : Found(ap)' <=> Found(ap) \/ ap = a
<1> USE DEF Hit, Go, main, locks, totals, output
<1>1. /\ pc[t] \in Searching /\ pc'[t] \in Searching /\ hits'[t] = hits[t] \cup {a}
      /\ \A u \in Threads : u # t => pc'[u] = pc[u] /\ hits'[u] = hits[u]
  BY DEF Order, TypeOK, Searching
<1>2. /\ tables = iteration /\ mpc \in {"create", "join", "exited"} /\ iteration \in Nat
      /\ searched[<<iteration, start[t]>>] = 0
  BY <1>1, AtWork, Numbers DEF Iterations
<1>3. Where[a] = <<iteration, start[t]>> /\ a \notin hits[t]
  BY <1>2 DEF At
<1>4. \A u \in Threads : ~HitAt(u, a)
  BY <1>1, <1>3, HitPlace, Apart DEF HitAt
<1>5. \A u \in Threads, ap \in AP : HitAt(u, ap)' <=> HitAt(u, ap) \/ (u = t /\ ap = a)
  BY <1>1 DEF HitAt
<1>6. UNCHANGED <<iteration, searched, mpc>>
  OBVIOUS
<1> QED
  BY <1>2, <1>3, <1>4, <1>5, <1>6 DEF Found

LEMMA FoundOther ==
  ASSUME Order, Order', Hits, [Next]_vars, \A t \in Threads, a \in AP : ~Hit(t, a)
  PROVE  \A ap \in AP : Found(ap)' <=> Found(ap)
<1> USE DEF vars, main, locks, totals, chunk, local, output
<1>0. TypeOK /\ Phases /\ Accounts /\ Accounts'
  BY DEF Order
<1>1. CASE MakeTables
  <2>1. \A t \in Threads, ap \in AP : ~HitAt(t, ap)'
    BY <1>0, <1>1 DEF MakeTables, Phases, Idle, HitAt, Searching
  <2>2. \A ap \in AP : Where[ap][1] = iteration => searched[Where[ap]] = 0
    BY <1>0, <1>1, WhereType DEF MakeTables, Accounts
  <2> QED
    BY <1>1, <2>1, <2>2 DEF MakeTables, Found
<1>2. CASE Create
  <2>1. k \in Threads
    BY <1>0, <1>2, Numbers DEF Create, TypeOK, Phases, Threads
  <2>2. \A t \in Threads : t # k => pc'[t] = pc[t]
    BY <1>0, <1>2, <2>1 DEF Create, TypeOK
  <2>3. pc[k] \in Idle /\ pc'[k] = "lock1"
    BY <1>0, <1>2, <2>1, Numbers DEF Create, TypeOK, Phases
  <2>4. \A t \in Threads, ap \in AP : HitAt(t, ap)' <=> HitAt(t, ap)
    BY <1>2, <2>2, <2>3 DEF Create, HitAt, Idle, Searching
  <2> QED
    BY <1>2, <2>4, FoundKept DEF Create
<1>3. CASE Join
  <2>1. CASE k + 1 = NThreads
    <3>1. /\ iteration' = iteration + 1 /\ searched' = searched /\ iteration \in Nat
          /\ mpc = "join" /\ mpc' = "tables"
      BY <1>0, <1>3, <2>1, Numbers DEF Join, TypeOK
    <3>2. \A ap \in AP : Where[ap][1] < iteration + 1 => searched[Where[ap]] = 1
      BY <1>0, <3>1, WhereType DEF Accounts
    <3>3. \A ap \in AP : Where[ap][1] \in Nat
      BY WhereType
    <3> QED
      BY <3>1, <3>2, <3>3 DEF Found
  <2>2. CASE k + 1 # NThreads
    BY <1>3, <2>2, FoundKept DEF Join, HitAt
  <2> QED
    BY <2>1, <2>2
<1>4. CASE Return
  BY <1>4 DEF Return, Found
<1>5. CASE /\ UNCHANGED <<pc, hits, iteration, searched>>
           /\ (mpc' = mpc \/ (mpc' = "exited" /\ mpc \in {"create", "join"}))
  BY <1>5, FoundKept DEF HitAt
<1>6. ASSUME NEW t \in Threads, WorkerFails(t)
      PROVE  \A ap \in AP : Found(ap)' <=> Found(ap)
  <2>1. mpc \in {"create", "join"}
    BY <1>0, <1>6 DEF WorkerFails, Phases, TypeOK, Live, Idle
  <2> QED
    BY <1>5, <1>6, <2>1 DEF WorkerFails
<1>7. ASSUME NEW t \in Threads, Worker(t)
      PROVE  \A ap \in AP : Found(ap)' <=> Found(ap)
  <2> USE DEF Go
  <2>1. CASE NextIndex(t)
    <3>1. /\ pc[t] \in Searching /\ hits[t] = At(tables, start[t]) /\ hits'[t] = {}
          /\ \A u \in Threads : u # t => pc'[u] = pc[u] /\ hits'[u] = hits[u]
          /\ UNCHANGED <<iteration, mpc>>
      BY <1>0, <2>1 DEF NextIndex, TypeOK, Searching
    <3>2. /\ tables = iteration /\ mpc \in {"create", "join", "exited"} /\ start[t] \in Indices
          /\ searched[<<iteration, start[t]>>] = 0 /\ iteration \in Iterations
      BY <3>1, AtWork
    <3>3. searched'[<<iteration, start[t]>>] = 1
      BY <1>0, <2>1, <3>2 DEF NextIndex, TypeOK
    <3>4. \A x \in Iterations \X Indices : x # <<iteration, start[t]>> => searched'[x] = searched[x]
      BY <1>0, <2>1, <3>2 DEF NextIndex, TypeOK
    <3>5. \A ap \in AP : HitAt(t, ap) <=> Where[ap] = <<iteration, start[t]>>
      BY <3>1, <3>2 DEF HitAt, At
    <3>6. \A u \in Threads, ap \in AP : HitAt(u, ap)' <=> u # t /\ HitAt(u, ap)
      BY <3>1 DEF HitAt
    <3>7. ASSUME NEW ap \in AP PROVE Found(ap)' <=> Found(ap)
      <4>1. CASE Where[ap] = <<iteration, start[t]>>
        <5>1. Found(ap)
          BY <3>2, <3>5, <4>1 DEF Found
        <5>2. Found(ap)'
          BY <3>1, <3>2, <3>3, <4>1 DEF Found
        <5> QED
          BY <5>1, <5>2
      <4>2. CASE Where[ap] # <<iteration, start[t]>>
        <5>1. searched'[Where[ap]] = searched[Where[ap]]
          BY <3>4, <4>2, WhereType
        <5>2. \A u \in Threads : HitAt(u, ap)' <=> HitAt(u, ap)
          BY <3>5, <3>6, <4>2
        <5> QED
          BY <3>1, <5>1, <5>2 DEF Found
      <4> QED
        BY <4>1, <4>2
    <3> QED
      BY <3>7
  <2>2. CASE ~NextIndex(t)
    <3>1. /\ UNCHANGED <<iteration, mpc, searched, hits>>
          /\ \A u \in Threads : u # t => pc'[u] = pc[u]
          /\ (pc'[t] \in Searching <=> pc[t] \in Searching) \/ pc[t] = "write_n43"
      BY <1>0, <1>7, <2>2 DEF Worker, Lock1, ReadN43, WriteN43, Lock2, CheckFile, OpenFile,
           WriteLine, Lock3, ReadTotal, WriteTotal, TypeOK, Searching
    <3>2. pc[t] = "write_n43" => hits[t] = {}
      BY DEF Hits, Searching
    <3>3. \A u \in Threads, ap \in AP : HitAt(u, ap)' <=> HitAt(u, ap)
      BY <3>1, <3>2 DEF HitAt, Searching
    <3> QED
      BY <3>1, <3>3, FoundKept
  <2> QED
    BY <2>1, <2>2
<1>8. ASSUME NEW t \in Threads, Progress(t)
      PROVE  \A ap \in AP : Found(ap)' <=> Found(ap)
  BY <1>5, <1>8 DEF Progress
<1> QED
  BY <1>1, <1>2, <1>3, <1>4, <1>5, <1>6, <1>7, <1>8 DEF Next, Main, Over, MainFails

-----------------------------------------------------------------------------
\* lock2 and lock3 keep a second thread out, and the results file is opened by
\* the one thread that found it closed.
LEMMA LocksStep ==
  Order /\ Mutex2 /\ Mutex3 /\ OneFile /\ [Next]_vars => Mutex2' /\ Mutex3' /\ OneFile'
<1> SUFFICES ASSUME Order, Mutex2, Mutex3, OneFile, [Next]_vars
             PROVE  Mutex2' /\ Mutex3' /\ OneFile'
  OBVIOUS
<1> USE DEF vars, main, locks, totals, chunk, local, output
<1>0. TypeOK /\ \A t \in Threads : t # Nobody
  BY Numbers DEF Order
<1>1. CASE Create
  <2>1. \A t \in Threads : pc'[t] = pc[t] \/ pc'[t] = "lock1"
    BY <1>0, <1>1 DEF Create, TypeOK
  <2> QED
    BY <1>1, <2>1 DEF Create, Mutex2, Mutex3, OneFile, Merging
<1>2. CASE UNCHANGED <<pc, lock2, lock3, opens, results_file>>
  BY <1>2 DEF Mutex2, Mutex3, OneFile
<1>3. ASSUME NEW t \in Threads, Worker(t) PROVE Mutex2' /\ Mutex3' /\ OneFile'
  <2> USE DEF Go, TypeOK, Mutex2, Mutex3, OneFile, Merging
  <2>1. CASE ReadN43(t)
    BY <1>0, <2>1 DEF ReadN43
  <2>2. CASE WriteN43(t)
    BY <1>0, <2>2 DEF WriteN43
  <2>3. ASSUME NEW ap \in AP, Hit(t, ap) PROVE Mutex2' /\ Mutex3' /\ OneFile'
    BY <1>0, <2>3 DEF Hit
  <2>4. CASE NextIndex(t)
    BY <1>0, <2>4 DEF NextIndex
  <2>5. CASE WriteLine(t)
    BY <1>0, <2>5 DEF WriteLine
  <2>6. CASE Lock1(t)
    BY <1>0, <2>6 DEF Lock1
  <2>7. CASE Lock2(t)
    BY <1>0, <2>7 DEF Lock2
  <2>8. CASE CheckFile(t)
    BY <1>0, <2>8 DEF CheckFile
  <2>9. CASE OpenFile(t)
    <3>1. \A u \in Threads : pc'[u] # "open_file"
      BY <1>0, <2>9 DEF OpenFile
    <3> QED
      BY <1>0, <2>9, <3>1 DEF OpenFile
  <2>10. CASE Lock3(t)
    BY <1>0, <2>10 DEF Lock3
  <2>11. CASE ReadTotal(t)
    BY <1>0, <2>11 DEF ReadTotal
  <2>12. CASE WriteTotal(t)
    BY <1>0, <2>12 DEF WriteTotal
  <2> QED
    BY <1>3, <2>1, <2>2, <2>3, <2>4, <2>5, <2>6, <2>7, <2>8, <2>9, <2>10, <2>11, <2>12 DEF Worker
<1> QED
  BY <1>1, <1>2, <1>3
     DEF Next, Main, Over, MakeTables, Join, Return, MainFails, Progress, WorkerFails

-----------------------------------------------------------------------------
LEMMA LinesStep ==
  Order /\ Order' /\ Hits /\ Hits' /\ Lines /\ [Next]_vars => Lines'
<1> SUFFICES ASSUME Order, Order', Hits, Hits', Lines, [Next]_vars PROVE Lines'
  OBVIOUS
<1> USE DEF vars, main, locks, totals, chunk, local, output
<1>0. TypeOK
  BY DEF Order
<1>1. ASSUME NEW t \in Threads, NEW a \in AP, Hit(t, a) PROVE Lines'
  <2>1. /\ line[t] = {} /\ line'[t] = {a} \cap Long /\ lines' = lines
        /\ \A u \in Threads : u # t => line'[u] = line[u]
    BY <1>0, <1>1 DEF Hit, Go, Hits, Reporting, TypeOK
  <2>2. \A ap \in AP : Pending(ap)' <=> Pending(ap) \/ (ap = a /\ ap \in Long)
    BY <2>1 DEF Pending
  <2>3. ~Found(a) /\ \A ap \in AP : Found(ap)' <=> Found(ap) \/ ap = a
    BY <1>1, FoundHit
  <2> QED
    BY <2>1, <2>2, <2>3 DEF Lines
<1>2. ASSUME \A t \in Threads, a \in AP : ~Hit(t, a) PROVE Lines'
  <2>1. \A ap \in AP : Found(ap)' <=> Found(ap)
    BY <1>2, FoundOther
  <2>2. CASE UNCHANGED <<line, lines>>
    BY <2>1, <2>2 DEF Lines, Pending
  <2>3. ASSUME NEW t \in Threads, WriteLine(t) PROVE Lines'
    <3>1. /\ pc[t] = "write_line" /\ line'[t] = {}
          /\ \A u \in Threads : u # t => line'[u] = line[u]
          /\ \A ap \in AP : lines'[ap] = IF ap \in line[t] THEN lines[ap] + 1 ELSE lines[ap]
      BY <1>0, <2>3 DEF WriteLine, Go, TypeOK
    <3>2. \A u \in Threads, ap \in AP : ap \in line[u] => HitAt(u, ap) /\ ap \in Long
      BY <1>0 DEF Hits, Reporting, Searching, HitAt, TypeOK
    <3>3. \A u \in Threads, ap \in AP : u # t /\ ap \in line[u] => ap \notin line[t]
      <4> TAKE u \in Threads, ap \in AP
      <4> HAVE u # t /\ ap \in line[u]
      <4> SUFFICES ASSUME ap \in line[t] PROVE FALSE
        OBVIOUS
      <4>1. HitAt(u, ap) /\ HitAt(t, ap)
        BY <3>2
      <4>2. start[u] = start[t]
        BY <4>1, HitPlace
      <4> QED
        BY <4>1, <4>2, Apart DEF HitAt
    <3>4. ASSUME NEW ap \in AP PROVE Pending(ap)' <=> Pending(ap) /\ ap \notin line[t]
      BY <3>1, <3>3 DEF Pending
    <3>5. \A ap \in line[t] : ap \in AP /\ Found(ap) /\ Pending(ap) /\ ap \in Long
      <4> TAKE ap \in line[t]
      <4>1. ap \in Long /\ ap \in AP
        BY <1>0, WorkPoolAssumption DEF TypeOK
      <4>2. HitAt(t, ap)
        BY <4>1, <3>2
      <4>3. Where[ap] = <<iteration, start[t]>> /\ mpc \in {"create", "join", "exited"}
        BY <4>1, <4>2, HitPlace, AtWork DEF HitAt
      <4> QED
        BY <4>1, <4>2, <4>3 DEF Found, Pending
    <3>6. ASSUME NEW ap \in AP
          PROVE lines'[ap] = IF ap \in Long /\ Found(ap)' /\ ~Pending(ap)' THEN 1 ELSE 0
      <4>1. CASE ap \in line[t]
        BY <2>1, <3>1, <3>4, <3>5, <4>1 DEF Lines
      <4>2. CASE ap \notin line[t]
        BY <2>1, <3>1, <3>4, <4>2 DEF Lines
      <4> QED
        BY <4>1, <4>2
    <3> QED
      BY <3>6 DEF Lines
  <2> QED
    BY <1>2, <2>2, <2>3 DEF Next, Main, Over, MakeTables, Create, Join, Return, MainFails, Progress,
       WorkerFails, Worker, Lock1, ReadN43, WriteN43, Lock2, CheckFile, OpenFile, NextIndex,
       Lock3, ReadTotal, WriteTotal
<1> QED
  BY <1>1, <1>2

-----------------------------------------------------------------------------
LEMMA MassOfUnion ==
  ASSUME NEW S \in SUBSET AP, NEW T \in SUBSET AP, S \cap T = {}
  PROVE  /\ Mass[S] \in Nat /\ Mass[T] \in Nat /\ Mass[S \cup T] = Mass[S] + Mass[T]
         /\ Cardinality(S \cup T) = Cardinality(S) + Cardinality(T)
         /\ Cardinality(S) \in Nat /\ Cardinality(T) \in Nat
<1>1. IsFiniteSet(S) /\ IsFiniteSet(T)
  BY WorkPoolAssumption, FS_Subset
<1>2. Mass[S] \in Nat /\ Mass[T] \in Nat /\ Mass[S \cup T] = Mass[S] + Mass[T]
  BY WorkPoolAssumption
<1>3. Cardinality(S) \in Nat /\ Cardinality(T) \in Nat
  BY <1>1, FS_CardinalityType
<1>4. Cardinality(S \cup T) = Cardinality(S) + Cardinality(T) - Cardinality({})
  BY <1>1, FS_Union
<1>5. Cardinality({}) = 0
  BY FS_EmptySet
<1> QED
  BY <1>2, <1>3, <1>4, <1>5

\* A hit adds its progression to the share of the thread.
LEMMA SharesHit ==
  ASSUME Order, Hits, NEW share \in [Threads -> SUBSET AP], NEW merged \in SUBSET AP,
         Shares(share, merged), NEW t \in Threads, NEW a \in AP, Hit(t, a)
  PROVE  Shares([share EXCEPT ![t] = @ \cup {a}], merged)'
<1> DEFINE new == [share EXCEPT ![t] = @ \cup {a}]
<1> USE DEF main, locks, totals, local, output
<1>1. /\ new \in [Threads -> SUBSET AP] /\ new[t] = share[t] \cup {a}
      /\ \A u \in Threads : u # t => new[u] = share[u]
  OBVIOUS
<1>2. ~Found(a) /\ \A ap \in AP : Found(ap)' <=> Found(ap) \/ ap = a
  BY FoundHit
<1>3. a \notin merged /\ \A u \in Threads : a \notin share[u]
  BY <1>2 DEF Shares
<1>4. /\ pc[t] = "search" /\ pc'[t] \in {"search", "lock2"} /\ UNCHANGED <<cksum, totalaps, total>>
      /\ \A u \in Threads : u # t => /\ pc'[u] = pc[u] /\ checksum'[u] = checksum[u]
                                     /\ apcount'[u] = apcount[u]
      /\ checksum'[t] = AddMod(checksum[t], Canon(Mass[{a}])) /\ apcount'[t] = apcount[t] + 1
  BY DEF Hit, Go, Order, TypeOK
<1>5. checksum[t] = Canon(Mass[share[t]]) /\ apcount[t] = Cardinality(share[t])
  BY <1>4 DEF Shares, Idle
<1>6. /\ Mass[share[t]] \in Nat /\ Mass[{a}] \in Nat /\ Mass[new[t]] = Mass[share[t]] + Mass[{a}]
      /\ Cardinality(new[t]) = Cardinality(share[t]) + Cardinality({a})
  <2>1. share[t] \in SUBSET AP /\ {a} \in SUBSET AP /\ share[t] \cap {a} = {}
    BY <1>3
  <2>2. new[t] = share[t] \cup {a}
    BY <1>1
  <2> HIDE DEF new
  <2> QED
    BY <2>1, <2>2, MassOfUnion
<1>7. Cardinality({a}) = 1
  BY FS_Singleton
<1>8. checksum'[t] = Canon(Mass[new[t]]) /\ apcount'[t] = Cardinality(new[t])
  <2> HIDE DEF new
  <2> QED
    BY <1>4, <1>5, <1>6, <1>7, AddModCanon
<1> HIDE DEF new
<1>9. /\ \A u \in Threads : new[u] \cap merged = {}
      /\ \A u, w \in Threads : u # w => new[u] \cap new[w] = {}
  BY <1>1, <1>3 DEF Shares
<1>10. \A ap \in AP : Found(ap)' <=> ap \in merged \/ \E u \in Threads : ap \in new[u]
  BY <1>1, <1>2 DEF Shares
<1>11. \A u \in Threads : pc'[u] \in Idle => new[u] = {}
  BY <1>1, <1>4 DEF Shares, Idle
<1>12. \A u \in Threads : pc'[u] \notin Idle =>
         checksum'[u] = Canon(Mass[new[u]]) /\ apcount'[u] = Cardinality(new[u])
  BY <1>1, <1>4, <1>8 DEF Shares
<1>13. /\ cksum' = Canon(Before + Mass[merged]) /\ totalaps' = Cardinality(merged)
       /\ \A u \in Threads : pc'[u] = "write_total" => total'[u] = AddMod(cksum', checksum'[u])
  BY <1>4 DEF Shares
<1>14. Shares(new, merged)'
  BY <1>1, <1>9, <1>10, <1>11, <1>12, <1>13 DEF Shares
<1> QED
  BY <1>14 DEF new

\* The merge under lock3 moves the share of the thread.
LEMMA SharesMerged ==
  ASSUME Order, Order', Hits, Mutex3, NEW share \in [Threads -> SUBSET AP], NEW merged \in SUBSET AP,
         Shares(share, merged), NEW t \in Threads, WriteTotal(t),
         \A ap \in AP : Found(ap)' <=> Found(ap)
  PROVE  Shares([share EXCEPT ![t] = {}], merged \cup share[t])'
<1> DEFINE new == [share EXCEPT ![t] = {}]
<1> USE DEF main, locks, local, output
<1>1. /\ new \in [Threads -> SUBSET AP] /\ new[t] = {} /\ merged \cup share[t] \in SUBSET AP
      /\ \A u \in Threads : u # t => new[u] = share[u]
  OBVIOUS
<1> HIDE DEF new
<1>2. /\ pc[t] = "write_total" /\ pc'[t] = "exited" /\ cksum' = total[t]
      /\ totalaps' = totalaps + apcount[t] /\ UNCHANGED <<checksum, apcount, total>>
      /\ \A u \in Threads : u # t => pc'[u] = pc[u]
  BY DEF WriteTotal, Go, Order, TypeOK
<1>3. \A u \in Threads : u # t => pc[u] # "write_total"
  BY <1>2 DEF Mutex3, Merging
<1>4. /\ total[t] = AddMod(cksum, checksum[t]) /\ cksum = Canon(Before + Mass[merged])
      /\ checksum[t] = Canon(Mass[share[t]]) /\ apcount[t] = Cardinality(share[t])
      /\ totalaps = Cardinality(merged) /\ share[t] \cap merged = {}
  BY <1>2 DEF Shares, Idle
<1>5. /\ Mass[merged] \in Nat /\ Mass[share[t]] \in Nat
      /\ Mass[merged \cup share[t]] = Mass[merged] + Mass[share[t]]
      /\ Cardinality(merged \cup share[t]) = Cardinality(merged) + Cardinality(share[t])
  BY <1>4, MassOfUnion
<1>6. cksum' = Canon(Before + Mass[merged \cup share[t]])
  <2>1. Before + Mass[merged] \in Nat
    BY <1>5, WorkPoolAssumption
  <2>2. total[t] = Canon((Before + Mass[merged]) + Mass[share[t]])
    BY <1>4, <1>5, <2>1, AddModCanon
  <2>3. (Before + Mass[merged]) + Mass[share[t]] = Before + Mass[merged \cup share[t]]
    BY <1>5, WorkPoolAssumption
  <2> QED
    BY <1>2, <2>2, <2>3
<1>7. totalaps' = Cardinality(merged \cup share[t])
  BY <1>2, <1>4, <1>5
<1>8. /\ \A u \in Threads : new[u] \cap (merged \cup share[t]) = {}
      /\ \A u, w \in Threads : u # w => new[u] \cap new[w] = {}
  BY <1>1 DEF Shares
<1>9. \A ap \in AP : Found(ap)' <=> ap \in merged \cup share[t] \/ \E u \in Threads : ap \in new[u]
  BY <1>1 DEF Shares
<1>10. \A u \in Threads : pc'[u] \in Idle => new[u] = {}
  BY <1>1, <1>2 DEF Shares
<1>11. \A u \in Threads : pc'[u] \notin Idle =>
         checksum'[u] = Canon(Mass[new[u]]) /\ apcount'[u] = Cardinality(new[u])
  BY <1>1, <1>2 DEF Shares, Idle
<1>12. \A u \in Threads : pc'[u] # "write_total"
  BY <1>2, <1>3
<1>13. Shares(new, merged \cup share[t])'
  BY <1>1, <1>6, <1>7, <1>8, <1>9, <1>10, <1>11, <1>12 DEF Shares
<1> QED
  BY <1>13 DEF new

\* A step that neither finds nor merges keeps the shares.
LEMMA SharesKept ==
  ASSUME NEW share \in [Threads -> SUBSET AP], NEW merged \in SUBSET AP, Shares(share, merged),
         \A ap \in AP : Found(ap)' <=> Found(ap), UNCHANGED <<cksum, totalaps>>,
         \A u \in Threads : pc'[u] \in Idle => pc[u] \in Idle,
         \A u \in Threads : pc'[u] \notin Idle =>
            \/ pc[u] \notin Idle /\ checksum'[u] = checksum[u] /\ apcount'[u] = apcount[u]
            \/ pc[u] \in Idle /\ checksum'[u] = 0 /\ apcount'[u] = 0,
         \A u \in Threads : pc'[u] = "write_total" =>
            \/ pc[u] = "write_total" /\ total'[u] = total[u] /\ checksum'[u] = checksum[u]
            \/ total'[u] = AddMod(cksum, checksum'[u])
  PROVE  Shares(share, merged)'
<1>1. Canon(Mass[{}]) = 0 /\ Cardinality({}) = 0
  BY WorkPoolAssumption, FS_EmptySet DEF Canon
<1>2. \A u \in Threads : pc'[u] \notin Idle =>
         checksum'[u] = Canon(Mass[share[u]]) /\ apcount'[u] = Cardinality(share[u])
  BY <1>1 DEF Shares
<1>3. \A u \in Threads : pc'[u] = "write_total" => total'[u] = AddMod(cksum', checksum'[u])
  BY DEF Shares
<1> QED
  BY <1>2, <1>3 DEF Shares

LEMMA SharesStep ==
  ASSUME Order, Order', Hits, Mutex3, [Next]_vars,
         NEW share \in [Threads -> SUBSET AP], NEW merged \in SUBSET AP, Shares(share, merged)
  PROVE  \E f \in [Threads -> SUBSET AP], M \in SUBSET AP : Shares(f, M)'
<1> USE DEF vars, main, locks, totals, chunk, local, output
<1>0. TypeOK /\ Phases
  BY DEF Order
<1>1. ASSUME NEW t \in Threads, NEW a \in AP, Hit(t, a)
      PROVE  \E f \in [Threads -> SUBSET AP], M \in SUBSET AP : Shares(f, M)'
  <2>1. Shares([share EXCEPT ![t] = @ \cup {a}], merged)'
    BY <1>1, SharesHit
  <2>2. [share EXCEPT ![t] = @ \cup {a}] \in [Threads -> SUBSET AP]
    OBVIOUS
  <2> QED
    BY <2>1, <2>2
<1>2. ASSUME \A t \in Threads, a \in AP : ~Hit(t, a)
      PROVE  \E f \in [Threads -> SUBSET AP], M \in SUBSET AP : Shares(f, M)'
  <2>1. \A ap \in AP : Found(ap)' <=> Found(ap)
    BY <1>2, FoundOther
  <2>2. ASSUME NEW t \in Threads, WriteTotal(t)
        PROVE  \E f \in [Threads -> SUBSET AP], M \in SUBSET AP : Shares(f, M)'
    <3>1. Shares([share EXCEPT ![t] = {}], merged \cup share[t])'
      BY <2>1, <2>2, SharesMerged
    <3>2. [share EXCEPT ![t] = {}] \in [Threads -> SUBSET AP] /\ merged \cup share[t] \in SUBSET AP
      OBVIOUS
    <3> QED
      BY <3>1, <3>2
  <2>3. CASE Create
    <3>1. k \in Threads
      BY <1>0, <2>3, Numbers DEF Create, TypeOK, Phases, Threads
    <3>2. /\ pc[k] \in Idle /\ pc'[k] = "lock1" /\ checksum'[k] = 0 /\ apcount'[k] = 0
          /\ \A t \in Threads : t # k => /\ pc'[t] = pc[t] /\ checksum'[t] = checksum[t]
                                         /\ apcount'[t] = apcount[t]
      BY <1>0, <2>3, <3>1, Numbers DEF Create, TypeOK, Phases
    <3>3. /\ \A u \in Threads : pc'[u] \in Idle => pc[u] \in Idle
          /\ \A u \in Threads : pc'[u] = "write_total" => u # k
      BY <3>2 DEF Idle
    <3>4. Shares(share, merged)'
      BY <2>1, <2>3, <3>2, <3>3, SharesKept DEF Create
    <3> QED
      BY <3>4
  <2>4. ASSUME NEW t \in Threads, ReadTotal(t)
        PROVE  Shares(share, merged)'
    <3>1. /\ pc[t] = "read_total" /\ pc'[t] = "write_total"
          /\ total'[t] = AddMod(cksum, checksum[t])
          /\ \A u \in Threads : u # t => pc'[u] = pc[u] /\ total'[u] = total[u]
          /\ UNCHANGED <<checksum, apcount, cksum, totalaps>>
      BY <1>0, <2>4 DEF ReadTotal, Go, TypeOK
    <3>2. \A u \in Threads : pc'[u] \in Idle <=> pc[u] \in Idle
      BY <3>1 DEF Idle
    <3> QED
      BY <2>1, <3>1, <3>2, SharesKept
  <2>5. CASE UNCHANGED <<pc, checksum, apcount, total, cksum, totalaps>>
    BY <2>1, <2>5, SharesKept
  <2>6. ASSUME NEW t \in Threads, Worker(t), ~WriteTotal(t), ~ReadTotal(t)
        PROVE  Shares(share, merged)'
    <3>1. /\ UNCHANGED <<checksum, apcount, total, cksum, totalaps>>
          /\ \A u \in Threads : u # t => pc'[u] = pc[u]
          /\ pc[t] \notin Idle /\ pc'[t] \notin Idle /\ pc'[t] # "write_total"
      BY <1>0, <1>2, <2>6 DEF Worker, Lock1, ReadN43, WriteN43, Lock2, CheckFile, OpenFile,
           WriteLine, NextIndex, Lock3, Go, TypeOK, Idle
    <3>2. \A u \in Threads : pc'[u] \in Idle <=> pc[u] \in Idle
      BY <3>1
    <3> QED
      BY <2>1, <3>1, <3>2, SharesKept
  <2> QED
    BY <2>2, <2>3, <2>4, <2>5, <2>6
       DEF Next, Main, Over, MakeTables, Join, Return, MainFails, Progress, WorkerFails
<1> QED
  BY <1>1, <1>2

LEMMA InitResult == Init => Result
<1> SUFFICES ASSUME Init PROVE Result
  OBVIOUS
<1>1. \A ap \in AP : ~Found(ap)
  BY WhereType DEF Init, Found
<1>2. Hits /\ Mutex2 /\ Mutex3 /\ OneFile /\ Lines
  BY <1>1 DEF Init, Hits, Mutex2, Mutex3, OneFile, Lines, Searching, Reporting, Merging
<1>3. Canon(Before + Mass[{}]) = Canon(Before) /\ Cardinality({}) = 0
  BY WorkPoolAssumption, FS_EmptySet
<1>4. Shares([t \in Threads |-> {}], {})
  BY <1>1, <1>3 DEF Init, Shares, Idle
<1>5. [t \in Threads |-> {}] \in [Threads -> SUBSET AP] /\ {} \in SUBSET AP
  OBVIOUS
<1> QED
  BY <1>2, <1>4, <1>5 DEF Result

LEMMA ResultStep == Order /\ Order' /\ Result /\ [Next]_vars => Result'
<1> SUFFICES ASSUME Order, Order', Result, [Next]_vars PROVE Result'
  OBVIOUS
<1>1. Hits' /\ Mutex2' /\ Mutex3' /\ OneFile'
  BY HitsStep, LocksStep DEF Result
<1>2. Lines'
  BY <1>1, LinesStep DEF Result
<1>3. PICK share \in [Threads -> SUBSET AP], merged \in SUBSET AP : Shares(share, merged)
  BY DEF Result
<1>4. \E f \in [Threads -> SUBSET AP], M \in SUBSET AP : Shares(f, M)'
  BY <1>3, SharesStep DEF Result
<1>5. (\E f \in [Threads -> SUBSET AP], M \in SUBSET AP : Shares(f, M))'
  BY <1>4
<1> QED
  BY <1>1, <1>2, <1>5 DEF Result

LEMMA ResultHolds == Spec => [](Order /\ Result)
<1>1. Order /\ Result /\ [Next]_vars /\ Order' => Result'
  BY ResultStep
<1> QED
  BY <1>1, InitResult, OrderHolds, PTL DEF Spec

LEMMA ExactAtJoin ==
  ASSUME Order, Result
  PROVE  TotalsExact
<1> SUFFICES ASSUME mpc \in {"tables", "returned"}
             PROVE  LET done == {ap \in AP : Where[ap][1] < iteration} IN
                        /\ cksum = AddMod(Canon(Before), Canon(Mass[done]))
                        /\ totalaps = Cardinality(done)
  BY DEF TotalsExact
<1> DEFINE done == {ap \in AP : Where[ap][1] < iteration}
<1>1. PICK share \in [Threads -> SUBSET AP], merged \in SUBSET AP : Shares(share, merged)
  BY DEF Result
<1>2. \A t \in Threads : share[t] = {}
  BY <1>1 DEF Order, Phases, Shares
<1>3. \A ap \in AP : Found(ap) <=> Where[ap][1] < iteration
  BY DEF Found
<1>4. merged = done
  BY <1>1, <1>2, <1>3 DEF Shares
<1>5. Mass[merged] \in Nat /\ Before \in Nat
  BY WorkPoolAssumption
<1>6. AddMod(Canon(Before), Canon(Mass[merged])) = Canon(Before + Mass[merged])
  BY <1>5, AddModCanon
<1> QED
  BY <1>1, <1>4, <1>6 DEF Shares

\* The totals are bit for bit those of a sequential search whenever all threads
\* are joined: however many threads there are, however they divide the table,
\* in whatever order they find progressions and come to lock3.
THEOREM TotalsSequential == Spec => []TotalsExact
BY ExactAtJoin, ResultHolds, PTL

\* Every line of SOL-AP26.txt is written once, through a file that is opened at
\* most once, whichever threads find progressions at the same time.
THEOREM LinesOnce == Spec => []LinesExact
<1>1. Order /\ Result => LinesExact
  <2> SUFFICES ASSUME Order, Result PROVE LinesExact
    OBVIOUS
  <2>1. opens <= 1
    BY DEF Result, OneFile
  <2>2. ASSUME mpc = "returned", NEW ap \in AP PROVE lines[ap] = IF ap \in Long THEN 1 ELSE 0
    <3>1. Found(ap)
      BY <2>2, WhereType DEF Order, Phases, Found
    <3>2. ~Pending(ap)
      BY <2>2 DEF Order, Phases, Result, Hits, Pending, Idle, Reporting
    <3> QED
      BY <3>1, <3>2 DEF Result, Lines
  <2> QED
    BY <2>1, <2>2 DEF LinesExact
<1> QED
  BY <1>1, ResultHolds, PTL
-----------------------------------------------------------------------------
\* The threads together are one search: Found is what the mapping of WorkPool
\* calls Reported, and it grows by one progression or not at all.

AllFound == Reported = {ap \in AP : Found(ap)}

LEMMA ReportedIsFound ==
  ASSUME Order, Hits
  PROVE  AllFound
<1> SUFFICES ASSUME NEW ap \in AP
             PROVE  (searched[Where[ap]] > 0 \/ \E t \in Threads : ap \in hits[t]) <=> Found(ap)
  BY DEF Reported, AllFound
<1>0. TypeOK /\ Accounts
  BY DEF Order
<1> DEFINE x == Where[ap]
<1>1. x \in Iterations \X Indices /\ x[1] \in Nat /\ x = <<x[1], x[2]>> /\ x[2] \in Indices
  BY WhereType
<1>2. iteration \in Nat
  BY <1>0, Numbers DEF TypeOK
<1>3. \A t \in Threads : ap \in hits[t] <=> HitAt(t, ap)
  BY DEF Hits, HitAt
<1>4. \A t \in Threads : HitAt(t, ap) => x[1] = iteration /\ mpc \in {"create", "join", "exited"}
  <2> SUFFICES ASSUME NEW t \in Threads, HitAt(t, ap)
               PROVE  x[1] = iteration /\ mpc \in {"create", "join", "exited"}
    OBVIOUS
  <2>1. Where[ap] = <<iteration, start[t]>>
    BY HitPlace
  <2>2. pc[t] \in Searching
    BY DEF HitAt
  <2> QED
    BY <2>1, <2>2, AtWork
<1> HIDE DEF x
<1>5. CASE x[1] < iteration
  <2>1. searched[x] = 1
    BY <1>0, <1>1, <1>5 DEF Accounts
  <2> QED
    BY <1>5, <2>1 DEF Found, x
<1>6. CASE x[1] > iteration
  <2>1. searched[x] = 0
    BY <1>0, <1>1, <1>6 DEF Accounts
  <2> QED
    BY <1>2, <1>1, <1>3, <1>4, <1>6, <2>1 DEF Found, x
<1>7. CASE x[1] = iteration
  <2>1. CASE mpc \in {"create", "join", "exited"}
    <3>1. searched[x] = 0 \/ searched[x] = 1
      BY <1>0, <1>1, <1>7, <2>1 DEF Accounts
    <3>2. searched[x] > 0 <=> searched[x] = 1
      BY <3>1
    <3> QED
      BY <1>2, <1>3, <1>7, <2>1, <3>2 DEF Found, x
  <2>2. CASE mpc \notin {"create", "join", "exited"}
    <3>1. searched[x] = 0
      BY <1>0, <1>1, <1>7, <2>2 DEF Accounts, TypeOK
    <3> QED
      BY <1>2, <1>3, <1>4, <1>7, <2>2, <3>1 DEF Found, x
  <2> QED
    BY <2>1, <2>2
<1> QED
  BY <1>1, <1>2, <1>5, <1>6, <1>7

LEMMA InitAbstract == Init => Abstract!Init
<1> SUFFICES ASSUME Init PROVE Abstract!Init
  OBVIOUS
<1>1. Reported = {}
  BY WorkPoolAssumption DEF Init, Reported
<1> QED
  BY <1>1 DEF Init, Abstract!Init

LEMMA AbstractStep ==
  ASSUME Order, Order', Result, Result', AllFound, AllFound', [Next]_vars
  PROVE  [Abstract!Next]_(Abstract!vars)
<1> USE DEF main, vars
<1>0. TypeOK /\ Phases /\ Hits /\ Hits'
  BY DEF Order, Result
<1>1. Reported = {ap \in AP : Found(ap)} /\ Reported' = {ap \in AP : Found(ap)'}
  BY DEF AllFound
<1>2. CASE Return
  <2>1. mpc = "tables" /\ mpc' = "returned" /\ iteration = NIterations /\ totalaps' = totalaps
    BY <1>2 DEF Return, totals
  <2>2. Reported = AP
    BY <1>1, <2>1, WhereType DEF Found
  <2>3. TotalsExact
    BY ExactAtJoin
  <2>4. {ap \in AP : Where[ap][1] < iteration} = AP
    BY <2>1, WhereType
  <2>5. totalaps' = Cardinality(AP)
    BY <2>1, <2>3, <2>4 DEF TotalsExact
  <2>6. Abstract!Found(1) = AP
    BY DEF Abstract!Found
  <2>7. Cardinality(AP) \in Nat
    BY WorkPoolAssumption, FS_CardinalityType
  <2>8. (IF mpc = "returned" THEN 2 ELSE 1) = 1 /\ (IF mpc' = "returned" THEN 2 ELSE 1) = 2
    BY <2>1
  <2>9. (IF mpc = "returned" THEN {} ELSE Reported) = AP /\ (IF mpc' = "returned" THEN {} ELSE Reported') = {}
    BY <2>1, <2>2
  <2>10. /\ (IF mpc = "returned" THEN totalaps ELSE 0) = 0
         /\ (IF mpc' = "returned" THEN totalaps' ELSE 0) = 0 + Abstract!Cardinality(AP)
    <3>1. Abstract!Cardinality(AP) = Cardinality(AP)
      BY DEF Cardinality, Abstract!Cardinality
    <3> QED
      BY <2>1, <2>5, <2>7, <3>1
  <2>11. Abstract!EndOfK
    BY <2>6, <2>8, <2>9, <2>10 DEF Abstract!EndOfK
  <2> QED
    BY <2>11 DEF Abstract!Next
<1>3. CASE mpc = "returned"
  <2>1. mpc' = "returned" /\ totalaps' = totalaps
    BY <1>0, <1>3, ZenonT(30) DEF Next, Main, MakeTables, Create, Join, Return, MainFails, Over, Worker,
       Progress, WorkerFails, Phases, Idle, Go, Lock1, ReadN43, WriteN43, Hit, Lock2, CheckFile, OpenFile,
       WriteLine, NextIndex, Lock3, ReadTotal, WriteTotal, totals
  <2> QED
    BY <1>3, <2>1 DEF Abstract!vars
<1>4. CASE mpc # "returned" /\ \E t \in Threads, a \in AP : Hit(t, a)
  <2>1. PICK t \in Threads, a \in AP : Hit(t, a)
    BY <1>4
  <2>2. ~Found(a) /\ \A ap \in AP : Found(ap)' <=> Found(ap) \/ ap = a
    BY <1>0, <2>1, FoundHit
  <2>3. a \notin Reported /\ Reported' = Reported \cup {a}
    BY <1>1, <2>2
  <2>4. mpc' = mpc
    BY <2>1 DEF Hit
  <2>5. a \in Abstract!Found(1)
    BY DEF Abstract!Found
  <2>6. Abstract!Report(a)
    BY <1>4, <2>3, <2>4, <2>5 DEF Abstract!Report
  <2> QED
    BY <2>6 DEF Abstract!Next
<1>5. CASE mpc # "returned" /\ ~Return /\ \A t \in Threads, a \in AP : ~Hit(t, a)
  <2>1. Reported' = Reported
    BY <1>0, <1>1, <1>5, FoundOther
  <2>2. mpc' # "returned"
    BY <1>5 DEF Next, Main, MakeTables, Create, Join, MainFails, Over, Worker, Progress,
       WorkerFails, Lock1, ReadN43, WriteN43, Lock2, CheckFile, OpenFile,
       WriteLine, NextIndex, Lock3, ReadTotal, WriteTotal
  <2> QED
    BY <1>5, <2>1, <2>2 DEF Abstract!vars
<1> QED
  BY <1>2, <1>3, <1>4, <1>5

\* Whatever the number of threads and the schedule, the pool is a search that
\* reports each progression of its K once and leaves the K with all of them
\* counted: what main relies on (RangeSearch).
THEOREM RefinesRangeSearch == Spec => ImplementsRangeSearch
<1>1. Order /\ Result => AllFound
  BY ReportedIsFound DEF Result
<1>2. Order /\ Order' /\ Result /\ Result' /\ AllFound /\ AllFound' /\ [Next]_vars
        => [Abstract!Next]_(Abstract!vars)
  BY AbstractStep
<1> QED
  BY <1>1, <1>2, InitAbstract, ResultHolds, PTL DEF Spec, ImplementsRangeSearch, Abstract!Spec
=============================================================================
