-------------------------- MODULE GpuSearchTheorems --------------------------
(***************************************************************************)
(* What holds of the GPU programs' host loop and queue for every number of *)
(* K and of SHIFT, every size of the tables, of a launch and of the        *)
(* arrays, and whatever the driver's errors do.                            *)
(*                                                                         *)
(* The type invariant rests on Struck: setupok never meets a table that    *)
(* clearok has not just cleared, so the OK and OKOK tables are always of   *)
(* one K.  Loops ties the event to the count of launches, and Window       *)
(* bounds the sieve kernels in the queue by the positions of five slots.   *)
(* Pipeline says what state of the device each kernel in the queue will    *)
(* find when its turn comes; what a K reports is built on it.              *)
(***************************************************************************)
EXTENDS GpuSearch, SequenceTheorems, FiniteSetTheorems, TLAPS

\* A setupok in the queue finds the table clear: clearok is in front of it, or
\* has just run.
Struck ==
  \A i \in 1..Len(queue) : queue[i].kernel = "setupok" =>
    (i = 1 /\ OK = 0) \/ (i > 1 /\ queue[i - 1].kernel = "clearok")

\* The loops over SHIFT and the event of every third launch.
Loops ==
  /\ hpc \in {"profile", "profile_wait"} => SHIFT = 0 /\ iter = 0 /\ launchEvent = "NULL"
  /\ hpc = "launch" => SHIFT < NShifts
  /\ hpc \in {"shift", "launch"} => (launchEvent = "recorded" <=> iter > 0)
  /\ hpc = "shift" /\ SHIFT > 0 => iter > 0

-----------------------------------------------------------------------------
LEMMA Sizes ==
  /\ NK \in Nat /\ NK > 0 /\ NShifts \in Nat /\ NShifts > 0 /\ sieve_wpt \in {1, 2}
  /\ local_size \in Nat /\ sol \in Nat /\ halfn59s \in Nat /\ Units \in Nat
BY GpuSearchAssumption DEF Units

LEMMA GlobalSizeType ==
  ASSUME NEW n \in Nat
  PROVE  GlobalSize(n) \in Nat
<1>1. local_size \in Nat /\ local_size > 0
  BY GpuSearchAssumption
<1>2. n = local_size * (n \div local_size) + (n % local_size)
      /\ n % local_size \in 0..(local_size - 1) /\ n \div local_size \in Int
  BY <1>1
<1>3. n \div local_size >= 0
  BY <1>1, <1>2
<1>4. n \div local_size \in Nat
  BY <1>2, <1>3
<1> QED
  BY <1>1, <1>4 DEF GlobalSize

LEMMA NResultSizeType ==
  ASSUME NEW n \in Nat
  PROVE  NResultSize(n) \in Nat
<1>1. CASE sieve_wpt = 1
  BY <1>1 DEF NResultSize
<1>2. CASE sieve_wpt = 2
  BY <1>2 DEF NResultSize
<1> QED
  BY <1>1, <1>2, Sizes

LEMMA SeqOfFunction ==
  ASSUME NEW S, NEW n \in Nat, NEW f \in [1..n -> S]
  PROVE  f \in Seq(S)
BY SeqDef

\* The kernels the host enqueues.
LEMMA KernelTypes ==
  ASSUME TypeOK
  PROVE  /\ Setupn \in Kernels /\ Clearok \in Kernels /\ Setupok \in Kernels
         /\ Clearn \in Kernels /\ Checkn \in Kernels
         /\ \A s \in Shifts : Setupokok(s) \in Kernels
         /\ \A s \in Shifts, d \in Arrays, n \in Nat, z \in Nat, e \in BOOLEAN :
              Sieve(s, d, n, z, e) \in Kernels
BY DEF TypeOK, Kernels, Setupn, Clearok, Setupok, Clearn, Checkn, Setupokok, Sieve

\* Three kernels more at the end of the queue.
LEMMA Concat3 ==
  ASSUME NEW q \in Seq(Kernels), NEW a \in Kernels, NEW b \in Kernels, NEW c \in Kernels
  PROVE  /\ q \o <<a, b, c>> \in Seq(Kernels) /\ Len(q \o <<a, b, c>>) = Len(q) + 3
         /\ \A i \in 1..Len(q) : (q \o <<a, b, c>>)[i] = q[i]
         /\ (q \o <<a, b, c>>)[Len(q) + 1] = a
         /\ (q \o <<a, b, c>>)[Len(q) + 2] = b
         /\ (q \o <<a, b, c>>)[Len(q) + 3] = c
<1>1. <<a, b, c>> \in Seq(Kernels) /\ Len(<<a, b, c>>) = 3
  <2>1. <<a, b, c>> \in [1..3 -> Kernels]
    OBVIOUS
  <2>2. <<a, b, c>> \in Seq(Kernels)
    BY <2>1, SeqDef
  <2>3. DOMAIN <<a, b, c>> = 1..3
    OBVIOUS
  <2> QED
    BY <2>2, <2>3, LenProperties
<1>2. Len(q) \in Nat
  BY LenProperties
<1> QED
  BY <1>1, <1>2, ConcatProperties

LEMMA InitTypes == Init => TypeOK /\ Struck /\ Loops
<1> SUFFICES ASSUME Init PROVE TypeOK /\ Struck /\ Loops
  OBVIOUS
<1>1. 0 \in Shifts /\ NResultSize(0) = 0
  BY Sizes DEF Shifts, NResultSize
<1>2. <<>> \in Seq(AP) /\ <<>> \in Seq(Kernels) /\ <<>> \in Seq(Cands) /\ Len(<<>>) = 0
  OBVIOUS
<1>3. [K |-> 0, shift |-> 0] \in [K : 0..NK, shift : Shifts]
  BY <1>1, Sizes
<1>4. numn = NResultSize(global_size) /\ K \in 1..NK /\ first \in 1..NK
  BY <1>1 DEF Init
<1>5. TypeOK
  <2>1. /\ reported \in Seq(AP) /\ queue \in Seq(Kernels) /\ n_result \in Seq(Cands) /\ sols \in Seq(AP)
    BY <1>2 DEF Init
  <2>2. OKOK \in [K : 0..NK, shift : Shifts]
    BY <1>3 DEF Init
  <2>3. /\ SHIFT \in 0..NShifts /\ devicearray \in Arrays /\ p \in 0..Units /\ iter \in 0..3
        /\ n59 \in 0..NK /\ OK \in 0..NK
    BY Sizes DEF Init, Arrays
  <2> QED
    BY <1>4, <2>1, <2>2, <2>3 DEF Init, TypeOK, Hosts
<1>6. Struck /\ Loops
  BY <1>2, Sizes DEF Init, Struck, Loops
<1> QED
  BY <1>5, <1>6

\* What the head of the queue and what is left of it look like.
LEMMA RunQueue ==
  ASSUME TypeOK, queue # << >>
  PROVE  /\ Head(queue) \in Kernels /\ Head(queue) = queue[1] /\ Tail(queue) \in Seq(Kernels)
         /\ Len(queue) \in Nat /\ Len(queue) > 0 /\ Len(Tail(queue)) = Len(queue) - 1
         /\ \A i \in 1..(Len(queue) - 1) : Tail(queue)[i] = queue[i + 1]
<1>1. queue \in Seq(Kernels)
  BY DEF TypeOK
<1> QED
  BY <1>1, HeadTailProperties, EmptySeq

LEMMA StruckKept ==
  ASSUME TypeOK, Struck, queue # << >>, queue' = Tail(queue),
         Head(queue).kernel = "clearok" => OK' = 0
  PROVE  Struck'
<1>1. ASSUME NEW i \in 1..Len(queue'), queue'[i].kernel = "setupok"
      PROVE  (i = 1 /\ OK' = 0) \/ (i > 1 /\ queue'[i - 1].kernel = "clearok")
  <2>1. i \in 1..(Len(queue) - 1) /\ queue'[i] = queue[i + 1] /\ i + 1 \in 1..Len(queue)
    BY <1>1, RunQueue
  <2>2. queue[i].kernel = "clearok"
    BY <1>1, <2>1 DEF Struck
  <2>3. CASE i = 1
    BY <2>2, <2>3, RunQueue
  <2>4. CASE i > 1
    BY <2>1, <2>2, <2>4, RunQueue
  <2> QED
    BY <2>1, <2>3, <2>4
<1> QED
  BY <1>1 DEF Struck

\* The host enqueues no setupok but in Setup, into an empty queue.
LEMMA StruckAppended ==
  ASSUME TypeOK, Struck, UNCHANGED OK, queue' \in Seq(Kernels), Len(queue) <= Len(queue'),
         \A i \in 1..Len(queue) : queue'[i] = queue[i],
         \A i \in 1..Len(queue') : i > Len(queue) => queue'[i].kernel # "setupok"
  PROVE  Struck'
<1>1. Len(queue) \in Nat /\ Len(queue') \in Nat
  BY LenProperties DEF TypeOK
<1>2. ASSUME NEW i \in 1..Len(queue'), queue'[i].kernel = "setupok"
      PROVE  (i = 1 /\ OK' = 0) \/ (i > 1 /\ queue'[i - 1].kernel = "clearok")
  <2>1. i \in 1..Len(queue) /\ queue[i].kernel = "setupok"
    BY <1>1, <1>2
  <2>2. i > 1 => i - 1 \in 1..Len(queue)
    BY <1>1, <2>1
  <2> QED
    BY <2>1, <2>2 DEF Struck
<1> QED
  BY <1>2 DEF Struck

\* What is read from a launch's array is made of candidates.
LEMMA StoredType ==
  ASSUME TypeOK, NEW new \in SetToSeqs(Stored \cap AP)
  PROVE  sols \o new \in Seq(AP)
<1>1. IsFiniteSet(Stored \cap AP)
  BY GpuSearchAssumption, FS_Subset
<1>2. Cardinality(Stored \cap AP) \in Nat
  BY <1>1, FS_CardinalityType
<1>3. new \in [1..Cardinality(Stored \cap AP) -> Stored \cap AP]
  BY DEF SetToSeqs
<1>4. new \in [1..Cardinality(Stored \cap AP) -> AP]
  BY <1>3
<1>5. new \in Seq(AP)
  BY <1>2, <1>4, SeqOfFunction
<1> QED
  BY <1>5, ConcatProperties DEF TypeOK

LEMMA SievedType ==
  ASSUME TypeOK, NEW cmd, NEW hits \in SetToSeqs(Sieved(cmd))
  PROVE  n_result \o hits \in Seq(Cands)
<1>1. Sieved(cmd) \subseteq Cands
  BY DEF Sieved, At
<1>2. IsFiniteSet(Sieved(cmd))
  BY <1>1, GpuSearchAssumption, FS_Subset
<1>3. Cardinality(Sieved(cmd)) \in Nat
  BY <1>2, FS_CardinalityType
<1>4. hits \in [1..Cardinality(Sieved(cmd)) -> Cands]
  BY <1>1 DEF SetToSeqs
<1>5. hits \in Seq(Cands)
  BY <1>3, <1>4, SeqOfFunction
<1> QED
  BY <1>5, ConcatProperties DEF TypeOK

\* What the host's actions put into the queue.
LEMMA Queued ==
  ASSUME TypeOK, Loops
  PROVE  /\ Len(queue) \in Nat
         /\ Setup => /\ queue' \in Seq(Kernels) /\ Len(queue') = 3
                     /\ queue'[1] = Setupn /\ queue'[2] = Clearok /\ queue'[3] = Setupok
         /\ ProfileLaunch =>
              /\ queue' \in Seq(Kernels) /\ Len(queue') = Len(queue) + 3
              /\ \A i \in 1..Len(queue) : queue'[i] = queue[i]
              /\ queue'[Len(queue) + 1] = Setupokok(SHIFT) /\ queue'[Len(queue) + 2] = Clearn
              /\ queue'[Len(queue) + 3].kernel = "sieve" /\ queue'[Len(queue) + 3].K = K
              /\ queue'[Len(queue) + 3].shift = SHIFT
         /\ NewShift =>
              /\ queue' \in Seq(Kernels) /\ Len(queue') = Len(queue) + 1
              /\ \A i \in 1..Len(queue) : queue'[i] = queue[i]
              /\ queue'[Len(queue) + 1] = Setupokok(SHIFT)
         /\ Launch =>
              /\ queue' \in Seq(Kernels) /\ Len(queue') = Len(queue) + 3
              /\ \A i \in 1..Len(queue) : queue'[i] = queue[i]
              /\ queue'[Len(queue) + 1] = Clearn
              /\ queue'[Len(queue) + 2] = Sieve(SHIFT, devicearray, p, global_size, iter = 0)
              /\ queue'[Len(queue) + 3] = Checkn
<1>0. Len(queue) \in Nat /\ queue \in Seq(Kernels) /\ p \in Nat /\ global_size \in Nat
  BY Sizes, LenProperties DEF TypeOK
<1>1. ASSUME Setup
      PROVE  /\ queue' \in Seq(Kernels) /\ Len(queue') = 3
             /\ queue'[1] = Setupn /\ queue'[2] = Clearok /\ queue'[3] = Setupok
  <2>1. <<>> \in Seq(Kernels) /\ Len(<<>>) = 0 /\ queue' = <<>> \o <<Setupn, Clearok, Setupok>>
    BY <1>1, KernelTypes DEF Setup
  <2> QED
    BY <2>1, KernelTypes, Concat3
<1>2. ASSUME ProfileLaunch
      PROVE  /\ queue' \in Seq(Kernels) /\ Len(queue') = Len(queue) + 3
             /\ \A i \in 1..Len(queue) : queue'[i] = queue[i]
             /\ queue'[Len(queue) + 1] = Setupokok(SHIFT) /\ queue'[Len(queue) + 2] = Clearn
             /\ queue'[Len(queue) + 3].kernel = "sieve" /\ queue'[Len(queue) + 3].K = K
             /\ queue'[Len(queue) + 3].shift = SHIFT
  <2>1. PICK worksize \in 1..Units :
          queue' = queue \o <<Setupokok(SHIFT), Clearn,
                              Sieve(SHIFT, 0, 0, GlobalSize(worksize), FALSE)>>
    BY <1>2 DEF ProfileLaunch
  <2> DEFINE sieve == Sieve(SHIFT, 0, 0, GlobalSize(worksize), FALSE)
  <2>2. GlobalSize(worksize) \in Nat
    BY Sizes, GlobalSizeType
  <2>3. SHIFT \in Shifts
    BY <1>2, Sizes DEF ProfileLaunch, Loops, Shifts
  <2>4. /\ Setupokok(SHIFT) \in Kernels /\ Clearn \in Kernels /\ sieve \in Kernels
        /\ sieve.kernel = "sieve" /\ sieve.K = K /\ sieve.shift = SHIFT
    BY <2>2, <2>3, KernelTypes DEF Arrays, Sieve
  <2>5. queue' = queue \o <<Setupokok(SHIFT), Clearn, sieve>>
    BY <2>1
  <2> HIDE DEF sieve
  <2> QED
    BY <1>0, <2>4, <2>5, Concat3
<1>3. ASSUME NewShift
      PROVE  /\ queue' \in Seq(Kernels) /\ Len(queue') = Len(queue) + 1
             /\ \A i \in 1..Len(queue) : queue'[i] = queue[i]
             /\ queue'[Len(queue) + 1] = Setupokok(SHIFT)
  <2>1. SHIFT \in Shifts
    BY <1>3, Sizes DEF NewShift, Shifts, TypeOK
  <2>2. Setupokok(SHIFT) \in Kernels
    BY <2>1, KernelTypes
  <2> QED
    BY <1>3, <2>2, AppendProperties DEF NewShift, TypeOK
<1>4. ASSUME Launch
      PROVE  /\ queue' \in Seq(Kernels) /\ Len(queue') = Len(queue) + 3
             /\ \A i \in 1..Len(queue) : queue'[i] = queue[i]
             /\ queue'[Len(queue) + 1] = Clearn
             /\ queue'[Len(queue) + 2] = Sieve(SHIFT, devicearray, p, global_size, iter = 0)
             /\ queue'[Len(queue) + 3] = Checkn
  <2> DEFINE sieve == Sieve(SHIFT, devicearray, p, global_size, iter = 0)
  <2>1. SHIFT \in Shifts /\ devicearray \in Arrays
    BY <1>4, Sizes DEF Launch, Loops, Shifts, TypeOK
  <2>2. Clearn \in Kernels /\ Checkn \in Kernels /\ sieve \in Kernels
    BY <1>0, <2>1, KernelTypes
  <2>3. queue' = queue \o <<Clearn, sieve, Checkn>>
    BY <1>4 DEF Launch
  <2> HIDE DEF sieve
  <2>4. /\ queue' \in Seq(Kernels) /\ Len(queue') = Len(queue) + 3
        /\ \A i \in 1..Len(queue) : queue'[i] = queue[i]
        /\ queue'[Len(queue) + 1] = Clearn /\ queue'[Len(queue) + 2] = sieve
        /\ queue'[Len(queue) + 3] = Checkn
    BY <1>0, <2>2, <2>3, Concat3
  <2> QED
    BY <2>4 DEF sieve
<1> QED
  BY <1>0, <1>1, <1>2, <1>3, <1>4

LEMMA NextTypes == TypeOK /\ Struck /\ Loops /\ [Next]_vars => TypeOK' /\ Struck' /\ Loops'
<1> SUFFICES ASSUME TypeOK, Struck, Loops, [Next]_vars PROVE TypeOK' /\ Struck' /\ Loops'
  OBVIOUS
<1> USE DEF vars, loop, sizes, result, device, tables, found
<1>0. /\ Len(queue) \in Nat /\ Len(n_result) \in Nat /\ Len(sols) \in Nat /\ Len(reported) \in Nat
      /\ SHIFT \in Nat /\ p \in Nat /\ global_size \in Nat
  BY Sizes, LenProperties DEF TypeOK
<1>1. CASE Setup
  <2>1. queue' \in Seq(Kernels) /\ Len(queue') = 3 /\ queue'[1] = Setupn /\ queue'[2] = Clearok
        /\ queue'[3] = Setupok
    BY <1>1, Queued
  <2>2. Struck'
    BY <2>1 DEF Struck, Setupn, Clearok, Setupok
  <2>3. <<>> \in Seq(AP)
    OBVIOUS
  <2>4. Loops'
    BY <1>1, Sizes DEF Setup, Loops
  <2> QED
    BY <1>1, <2>1, <2>2, <2>3, <2>4, Sizes DEF Setup, TypeOK, Hosts
<1>2. CASE ProfileLaunch
  <2>1. PICK worksize \in 1..Units :
          global_size' = GlobalSize(worksize) /\ numn' = NResultSize(GlobalSize(worksize))
    BY <1>2 DEF ProfileLaunch
  <2>2. GlobalSize(worksize) \in Nat
    BY Sizes, GlobalSizeType
  <2>5. /\ queue' \in Seq(Kernels) /\ Len(queue') = Len(queue) + 3
        /\ \A i \in 1..Len(queue) : queue'[i] = queue[i]
        /\ queue'[Len(queue) + 1] = Setupokok(SHIFT) /\ queue'[Len(queue) + 2] = Clearn
        /\ queue'[Len(queue) + 3].kernel = "sieve"
    BY <1>2, Queued
  <2>6. \A i \in 1..Len(queue') : i > Len(queue) => queue'[i].kernel # "setupok"
    <3>1. /\ queue'[Len(queue) + 1].kernel # "setupok"
          /\ queue'[Len(queue) + 2].kernel # "setupok"
          /\ queue'[Len(queue) + 3].kernel # "setupok"
      BY <2>5 DEF Setupokok, Clearn
    <3>2. Len(queue) \in Nat /\ Len(queue') = Len(queue) + 3
      BY <1>0, <2>5
    <3>3. \A i \in 1..Len(queue') : i > Len(queue) =>
            i = Len(queue) + 1 \/ i = Len(queue) + 2 \/ i = Len(queue) + 3
      BY <3>2
    <3> QED
      BY <3>1, <3>3
  <2>7. Struck'
    <3>1. UNCHANGED OK /\ Len(queue) <= Len(queue')
      BY <1>0, <1>2, <2>5 DEF ProfileLaunch
    <3> QED
      BY <2>5, <2>6, <3>1, StruckAppended
  <2>8. Loops'
    BY <1>2 DEF ProfileLaunch, Loops
  <2> QED
    BY <1>2, <2>1, <2>2, <2>5, <2>7, <2>8, NResultSizeType DEF ProfileLaunch, TypeOK, Hosts
<1>3. CASE ProfileDone
  <2>1. PICK new_range \in 0..Units :
          global_size' = GlobalSize(new_range) /\ numn' = NResultSize(GlobalSize(new_range))
    BY <1>3 DEF ProfileDone
  <2>2. GlobalSize(new_range) \in Nat
    BY Sizes, GlobalSizeType
  <2> QED
    BY <1>3, <2>1, <2>2 DEF ProfileDone, TypeOK, Hosts, Struck, Loops
<1>4. CASE NewShift
  <2>3. /\ queue' \in Seq(Kernels) /\ Len(queue') = Len(queue) + 1
        /\ \A i \in 1..Len(queue) : queue'[i] = queue[i]
        /\ queue'[Len(queue) + 1] = Setupokok(SHIFT)
    BY <1>4, Queued
  <2>4. Struck'
    BY <1>0, <1>4, <2>3, StruckAppended DEF NewShift, Setupokok
  <2> QED
    BY <1>0, <1>4, <2>3, <2>4, Sizes DEF NewShift, TypeOK, Hosts, Loops, Arrays
<1>5. CASE Launch
  <2>1. SHIFT \in Shifts /\ iter \in 0..3 /\ p \in 0..Units /\ devicearray \in Arrays
    BY <1>5, <1>0, Sizes DEF Launch, Loops, Shifts, TypeOK
  <2>3. /\ queue' \in Seq(Kernels) /\ Len(queue') = Len(queue) + 3
        /\ \A i \in 1..Len(queue) : queue'[i] = queue[i]
        /\ queue'[Len(queue) + 1] = Clearn /\ queue'[Len(queue) + 3] = Checkn
        /\ queue'[Len(queue) + 2] = Sieve(SHIFT, devicearray, p, global_size, iter = 0)
    BY <1>5, Queued
  <2>4. \A i \in 1..Len(queue') : i > Len(queue) => queue'[i].kernel # "setupok"
    <3>1. /\ queue'[Len(queue) + 1].kernel # "setupok"
          /\ queue'[Len(queue) + 2].kernel # "setupok"
          /\ queue'[Len(queue) + 3].kernel # "setupok"
      BY <2>3 DEF Checkn, Clearn, Sieve
    <3>2. Len(queue) \in Nat /\ Len(queue') = Len(queue) + 3
      BY <1>0, <2>3
    <3>3. \A i \in 1..Len(queue') : i > Len(queue) =>
            i = Len(queue) + 1 \/ i = Len(queue) + 2 \/ i = Len(queue) + 3
      BY <3>2
    <3> QED
      BY <3>1, <3>3
  <2>5. Struck'
    <3>1. UNCHANGED OK
      BY <1>5 DEF Launch
    <3>2. Len(queue) <= Len(queue')
      BY <1>0, <2>3
    <3> QED
      BY <2>3, <2>4, <3>1, <3>2, StruckAppended
  <2>6. /\ SHIFT' \in 0..NShifts /\ devicearray' \in Arrays
        /\ p' \in 0..Units /\ hpc' \in {"launch", "shift"}
    <3>1. hpc = "launch" /\ AdvanceLoops
      BY <1>5 DEF Launch
    <3>2. SHIFT \in Nat /\ SHIFT + 1 \in 0..NShifts /\ SHIFT \in 0..NShifts
      BY <2>1, Sizes DEF Shifts
    <3>3. p + global_size < Units => p + global_size \in 0..Units
      BY <1>0, Sizes
    <3> QED
      BY <2>1, <3>1, <3>2, <3>3, Sizes DEF AdvanceLoops, Arrays
  <2>7. iter' = iter + 1 /\ iter' \in 1..3 /\ launchEvent' = "recorded"
    BY <1>5, <2>1 DEF Launch, Loops
  <2>8. hpc' = "launch" => SHIFT' = SHIFT
    BY <1>5 DEF Launch, AdvanceLoops
  <2>9. Loops'
    BY <1>5, <2>1, <2>6, <2>7, <2>8, Sizes DEF Loops, Shifts
  <2> QED
    <3>1. UNCHANGED <<K, sizes, result, device, first, driverFailed>>
      BY <1>5 DEF Launch
    <3>2. iter' \in 0..3
      BY <2>7
    <3> QED
      BY <2>3, <2>5, <2>6, <2>7, <2>9, <3>1, <3>2 DEF TypeOK, Hosts
<1>6. CASE Wait
  BY <1>6 DEF Wait, TypeOK, Struck, Loops, Hosts
<1>7. CASE WaitLast
  BY <1>7 DEF WaitLast, TypeOK, Struck, Loops, Hosts
<1>8. CASE Drain
  BY <1>8 DEF Drain, TypeOK, Struck, Loops, Hosts
<1>9. CASE Read
  BY <1>9 DEF Read, TypeOK, Struck, Loops, Hosts
<1>10. CASE Report
  <2>1. sols[Len(reported) + 1] \in AP
    BY <1>0, <1>10, ElementOfSeq DEF Report, TypeOK
  <2>2. reported' \in Seq(AP)
    BY <1>10, <2>1, AppendProperties DEF Report, TypeOK
  <2> QED
    BY <1>10, <2>2 DEF Report, TypeOK, Struck, Loops
<1>11. CASE Return
  BY <1>0, <1>11 DEF Return, TypeOK, Struck, Loops, Hosts
<1>12. CASE NextK
  BY <1>12, Sizes DEF NextK, TypeOK, Struck, Loops, Hosts
<1>13. CASE QueryFails
  BY <1>13 DEF QueryFails, TypeOK, Struck, Loops, Hosts
<1>14. CASE Fails
  BY <1>14 DEF Fails, TypeOK, Struck, Loops, Hosts
<1>15. CASE Gpu
  <2>1. queue # << >> /\ queue' = Tail(queue)
        /\ UNCHANGED <<hpc, K, sizes, loop, result, first, driverFailed>>
    BY <1>15 DEF Gpu, RunSetupn, RunClearok, RunSetupok, RunSetupokok, RunClearn, RunSieve, RunCheckn, Run
  <2>2. queue' \in Seq(Kernels) /\ Head(queue) = queue[1] /\ Head(queue) \in Kernels /\ 1 \in 1..Len(queue)
    <3>1. /\ Head(queue) \in Kernels /\ Head(queue) = queue[1] /\ Tail(queue) \in Seq(Kernels)
          /\ Len(queue) \in Nat /\ Len(queue) > 0
      BY <2>1, RunQueue
    <3> QED
      BY <2>1, <3>1
  <2>3. Loops'
    BY <2>1 DEF Loops
  <2>4. Head(queue).kernel = "clearok" => OK' = 0
    BY <1>15 DEF Gpu, RunSetupn, RunClearok, RunSetupok, RunSetupokok, RunClearn, RunSieve, RunCheckn, Run
  <2>5. Struck'
    BY <2>1, <2>4, StruckKept
  <2>6. CASE RunSetupn
    <3>1. Head(queue).K \in 1..NK
      BY <2>2, <2>6 DEF RunSetupn, Run, Kernels
    <3> QED
      BY <2>1, <2>2, <2>3, <2>5, <2>6, <3>1 DEF RunSetupn, TypeOK
  <2>7. CASE RunClearok
    <3>1. sols' \in Seq(AP) /\ OK' \in 0..NK /\ largest' \in Nat /\ limit' \in BOOLEAN
      <4>1. << >> \in Seq(AP)
        OBVIOUS
      <4>2. OK' = 0 /\ largest' = 0 /\ sols' = << >>
        BY <2>7 DEF RunClearok
      <4>3. limit' \in BOOLEAN
        BY <2>7 DEF RunClearok
      <4> QED
        BY <4>1, <4>2, <4>3, Sizes
    <3>2. UNCHANGED <<n59, OKOK, n_result>>
      BY <2>7 DEF RunClearok
    <3> QED
      BY <2>1, <2>2, <2>3, <2>5, <3>1, <3>2 DEF TypeOK
  <2>8. CASE RunSetupok
    <3>1. Head(queue).K \in 1..NK
      BY <2>2, <2>8 DEF RunSetupok, Run, Kernels
    <3>2. OK = 0
      BY <2>2, <2>8 DEF RunSetupok, Run, Struck
    <3> QED
      BY <2>1, <2>2, <2>3, <2>5, <2>8, <3>1, <3>2 DEF RunSetupok, TypeOK
  <2>9. CASE RunSetupokok
    <3>1. Head(queue).shift \in Shifts
      BY <2>2, <2>9 DEF RunSetupokok, Run, Kernels
    <3> QED
      BY <2>1, <2>2, <2>3, <2>5, <2>9, <3>1 DEF RunSetupokok, TypeOK
  <2>10. CASE RunClearn
    <3>1. << >> \in Seq(Cands)
      OBVIOUS
    <3> QED
      BY <2>1, <2>2, <2>3, <2>5, <2>10, <3>1 DEF RunClearn, TypeOK
  <2>11. CASE RunSieve
    <3>1. n_result' \in Seq(Cands)
      BY <2>11, SievedType DEF RunSieve
    <3> QED
      BY <2>1, <2>2, <2>3, <2>5, <2>11, <3>1 DEF RunSieve, TypeOK
  <2>12. CASE RunCheckn
    <3>1. sols' \in Seq(AP)
      BY <2>12, StoredType DEF RunCheckn
    <3>2. largest' \in Nat
      BY <1>0, <2>12 DEF RunCheckn, Largest, Larger, TypeOK
    <3>3. limit' \in BOOLEAN
      BY <2>12 DEF RunCheckn, TypeOK
    <3> QED
      BY <2>1, <2>2, <2>3, <2>5, <2>12, <3>1, <3>2, <3>3 DEF RunCheckn, TypeOK
  <2> QED
    BY <1>15, <2>6, <2>7, <2>8, <2>9, <2>10, <2>11, <2>12 DEF Gpu
<1>16. CASE UNCHANGED vars
  BY <1>16 DEF TypeOK, Struck, Loops
<1> QED
  BY <1>1, <1>2, <1>3, <1>4, <1>5, <1>6, <1>7, <1>8, <1>9, <1>10, <1>11, <1>12, <1>13, <1>14,
     <1>15, <1>16 DEF Next, Host, Over

\* Every variable keeps its type, for every number of K and every size: in
\* particular the OK and OKOK tables are never made of two K, whatever errors
\* of the driver the waits swallow.
THEOREM GpuTypeCorrect == Spec => []TypeOK
<1>1. Spec => [](TypeOK /\ Struck /\ Loops)
  BY InitTypes, NextTypes, PTL DEF Spec
<1> QED
  BY <1>1, PTL

\* No event is waited on before it was recorded or after it was destroyed, and
\* none is overwritten while it lives, wherever the loops over SHIFT, the two
\* tables and the launches fall in the count of three.
THEOREM EventsAlwaysSound == Spec => []EventsSound
<1>1. Spec => [](TypeOK /\ Struck /\ Loops)
  BY InitTypes, NextTypes, PTL DEF Spec
<1>2. TypeOK /\ Loops => EventsSound
  BY Sizes DEF TypeOK, Loops, EventsSound
<1> QED
  BY <1>1, <1>2, PTL
-----------------------------------------------------------------------------
\* The sieve kernels in the queue q, with n launches since the last wait, stand
\* at five slots at most: two, a and b, from before the wait, and those of the n
\* launches after it.  The first of these carries the event and stands behind
\* a and b.  A slot below 1 is that of a kernel that has run.
Window(q, n, a, b, c, d, e) ==
  /\ \A i \in 1..Len(q) : q[i].kernel = "sieve" =>
       i = a \/ i = b \/ (n >= 1 /\ i = c) \/ (n >= 2 /\ i = d) \/ (n >= 3 /\ i = e)
  /\ a <= Len(q) /\ b <= Len(q) /\ c <= Len(q) /\ d <= Len(q) /\ e <= Len(q)
  /\ n >= 1 => a < c /\ b < c
  /\ n >= 1 /\ c >= 1 => q[c].kernel = "sieve" /\ q[c].event

Slots(q, n) == \E a, b, c, d, e \in Int : Window(q, n, a, b, c, d, e)

Windowed ==
  /\ ~driverFailed => Slots(queue, iter)
  /\ hpc = "profile" => Pending("sieve") = {}

LEMMA OneMore ==
  ASSUME NEW T, NEW x, IsFiniteSet(T)
  PROVE  /\ IsFiniteSet(T \cup {x}) /\ Cardinality(T \cup {x}) <= Cardinality(T) + 1
         /\ Cardinality(T) \in Nat /\ Cardinality(T \cup {x}) \in Nat
<1>1. IsFiniteSet(T \cup {x})
      /\ (Cardinality(T \cup {x}) = Cardinality(T) \/ Cardinality(T \cup {x}) = Cardinality(T) + 1)
  BY FS_AddElement
<1>2. Cardinality(T) \in Nat
  BY FS_CardinalityType
<1> QED
  BY <1>1, <1>2

LEMMA FiveSlots ==
  ASSUME NEW a, NEW b, NEW c, NEW d, NEW e, NEW S, S \subseteq {a, b, c, d, e}
  PROVE  Cardinality(S) <= 5
<1>1. IsFiniteSet({}) /\ Cardinality({}) = 0
  BY FS_EmptySet
<1> DEFINE A1 == {} \cup {a}
<1> DEFINE A2 == A1 \cup {b}
<1> DEFINE A3 == A2 \cup {c}
<1> DEFINE A4 == A3 \cup {d}
<1> DEFINE A5 == A4 \cup {e}
<1>2. S \subseteq A5
  OBVIOUS
<1>3. IsFiniteSet(A1) /\ Cardinality(A1) \in Nat /\ Cardinality(A1) <= 1
  <2>1. Cardinality(A1) <= Cardinality({}) + 1 /\ IsFiniteSet(A1) /\ Cardinality(A1) \in Nat
    BY <1>1, OneMore
  <2> QED
    BY <1>1, <2>1
<1> HIDE DEF A1
<1>4. IsFiniteSet(A2) /\ Cardinality(A2) \in Nat /\ Cardinality(A2) <= Cardinality(A1) + 1
  BY <1>3, OneMore
<1> HIDE DEF A2
<1>5. IsFiniteSet(A3) /\ Cardinality(A3) \in Nat /\ Cardinality(A3) <= Cardinality(A2) + 1
  BY <1>4, OneMore
<1> HIDE DEF A3
<1>6. IsFiniteSet(A4) /\ Cardinality(A4) \in Nat /\ Cardinality(A4) <= Cardinality(A3) + 1
  BY <1>5, OneMore
<1> HIDE DEF A4
<1>7. IsFiniteSet(A5) /\ Cardinality(A5) \in Nat /\ Cardinality(A5) <= Cardinality(A4) + 1
  BY <1>6, OneMore
<1> HIDE DEF A5
<1>8. Cardinality(S) <= Cardinality(A5) /\ Cardinality(S) \in Nat
  BY <1>2, <1>7, FS_Subset, FS_CardinalityType
<1> QED
  BY <1>3, <1>4, <1>5, <1>6, <1>7, <1>8

\* A kernel leaves the queue: every slot moves up by one.
LEMMA WindowTail ==
  ASSUME TypeOK, queue # << >>, NEW n \in 0..3, Slots(queue, n)
  PROVE  Slots(Tail(queue), n)
<1>1. PICK a, b, c, d, e \in Int : Window(queue, n, a, b, c, d, e)
  BY DEF Slots
<1>2. /\ Len(queue) \in Nat /\ Len(queue) > 0 /\ Len(Tail(queue)) = Len(queue) - 1
      /\ \A i \in 1..(Len(queue) - 1) : Tail(queue)[i] = queue[i + 1]
  BY RunQueue
<1>3. \A i \in 1..(Len(queue) - 1) : i + 1 \in 1..Len(queue)
  BY <1>2
<1>4. \A i \in 1..Len(Tail(queue)) : Tail(queue)[i].kernel = "sieve" =>
        \/ i = a - 1 \/ i = b - 1 \/ (n >= 1 /\ i = c - 1) \/ (n >= 2 /\ i = d - 1)
        \/ (n >= 3 /\ i = e - 1)
  <2> SUFFICES ASSUME NEW i \in 1..(Len(queue) - 1), queue[i + 1].kernel = "sieve"
               PROVE  \/ i = a - 1 \/ i = b - 1 \/ (n >= 1 /\ i = c - 1)
                      \/ (n >= 2 /\ i = d - 1) \/ (n >= 3 /\ i = e - 1)
    BY <1>2
  <2>1. \/ i + 1 = a \/ i + 1 = b \/ (n >= 1 /\ i + 1 = c)
        \/ (n >= 2 /\ i + 1 = d) \/ (n >= 3 /\ i + 1 = e)
    BY <1>1, <1>3 DEF Window
  <2> QED
    BY <2>1
<1>5. n >= 1 /\ c - 1 >= 1 => Tail(queue)[c - 1].kernel = "sieve" /\ Tail(queue)[c - 1].event
  <2> SUFFICES ASSUME n >= 1, c - 1 >= 1
               PROVE  Tail(queue)[c - 1].kernel = "sieve" /\ Tail(queue)[c - 1].event
    OBVIOUS
  <2>1. c - 1 \in 1..(Len(queue) - 1) /\ c >= 1 /\ (c - 1) + 1 = c
    BY <1>1, <1>2 DEF Window
  <2>2. Tail(queue)[c - 1] = queue[c]
    BY <1>2, <2>1
  <2>3. queue[c].kernel = "sieve" /\ queue[c].event
    BY <1>1, <2>1 DEF Window
  <2> QED
    BY <2>2, <2>3
<1>6. Window(Tail(queue), n, a - 1, b - 1, c - 1, d - 1, e - 1)
  BY <1>1, <1>2, <1>4, <1>5 DEF Window
<1> QED
  BY <1>6 DEF Slots

LEMMA InitWindowed == Init => Windowed
<1> SUFFICES ASSUME Init PROVE Windowed
  OBVIOUS
<1>1. Len(queue) = 0 /\ iter = 0 /\ hpc # "profile"
  BY DEF Init
<1>2. Window(queue, iter, 0, 0, 0, 0, 0)
  BY <1>1 DEF Window
<1> QED
  BY <1>1, <1>2 DEF Windowed, Slots

\* A queue without a sieve kernel.
LEMMA WindowEmpty ==
  ASSUME NEW q, Len(q) \in Nat, \A i \in 1..Len(q) : q[i].kernel # "sieve"
  PROVE  Slots(q, 0)
<1>1. Window(q, 0, 0, 0, 0, 0, 0)
  BY DEF Window
<1> QED
  BY <1>1 DEF Slots

LEMMA NextWindowed ==
  TypeOK /\ Loops /\ Windowed /\ [Next]_vars => Windowed'
<1> SUFFICES ASSUME TypeOK, Loops, Windowed, [Next]_vars PROVE Windowed'
  OBVIOUS
<1> USE DEF vars, loop, sizes, result, device
<1>0. Len(queue) \in Nat /\ iter \in 0..3 /\ p \in Nat /\ global_size \in Nat
  BY Sizes, LenProperties DEF TypeOK
<1>1. CASE Setup
  <2>1. Len(queue') = 3 /\ queue'[1] = Setupn /\ queue'[2] = Clearok /\ queue'[3] = Setupok
    BY <1>1, Queued
  <2>2. \A i \in 1..Len(queue') : queue'[i].kernel # "sieve"
    BY <2>1 DEF Setupn, Clearok, Setupok
  <2>3. Slots(queue', 0)
    BY <2>1, <2>2, WindowEmpty
  <2>4. iter' = 0
    BY <1>1 DEF Setup
  <2> QED
    BY <2>2, <2>3, <2>4 DEF Windowed, Pending
<1>2. CASE ProfileLaunch
  <2>5. /\ Len(queue') = Len(queue) + 3
        /\ \A i \in 1..Len(queue) : queue'[i] = queue[i]
        /\ queue'[Len(queue) + 1] = Setupokok(SHIFT) /\ queue'[Len(queue) + 2] = Clearn
    BY <1>2, Queued
  <2>6. \A i \in 1..Len(queue) : queue[i].kernel # "sieve"
    BY <1>2 DEF ProfileLaunch, Windowed, Pending
  <2>7. \A i \in 1..Len(queue') : queue'[i].kernel = "sieve" => i = Len(queue) + 3
    BY <1>0, <2>5, <2>6 DEF Setupokok, Clearn
  <2>8. iter' = 0 /\ hpc' # "profile"
    BY <1>2 DEF ProfileLaunch, Loops
  <2>9. Window(queue', 0, Len(queue) + 3, 0, 0, 0, 0)
    BY <1>0, <2>5, <2>7 DEF Window
  <2>10. Slots(queue', iter')
    BY <1>0, <2>8, <2>9 DEF Slots
  <2> QED
    BY <2>8, <2>10 DEF Windowed
<1>3. CASE NewShift
  <2>3. /\ Len(queue') = Len(queue) + 1
        /\ \A i \in 1..Len(queue) : queue'[i] = queue[i]
        /\ queue'[Len(queue) + 1] = Setupokok(SHIFT)
    BY <1>3, Queued
  <2>4. iter' = iter /\ hpc' # "profile" /\ driverFailed' = driverFailed
    BY <1>3 DEF NewShift
  <2>5. ASSUME ~driverFailed PROVE Slots(queue', iter)
    <3>1. PICK a, b, c, d, e \in Int : Window(queue, iter, a, b, c, d, e)
      BY <2>5 DEF Windowed, Slots
    <3>2. \A i \in 1..Len(queue') : queue'[i].kernel = "sieve" =>
            i \in 1..Len(queue) /\ queue[i].kernel = "sieve"
      BY <1>0, <2>3 DEF Setupokok
    <3>3. c >= 1 => c \in 1..Len(queue)
      BY <1>0, <3>1 DEF Window
    <3>4. Window(queue', iter, a, b, c, d, e)
      BY <1>0, <2>3, <3>1, <3>2, <3>3 DEF Window
    <3> QED
      BY <3>4 DEF Slots
  <2> QED
    BY <2>4, <2>5 DEF Windowed
<1>4. CASE Launch
  <2> DEFINE first3 == iter = 0
  <2>1. iter \in 0..2
    BY <1>0, <1>4 DEF Launch
  <2>3. /\ Len(queue') = Len(queue) + 3
        /\ \A i \in 1..Len(queue) : queue'[i] = queue[i]
        /\ queue'[Len(queue) + 1] = Clearn /\ queue'[Len(queue) + 3] = Checkn
        /\ queue'[Len(queue) + 2] = Sieve(SHIFT, devicearray, p, global_size, first3)
    BY <1>4, Queued
  <2>4. /\ queue'[Len(queue) + 2].kernel = "sieve"
        /\ queue'[Len(queue) + 2].event = first3
    BY <2>3 DEF Sieve
  <2>5. \A i \in 1..Len(queue') : queue'[i].kernel = "sieve" =>
          i = Len(queue) + 2 \/ (i \in 1..Len(queue) /\ queue[i].kernel = "sieve")
    BY <1>0, <2>3 DEF Clearn, Checkn
  <2>6. iter' = iter + 1 /\ hpc' # "profile" /\ driverFailed' = driverFailed
    BY <1>4 DEF Launch, AdvanceLoops
  <2>7. ASSUME ~driverFailed PROVE Slots(queue', iter')
    <3>1. PICK a, b, c, d, e \in Int : Window(queue, iter, a, b, c, d, e)
      BY <2>7 DEF Windowed, Slots
    <3>2. c >= 1 => c \in 1..Len(queue)
      BY <1>0, <3>1 DEF Window
    <3>3. Len(queue) + 2 \in Int
      BY <1>0
    <3>4. CASE iter = 0
      <4>1. queue'[Len(queue) + 2].event
        BY <2>4, <3>4
      <4>2. Window(queue', 1, a, b, Len(queue) + 2, d, e)
        BY <1>0, <2>3, <2>4, <2>5, <3>1, <3>4, <4>1 DEF Window
      <4> QED
        BY <2>6, <3>3, <3>4, <4>2 DEF Slots
    <3>5. CASE iter = 1
      <4>1. Window(queue', 2, a, b, c, Len(queue) + 2, e)
        BY <1>0, <2>3, <2>5, <3>1, <3>2, <3>5 DEF Window
      <4> QED
        BY <2>6, <3>3, <3>5, <4>1 DEF Slots
    <3>6. CASE iter = 2
      <4>1. Window(queue', 3, a, b, c, d, Len(queue) + 2)
        BY <1>0, <2>3, <2>5, <3>1, <3>2, <3>6 DEF Window
      <4> QED
        BY <2>6, <3>3, <3>6, <4>1 DEF Slots
    <3> QED
      BY <2>1, <3>4, <3>5, <3>6
  <2> QED
    BY <2>6, <2>7 DEF Windowed
<1>5. CASE Wait
  <2>1. /\ queue' = queue /\ iter = 3 /\ iter' = 0 /\ hpc' = "launch" /\ driverFailed' = driverFailed
        /\ \A i \in 1..Len(queue) : queue[i].kernel = "sieve" => ~queue[i].event
    BY <1>5 DEF Wait, EventDone, Pending
  <2>2. ASSUME ~driverFailed PROVE Slots(queue', 0)
    <3>1. PICK a, b, c, d, e \in Int : Window(queue, 3, a, b, c, d, e)
      BY <2>1, <2>2 DEF Windowed, Slots
    <3>2. c < 1
      <4>1. SUFFICES ASSUME c >= 1 PROVE FALSE
        OBVIOUS
      <4>2. c \in 1..Len(queue) /\ queue[c].kernel = "sieve" /\ queue[c].event
        BY <1>0, <3>1, <4>1 DEF Window
      <4> QED
        BY <2>1, <4>2
    <3>3. \A i \in 1..Len(queue) : queue[i].kernel = "sieve" => i = d \/ i = e
      BY <1>0, <3>1, <3>2 DEF Window
    <3>4. Window(queue, 0, d, e, 0, 0, 0)
      BY <1>0, <3>1, <3>3 DEF Window
    <3> QED
      BY <2>1, <3>4 DEF Slots
  <2> QED
    BY <2>1, <2>2 DEF Windowed
<1>6. CASE ProfileDone \/ WaitLast \/ Drain \/ Read \/ Report \/ Return \/ NextK
  <2>1. UNCHANGED <<queue, iter, driverFailed>> /\ (hpc' = "profile" => hpc = "profile")
    BY <1>6 DEF ProfileDone, WaitLast, Drain, Read, Report, Return, NextK
  <2> QED
    BY <2>1 DEF Windowed, Pending
<1>7. CASE QueryFails \/ Fails
  <2>1. driverFailed' /\ hpc' # "profile"
    BY <1>7 DEF QueryFails, Fails
  <2> QED
    BY <2>1 DEF Windowed
<1>8. CASE Gpu
  <2>1. /\ queue # << >> /\ queue' = Tail(queue) /\ UNCHANGED <<hpc, iter, driverFailed>>
    BY <1>8 DEF Gpu, RunSetupn, RunClearok, RunSetupok, RunSetupokok, RunClearn, RunSieve, RunCheckn, Run
  <2>2. ~driverFailed' => Slots(queue', iter')
    BY <1>0, <2>1, WindowTail DEF Windowed
  <2>3. ASSUME hpc' = "profile" PROVE Pending("sieve")' = {}
    <3>1. \A i \in 1..Len(queue) : queue[i].kernel # "sieve"
      BY <2>1, <2>3 DEF Windowed, Pending
    <3>2. \A i \in 1..Len(queue') : i + 1 \in 1..Len(queue) /\ queue'[i] = queue[i + 1]
      <4>1. /\ Len(queue) \in Nat /\ Len(Tail(queue)) = Len(queue) - 1
            /\ \A i \in 1..(Len(queue) - 1) : Tail(queue)[i] = queue[i + 1]
        BY <2>1, RunQueue
      <4>2. Len(queue') = Len(queue) - 1
            /\ \A i \in 1..(Len(queue) - 1) : queue'[i] = queue[i + 1]
        BY <2>1, <4>1
      <4>3. \A i \in 1..(Len(queue) - 1) : i + 1 \in 1..Len(queue)
        BY <4>1
      <4> QED
        BY <4>2, <4>3
    <3>3. \A i \in 1..Len(queue') : queue'[i].kernel # "sieve"
      BY <3>1, <3>2
    <3> QED
      BY <3>3 DEF Pending
  <2> QED
    BY <2>2, <2>3 DEF Windowed
<1>9. CASE UNCHANGED vars
  BY <1>9 DEF Windowed, Pending
<1> QED
  BY <1>1, <1>2, <1>3, <1>4, <1>5, <1>6, <1>7, <1>8, <1>9 DEF Next, Host, Over

\* As long as no query of an event fails, the host never has more than five
\* sieve launches in the queue, for every size and number of launches.
THEOREM QueueStaysBounded == Spec => []QueueBounded
<1>1. Spec => [](TypeOK /\ Struck /\ Loops /\ Windowed)
  BY InitTypes, NextTypes, InitWindowed, NextWindowed, PTL DEF Spec
<1>2. Windowed => QueueBounded
  <2> SUFFICES ASSUME Windowed, ~driverFailed PROVE Cardinality(Pending("sieve")) <= 5
    BY DEF QueueBounded
  <2>1. PICK a, b, c, d, e \in Int : Window(queue, iter, a, b, c, d, e)
    BY DEF Windowed, Slots
  <2>2. Pending("sieve") \subseteq {a, b, c, d, e}
    BY <2>1 DEF Pending, Window
  <2> QED
    BY <2>2, FiveSlots
<1> QED
  BY <1>1, <1>2, PTL
-----------------------------------------------------------------------------
Prep == {"setupn", "clearok", "setupok"}

\* The search of a K, from Setup on.
Within == hpc \notin {"setup", "exited"}

\* The first n kernels of the queue are those of Setup that have not run.
Prepared(n) ==
  /\ n <= Len(queue)
  /\ \A i \in 1..Len(queue) : queue[i].kernel \in Prep <=> i <= n
  /\ n = 3 => /\ queue[1].kernel = "setupn" /\ queue[1].K = K
              /\ queue[2].kernel = "clearok"
              /\ queue[3].kernel = "setupok" /\ queue[3].K = K
  /\ n = 2 => /\ queue[1].kernel = "clearok"
              /\ queue[2].kernel = "setupok" /\ queue[2].K = K /\ n59 = K
  /\ n = 1 => queue[1].kernel = "setupok" /\ queue[1].K = K /\ n59 = K /\ OK = 0
  /\ n = 0 => n59 = K /\ OK = K

\* The kernel at position i of the queue will find the OKOK tables of shift s.
Effective(i, s) ==
  \/ \E j \in 1..(i - 1) :
       /\ queue[j].kernel = "setupokok" /\ queue[j].shift = s
       /\ \A l \in (j + 1)..(i - 1) : queue[l].kernel # "setupokok"
  \/ /\ OKOK = [K |-> K, shift |-> s]
     /\ \A l \in 1..(i - 1) : queue[l].kernel # "setupokok"

\* What a launch of the loops finds.
Block(s, array, from) == At(K, s, array, Words(from, global_size))

SieveAt(i) ==
  /\ queue[i].K = K
  /\ IF i = 1 THEN n_result = << >> ELSE queue[i - 1].kernel = "clearn"
  /\ Effective(i, queue[i].shift)

\* A checkn stands behind the sieve kernel of the same launch.
CheckAt(i) ==
  IF i = 1
  THEN /\ IsInjective(n_result)
       /\ \E s \in Shifts, array \in Arrays, m \in 0..Units :
            ToSet(n_result) = Block(s, array, m * global_size)
  ELSE /\ queue[i - 1].kernel = "sieve" /\ queue[i - 1].size = global_size
       /\ \E m \in 0..Units : queue[i - 1].p = m * global_size

Pipeline ==
  /\ \E n \in 0..3 : Prepared(n)
  /\ \A i \in 1..Len(queue) : queue[i].kernel = "sieve" => SieveAt(i)
  /\ \A i \in 1..Len(queue) : queue[i].kernel = "checkn" => CheckAt(i)

\* Where the loops are.
Looping ==
  /\ hpc = "launch" => Effective(Len(queue) + 1, SHIFT)
  /\ hpc = "launch" => \E m \in 0..Units : p = m * global_size
  /\ hpc \in {"profile", "profile_wait"} =>
       \A i \in 1..Len(queue) : queue[i].kernel # "checkn"
  /\ hpc \in {"drain", "read", "report", "returned"} => SHIFT = NShifts
  /\ hpc \in {"report", "returned"} => queue = << >>

\* The first launch of the program has sized the others.
Sized ==
  /\ hpc \notin {"setup", "profile", "exited"} => ~profile
  /\ ~profile => global_size > 0

Flow == Sized /\ (Within => Pipeline /\ Looping)
-----------------------------------------------------------------------------
LEMMA Multiples ==
  ASSUME NEW m \in Nat, NEW g \in Nat, g > 0
  PROVE  m * g \in Nat /\ m * g >= m /\ (m + 1) * g = m * g + g /\ 0 * g = 0
OBVIOUS

LEMMA GlobalSizePositive ==
  ASSUME NEW n \in Nat
  PROVE  GlobalSize(n) > 0
<1>1. local_size \in Nat /\ local_size > 0
  BY GpuSearchAssumption
<1>2. n \div local_size \in Nat
  <2>1. n = local_size * (n \div local_size) + (n % local_size)
        /\ n % local_size \in 0..(local_size - 1) /\ n \div local_size \in Int
    BY <1>1
  <2> QED
    BY <1>1, <2>1
<1>3. (n \div local_size) * local_size \in Nat
  BY <1>1, <1>2
<1> QED
  BY <1>1, <1>3 DEF GlobalSize

\* A sequence that lists a set.
LEMMA Lists ==
  ASSUME NEW S, IsFiniteSet(S), NEW f \in SetToSeqs(S)
  PROVE  f \in Seq(S) /\ IsInjective(f) /\ ToSet(f) = S
<1>1. Cardinality(S) \in Nat
  BY FS_CardinalityType
<1> DEFINE n == Cardinality(S)
<1>2. f \in [1..n -> S] /\ \A i, j \in 1..n : i # j => f[i] # f[j]
  BY DEF SetToSeqs
<1>3. f \in Seq(S)
  BY <1>1, <1>2, SeqOfFunction
<1>4. IsInjective(f)
  BY <1>2 DEF IsInjective
<1>5. f \in Injection(1..n, S)
  BY <1>2, <1>4 DEF Injection
<1>6. IsFiniteSet(1..n) /\ Cardinality(1..n) = n
  <2>1. IsFiniteSet(1..n) /\ Cardinality(1..n) = IF 1 > n THEN 0 ELSE n - 1 + 1
    BY <1>1, FS_Interval
  <2> QED
    BY <1>1, <2>1
<1>7. f \in Surjection(1..n, S)
  BY <1>5, <1>6, FS_Injection
<1>8. ToSet(f) = S
  BY <1>2, <1>7 DEF ToSet, Surjection
<1> QED
  BY <1>3, <1>4, <1>8
-----------------------------------------------------------------------------
LEMMA GpuStep ==
  ASSUME TypeOK, Gpu
  PROVE  /\ Len(queue) \in Nat /\ Len(queue) > 0 /\ Len(queue') = Len(queue) - 1
         /\ \A i \in 1..Len(queue') : queue'[i] = queue[i + 1] /\ i + 1 \in 1..Len(queue)
         /\ Head(queue) = queue[1] /\ queue[1] \in Kernels
         /\ UNCHANGED <<hpc, K, profile, global_size, numn, SHIFT, devicearray, p, iter,
                        launchEvent, reported, totalaps, first>>
<1>1. queue # << >> /\ queue' = Tail(queue)
      /\ UNCHANGED <<hpc, K, sizes, loop, result, first, driverFailed>>
  BY DEF Gpu, RunSetupn, RunClearok, RunSetupok, RunSetupokok, RunClearn, RunSieve, RunCheckn, Run
<1>2. /\ Head(queue) \in Kernels /\ Head(queue) = queue[1]
      /\ Len(queue) \in Nat /\ Len(queue) > 0 /\ Len(queue') = Len(queue) - 1
      /\ \A i \in 1..(Len(queue) - 1) : queue'[i] = queue[i + 1]
  BY <1>1, RunQueue
<1>3. \A i \in 1..Len(queue') : queue'[i] = queue[i + 1] /\ i + 1 \in 1..Len(queue)
  BY <1>2
<1> QED
  BY <1>1, <1>2, <1>3 DEF sizes, loop, result

\* What the kernel at the head of the queue does to the device.
LEMMA Effects ==
  ASSUME TypeOK, Gpu
  PROVE  LET kernel == queue[1].kernel
         IN  /\ n59' = IF kernel = "setupn" THEN queue[1].K ELSE n59
             /\ kernel = "clearok" => OK' = 0 /\ largest' = 0 /\ sols' = << >> /\ limit' = FALSE
             /\ kernel = "setupok" => OK' = IF OK = 0 THEN queue[1].K ELSE Mixed
             /\ kernel \notin {"clearok", "setupok"} => OK' = OK
             /\ OKOK' = IF kernel = "setupokok" THEN [K |-> OK, shift |-> queue[1].shift] ELSE OKOK
             /\ kernel = "clearn" => n_result' = << >>
             /\ kernel = "sieve" => \E hits \in SetToSeqs(Sieved(queue[1])) : n_result' = n_result \o hits
             /\ kernel \notin {"clearn", "sieve"} => n_result' = n_result
             /\ kernel = "checkn" => RunCheckn
             /\ kernel \notin {"clearok", "checkn"} => UNCHANGED <<largest, sols, limit>>
<1> USE GpuStep
<1>1. CASE RunSetupn
  BY <1>1 DEF RunSetupn, Run, found
<1>2. CASE RunClearok
  BY <1>2 DEF RunClearok, Run
<1>3. CASE RunSetupok
  BY <1>3 DEF RunSetupok, Run, found
<1>4. CASE RunSetupokok
  BY <1>4 DEF RunSetupokok, Run, found
<1>5. CASE RunClearn
  BY <1>5 DEF RunClearn, Run, tables
<1>6. CASE RunSieve
  BY <1>6 DEF RunSieve, Run, tables
<1>7. CASE RunCheckn
  BY <1>7 DEF RunCheckn, Run, tables
<1> QED
  BY <1>1, <1>2, <1>3, <1>4, <1>5, <1>6, <1>7 DEF Gpu

\* The kernels of Setup run one by one, and none comes back.
LEMMA PreparedTail ==
  ASSUME TypeOK, Gpu, NEW n \in 0..3, Prepared(n)
  PROVE  (n = 0 => Prepared(0)') /\ (n > 0 => Prepared(n - 1)')
<1> USE GpuStep
<1>1. 1 \in 1..Len(queue)
  OBVIOUS
<1>2. queue[1].kernel \in Prep <=> 1 <= n
  BY <1>1 DEF Prepared
<1>3. ASSUME n = 0 PROVE Prepared(0)'
  <2>1. queue[1].kernel \notin Prep
    BY <1>2, <1>3
  <2>2. n59' = n59 /\ OK' = OK
    BY <2>1, Effects DEF Prep
  <2>3. \A i \in 1..Len(queue') : queue'[i].kernel \notin Prep
    BY <1>3 DEF Prepared
  <2> QED
    BY <1>3, <2>2, <2>3 DEF Prepared
<1>4. ASSUME n > 0
      PROVE  n - 1 <= Len(queue') /\ \A i \in 1..Len(queue') : queue'[i].kernel \in Prep <=> i <= n - 1
  BY <1>4 DEF Prepared
<1>5. ASSUME n = 1 PROVE Prepared(0)'
  <2>1. queue[1].kernel = "setupok" /\ queue[1].K = K /\ n59 = K /\ OK = 0
    BY <1>5 DEF Prepared
  <2>2. n59' = K' /\ OK' = K'
    BY <2>1, Effects
  <2> QED
    BY <1>4, <1>5, <2>2 DEF Prepared
<1>6. ASSUME n = 2 PROVE Prepared(1)'
  <2>1. /\ queue[1].kernel = "clearok" /\ n59 = K
        /\ queue[2].kernel = "setupok" /\ queue[2].K = K /\ 2 <= Len(queue)
    BY <1>6 DEF Prepared
  <2>2. n59' = K' /\ OK' = 0
    BY <2>1, Effects
  <2>3. queue'[1] = queue[2]
    BY <2>1
  <2> QED
    BY <1>4, <1>6, <2>1, <2>2, <2>3 DEF Prepared
<1>7. ASSUME n = 3 PROVE Prepared(2)'
  <2>1. /\ queue[1].kernel = "setupn" /\ queue[1].K = K
        /\ queue[2].kernel = "clearok"
        /\ queue[3].kernel = "setupok" /\ queue[3].K = K /\ 3 <= Len(queue)
    BY <1>7 DEF Prepared
  <2>2. n59' = K'
    BY <2>1, Effects
  <2>3. queue'[1] = queue[2] /\ queue'[2] = queue[3]
    BY <2>1
  <2> QED
    BY <1>4, <1>7, <2>1, <2>2, <2>3 DEF Prepared
<1> QED
  BY <1>3, <1>5, <1>6, <1>7

\* The head of the queue is a kernel of Setup as long as any of these is left.
LEMMA PreparedHead ==
  ASSUME TypeOK, Gpu, Pipeline, queue[1].kernel \notin Prep
  PROVE  Prepared(0) /\ n59 = K /\ OK = K
<1>1. PICK n \in 0..3 : Prepared(n)
  BY DEF Pipeline
<1>2. 1 \in 1..Len(queue)
  BY GpuStep
<1>3. n = 0
  BY <1>1, <1>2 DEF Prepared
<1> QED
  BY <1>1, <1>3 DEF Prepared

LEMMA EffectiveTail ==
  ASSUME TypeOK, Gpu, Pipeline, NEW i \in 1..Len(queue), NEW s, Effective(i + 1, s)
  PROVE  Effective(i, s)'
<1> USE GpuStep
<1>1. ASSUME NEW j \in 1..i, queue[j].kernel = "setupokok", queue[j].shift = s,
             \A l \in (j + 1)..i : queue[l].kernel # "setupokok"
      PROVE  Effective(i, s)'
  <2>1. \A l \in 1..(i - 1) : l \in 1..Len(queue') /\ queue'[l] = queue[l + 1]
    OBVIOUS
  <2>2. CASE j = 1
    <3>1. OK = K
      BY <1>1, <2>2, PreparedHead DEF Prep
    <3>2. OKOK' = [K |-> K', shift |-> s]
      BY <1>1, <2>2, <3>1, Effects
    <3>3. \A l \in 1..(i - 1) : queue'[l].kernel # "setupokok"
      BY <1>1, <2>1, <2>2
    <3> QED
      BY <3>2, <3>3 DEF Effective
  <2>3. CASE j > 1
    <3>1. j - 1 \in 1..(i - 1) /\ queue'[j - 1] = queue[j]
      BY <2>1, <2>3
    <3>2. \A l \in ((j - 1) + 1)..(i - 1) : queue'[l].kernel # "setupokok"
      BY <1>1, <2>1, <2>3
    <3> QED
      BY <1>1, <3>1, <3>2 DEF Effective
  <2> QED
    BY <2>2, <2>3
<1>2. ASSUME OKOK = [K |-> K, shift |-> s], \A l \in 1..i : queue[l].kernel # "setupokok"
      PROVE  Effective(i, s)'
  <2>1. queue[1].kernel # "setupokok"
    BY <1>2
  <2>2. OKOK' = [K |-> K', shift |-> s]
    BY <1>2, <2>1, Effects
  <2>3. \A l \in 1..(i - 1) : queue'[l].kernel # "setupokok"
    BY <1>2
  <2> QED
    BY <2>2, <2>3 DEF Effective
<1>3. (i + 1) - 1 = i
  OBVIOUS
<1> QED
  BY <1>1, <1>2, <1>3 DEF Effective

\* The sieve kernel at the head finds what there is at its words, if it was
\* launched with the size of the loops.
LEMMA SieveRuns ==
  ASSUME TypeOK, Gpu, Pipeline, queue[1].kernel = "sieve", queue[1].size = global_size
  PROVE  /\ IsInjective(n_result')
         /\ ToSet(n_result') = Block(queue[1].shift, queue[1].array, queue[1].p)
<1> DEFINE cmd == queue[1]
<1>1. 1 \in 1..Len(queue)
  BY GpuStep
<1>2. SieveAt(1)
  BY <1>1 DEF Pipeline
<1>3. cmd.K = K /\ n_result = << >> /\ OKOK = [K |-> K, shift |-> cmd.shift]
  BY <1>2 DEF SieveAt, Effective
<1>4. n59 = K
  BY PreparedHead DEF Prep
<1>5. Sieved(cmd) = Block(cmd.shift, cmd.array, cmd.p)
  BY <1>3, <1>4 DEF Sieved, Block, At
<1>6. PICK hits \in SetToSeqs(Sieved(cmd)) : n_result' = n_result \o hits
  BY Effects
<1>7. IsFiniteSet(Sieved(cmd))
  <2>1. Sieved(cmd) \subseteq Cands
    BY <1>5 DEF Block, At
  <2> QED
    BY <2>1, GpuSearchAssumption, FS_Subset
<1>8. hits \in Seq(Sieved(cmd)) /\ IsInjective(hits) /\ ToSet(hits) = Sieved(cmd)
  BY <1>7, Lists
<1>9. n_result' = hits
  <2>1. << >> \o hits = hits
    BY <1>8, ConcatEmptySeq
  <2> QED
    BY <1>3, <1>6, <2>1
<1> QED
  BY <1>5, <1>8, <1>9

LEMMA PipelineTail ==
  ASSUME TypeOK, Gpu, Pipeline
  PROVE  Pipeline'
<1> USE GpuStep
<1>1. \E n \in 0..3 : Prepared(n)'
  <2>1. PICK n \in 0..3 : Prepared(n)
    BY DEF Pipeline
  <2>2. CASE n = 0
    BY <2>1, <2>2, PreparedTail
  <2>3. CASE n > 0
    <3>1. n - 1 \in 0..3
      BY <2>3
    <3>2. Prepared(n - 1)'
      BY <2>1, <2>3, PreparedTail
    <3> QED
      BY <3>1, <3>2
  <2> QED
    BY <2>2, <2>3
<1>2. ASSUME NEW i \in 1..Len(queue'), queue'[i].kernel = "sieve" PROVE SieveAt(i)'
  <2>1. i + 1 \in 1..Len(queue) /\ queue'[i] = queue[i + 1] /\ i \in 1..Len(queue)
    OBVIOUS
  <2>2. SieveAt(i + 1)
    BY <1>2, <2>1 DEF Pipeline
  <2>3. queue'[i].K = K' /\ queue[i].kernel = "clearn" /\ Effective(i + 1, queue'[i].shift)
    BY <2>1, <2>2 DEF SieveAt
  <2>4. Effective(i, queue[i].shift)'
    <3>1. \A s : Effective(i + 1, s) => Effective(i, s)'
      BY <2>1, EffectiveTail
    <3> QED
      BY <2>3, <3>1
  <2>5. CASE i = 1
    <3>1. n_result' = << >>
      BY <2>3, <2>5, Effects
    <3> QED
      BY <2>3, <2>4, <2>5, <3>1 DEF SieveAt
  <2>6. CASE i > 1
    <3>1. queue'[i - 1] = queue[i]
      BY <2>1, <2>6
    <3> QED
      BY <2>3, <2>4, <2>6, <3>1 DEF SieveAt
  <2> QED
    BY <2>5, <2>6
<1>3. ASSUME NEW i \in 1..Len(queue'), queue'[i].kernel = "checkn" PROVE CheckAt(i)'
  <2>1. i + 1 \in 1..Len(queue) /\ queue'[i] = queue[i + 1] /\ i \in 1..Len(queue)
    OBVIOUS
  <2>2. CheckAt(i + 1)
    BY <1>3, <2>1 DEF Pipeline
  <2>3. /\ queue[i].kernel = "sieve" /\ queue[i].size = global_size
        /\ \E m \in 0..Units : queue[i].p = m * global_size
    BY <2>1, <2>2 DEF CheckAt
  <2>4. CASE i = 1
    <3>1. /\ IsInjective(n_result')
          /\ ToSet(n_result') = Block(queue[1].shift, queue[1].array, queue[1].p)
      BY <2>3, <2>4, SieveRuns
    <3>2. queue[1].shift \in Shifts /\ queue[1].array \in Arrays
      BY <2>3, <2>4 DEF Kernels
    <3>3. \A s, array, from : Block(s, array, from)' = Block(s, array, from)
      BY DEF Block, At, Words
    <3> QED
      BY <2>3, <2>4, <3>1, <3>2, <3>3 DEF CheckAt
  <2>5. CASE i > 1
    <3>1. queue'[i - 1] = queue[i]
      BY <2>1, <2>5
    <3> QED
      BY <2>3, <2>5, <3>1 DEF CheckAt
  <2> QED
    BY <2>4, <2>5
<1> QED
  BY <1>1, <1>2, <1>3 DEF Pipeline
-----------------------------------------------------------------------------
\* The host puts kernels at the end of the queue.
Extends ==
  /\ Len(queue) \in Nat /\ Len(queue') \in Nat /\ Len(queue) <= Len(queue')
  /\ \A i \in 1..Len(queue) : queue'[i] = queue[i]
  /\ \A i \in 1..Len(queue') : i > Len(queue) => queue'[i].kernel \notin Prep
  /\ UNCHANGED <<K, device>>

LEMMA EffectiveKept ==
  ASSUME Extends, NEW i \in 1..(Len(queue) + 1), NEW k \in i..(Len(queue') + 1), NEW s,
         Effective(i, s), \A l \in i..(k - 1) : queue'[l].kernel # "setupokok"
  PROVE  Effective(k, s)'
<1>1. \A l \in 1..(i - 1) : queue'[l] = queue[l]
  BY DEF Extends
<1>2. \A l \in 1..(k - 1) : l \in 1..(i - 1) \/ l \in i..(k - 1)
  BY DEF Extends
<1>3. K' = K /\ OKOK' = OKOK
  BY DEF Extends, device, tables
<1>4. ASSUME NEW j \in 1..(i - 1), queue[j].kernel = "setupokok", queue[j].shift = s,
             \A l \in (j + 1)..(i - 1) : queue[l].kernel # "setupokok"
      PROVE  Effective(k, s)'
  <2>1. j \in 1..(k - 1) /\ queue'[j] = queue[j]
    BY <1>1 DEF Extends
  <2>2. ASSUME NEW l \in (j + 1)..(k - 1) PROVE queue'[l].kernel # "setupokok"
    <3>1. l \in (j + 1)..(i - 1) \/ l \in i..(k - 1)
      BY DEF Extends
    <3> QED
      BY <1>1, <1>4, <3>1
  <2> QED
    BY <1>4, <2>1, <2>2 DEF Effective
<1>5. ASSUME OKOK = [K |-> K, shift |-> s], \A l \in 1..(i - 1) : queue[l].kernel # "setupokok"
      PROVE  Effective(k, s)'
  <2>1. \A l \in 1..(k - 1) : queue'[l].kernel # "setupokok"
    BY <1>1, <1>2, <1>5
  <2> QED
    BY <1>3, <1>5, <2>1 DEF Effective
<1> QED
  BY <1>4, <1>5 DEF Effective

LEMMA PipelineKept ==
  ASSUME Extends, Pipeline,
         global_size' = global_size \/ \A i \in 1..Len(queue) : queue[i].kernel # "checkn",
         \A i \in 1..Len(queue') : i > Len(queue) /\ queue'[i].kernel = "sieve" => SieveAt(i)',
         \A i \in 1..Len(queue') : i > Len(queue) /\ queue'[i].kernel = "checkn" => CheckAt(i)'
  PROVE  Pipeline'
<1> USE DEF device, tables, found
<1>1. \E n \in 0..3 : Prepared(n)'
  <2>1. PICK n \in 0..3 : Prepared(n)
    BY DEF Pipeline
  <2>2. n <= Len(queue') /\ \A i \in 1..Len(queue') : queue'[i].kernel \in Prep <=> i <= n
    BY <2>1 DEF Prepared, Extends
  <2>3. \A i \in 1..n : queue'[i] = queue[i]
    BY <2>1 DEF Prepared, Extends
  <2>4. K' = K /\ n59' = n59 /\ OK' = OK
    BY DEF Extends
  <2>5. Prepared(n)'
    <3>1. CASE n = 0
      BY <2>1, <2>2, <2>4, <3>1 DEF Prepared
    <3>2. CASE n = 1
      BY <2>1, <2>2, <2>3, <2>4, <3>2 DEF Prepared
    <3>3. CASE n = 2
      BY <2>1, <2>2, <2>3, <2>4, <3>3 DEF Prepared
    <3>4. CASE n = 3
      BY <2>1, <2>2, <2>3, <2>4, <3>4 DEF Prepared
    <3> QED
      BY <3>1, <3>2, <3>3, <3>4
  <2> QED
    BY <2>5
<1>2. ASSUME NEW i \in 1..Len(queue'), queue'[i].kernel = "sieve" PROVE SieveAt(i)'
  <2>1. CASE i \in 1..Len(queue)
    <3>1. queue'[i] = queue[i] /\ SieveAt(i) /\ n_result' = n_result /\ K' = K
      BY <1>2, <2>1 DEF Extends, Pipeline
    <3>2. i > 1 => queue'[i - 1] = queue[i - 1]
      BY <2>1 DEF Extends
    <3>3. Effective(i, queue[i].shift)'
      <4>1. \A s : Effective(i, s) => Effective(i, s)'
        <5> TAKE s
        <5>1. i \in 1..(Len(queue) + 1) /\ i \in i..(Len(queue') + 1)
          BY <2>1 DEF Extends
        <5>2. \A l \in i..(i - 1) : queue'[l].kernel # "setupokok"
          BY <2>1
        <5> QED
          BY <5>1, <5>2, EffectiveKept
      <4> QED
        BY <3>1, <4>1 DEF SieveAt
    <3> QED
      BY <2>1, <3>1, <3>2, <3>3 DEF SieveAt
  <2>2. CASE i > Len(queue)
    BY <1>2, <2>2
  <2> QED
    BY <2>1, <2>2 DEF Extends
<1>3. ASSUME NEW i \in 1..Len(queue'), queue'[i].kernel = "checkn" PROVE CheckAt(i)'
  <2>1. CASE i \in 1..Len(queue)
    <3>1. queue'[i] = queue[i] /\ n_result' = n_result /\ K' = K
      BY <2>1 DEF Extends
    <3>2. CheckAt(i) /\ global_size' = global_size
      BY <1>3, <2>1, <3>1 DEF Pipeline
    <3>3. i > 1 => queue'[i - 1] = queue[i - 1]
      BY <2>1 DEF Extends
    <3>4. \A s, array, from : Block(s, array, from)' = Block(s, array, from)
      BY <3>1, <3>2 DEF Block, At, Words
    <3> QED
      BY <2>1, <3>1, <3>2, <3>3, <3>4 DEF CheckAt
  <2>2. CASE i > Len(queue)
    BY <1>3, <2>2
  <2> QED
    BY <2>1, <2>2 DEF Extends
<1> QED
  BY <1>1, <1>2, <1>3 DEF Pipeline

LEMMA InitFlow == Init => Flow
BY DEF Init, Flow, Sized, Within

LEMMA NextFlow == TypeOK /\ Loops /\ Flow /\ [Next]_vars => Flow'
<1> SUFFICES ASSUME TypeOK, Loops, Flow, [Next]_vars PROVE Flow'
  OBVIOUS
<1> USE DEF vars, loop, sizes, result, device, tables, found
<1>0. /\ Len(queue) \in Nat /\ SHIFT \in Nat /\ p \in Nat /\ global_size \in Nat
      /\ Sized /\ (Within => Pipeline /\ Looping)
  BY Sizes, LenProperties DEF TypeOK, Flow
<1>1. CASE Setup
  <2>1. Len(queue') = 3 /\ queue'[1] = Setupn /\ queue'[2] = Clearok /\ queue'[3] = Setupok
    BY <1>1, Queued
  <2>2. /\ queue'[1].kernel = "setupn" /\ queue'[1].K = K
        /\ queue'[2].kernel = "clearok"
        /\ queue'[3].kernel = "setupok" /\ queue'[3].K = K
    BY <2>1 DEF Setupn, Clearok, Setupok
  <2>3. K' = K /\ hpc' \in {"profile", "shift"} /\ (hpc' = "shift" => ~profile)
    BY <1>1 DEF Setup
  <2>4. Prepared(3)'
    BY <2>1, <2>2, <2>3 DEF Prepared, Prep
  <2>5. \A i \in 1..Len(queue') : queue'[i].kernel \notin {"sieve", "checkn"}
    BY <2>1, <2>2
  <2>6. Pipeline'
    BY <2>4, <2>5 DEF Pipeline
  <2>7. Looping'
    BY <2>3, <2>5 DEF Looping
  <2>8. Sized'
    BY <1>0, <1>1, <2>3 DEF Setup, Sized
  <2> QED
    BY <2>6, <2>7, <2>8 DEF Flow
<1>2. CASE ProfileLaunch
  <2>1. Pipeline /\ Looping /\ SHIFT = 0 /\ \A i \in 1..Len(queue) : queue[i].kernel # "checkn"
    BY <1>0, <1>2 DEF ProfileLaunch, Within, Looping, Loops
  <2>0. PICK n \in Nat : n = Len(queue)
    BY <1>0
  <2>2. /\ Len(queue') = n + 3 /\ \A i \in 1..n : queue'[i] = queue[i]
        /\ queue'[n + 1].kernel = "setupokok" /\ queue'[n + 1].shift = SHIFT
        /\ queue'[n + 2].kernel = "clearn" /\ queue'[n + 3].kernel = "sieve"
        /\ queue'[n + 3].K = K /\ queue'[n + 3].shift = SHIFT
    BY <1>2, <2>0, Queued DEF Setupokok, Clearn
  <2>3. Extends
    <3>1. \A i \in 1..Len(queue') : i > n => i = n + 1 \/ i = n + 2 \/ i = n + 3
      BY <2>0, <2>2
    <3>2. \A i \in 1..Len(queue') : i > n => queue'[i].kernel \notin Prep
      BY <2>0, <2>2, <3>1 DEF Prep
    <3>3. UNCHANGED <<K, device>>
      BY <1>2 DEF ProfileLaunch
    <3> QED
      BY <2>0, <2>2, <3>2, <3>3 DEF Extends
  <2>4. SieveAt(n + 3)'
    <3>1. n + 1 \in 1..(n + 2) /\ \A l \in (n + 2)..(n + 2) : queue'[l].kernel # "setupokok"
      BY <2>0, <1>0, <2>2
    <3>2. Effective(n + 3, queue[n + 3].shift)'
      BY <2>0, <1>0, <2>2, <3>1 DEF Effective
    <3> QED
      BY <2>0, <1>0, <2>2, <2>3, <3>2 DEF SieveAt, Extends
  <2>5. \A i \in 1..Len(queue') : i > n /\ queue'[i].kernel = "sieve" => i = n + 3
    BY <2>0, <1>0, <2>2
  <2>6. \A i \in 1..Len(queue') : queue'[i].kernel # "checkn"
    BY <2>0, <1>0, <2>1, <2>2
  <2>7. Pipeline'
    BY <2>0, <2>1, <2>3, <2>4, <2>5, <2>6, PipelineKept
  <2>8. hpc' = "profile_wait"
    BY <1>2 DEF ProfileLaunch
  <2>9. Looping'
    BY <2>0, <2>6, <2>8 DEF Looping
  <2>10. Sized'
    <3>1. global_size' > 0 /\ ~profile'
      BY <1>2, GlobalSizePositive DEF ProfileLaunch
    <3> QED
      BY <3>1 DEF Sized
  <2> QED
    BY <2>0, <2>7, <2>9, <2>10 DEF Flow
<1>3. CASE ProfileDone
  <2>1. Pipeline /\ queue = << >> /\ hpc' = "shift" /\ ~profile'
    BY <1>0, <1>3 DEF ProfileDone, Within, Sized
  <2>2. Len(queue) = 0 /\ Extends
    BY <1>0, <1>3, <2>1 DEF ProfileDone, Extends
  <2>3. Pipeline'
    BY <1>3, <2>1, <2>2, PipelineKept DEF ProfileDone
  <2>4. global_size' > 0
    BY <1>3, Sizes, GlobalSizePositive DEF ProfileDone
  <2> QED
    BY <2>1, <2>3, <2>4 DEF Flow, Looping, Sized
<1>4. CASE NewShift
  <2>1. Pipeline /\ ~profile
    BY <1>0, <1>4 DEF NewShift, Within, Sized
  <2>0. PICK n \in Nat : n = Len(queue)
    BY <1>0
  <2>2. /\ Len(queue') = n + 1 /\ \A i \in 1..n : queue'[i] = queue[i]
        /\ queue'[n + 1].kernel = "setupokok" /\ queue'[n + 1].shift = SHIFT
    BY <1>4, <2>0, Queued DEF Setupokok
  <2>3. Extends
    BY <2>0, <1>4, <2>2 DEF Extends, NewShift, Prep
  <2>4. \A i \in 1..Len(queue') : i > n => queue'[i].kernel = "setupokok"
    BY <2>0, <1>0, <2>2
  <2>5. Pipeline'
    BY <2>0, <1>4, <2>1, <2>3, <2>4, PipelineKept DEF NewShift
  <2>6. Effective(Len(queue) + 1, SHIFT)'
    <3>1. n + 1 \in 1..((n + 2) - 1) /\ \A l \in (n + 2)..((n + 2) - 1) : queue'[l].kernel # "setupokok"
      BY <2>0, <1>0
    <3>2. SHIFT' = SHIFT /\ Len(queue') + 1 = n + 2
      BY <2>0, <1>0, <1>4, <2>2 DEF NewShift
    <3> QED
      BY <2>0, <2>2, <3>1, <3>2 DEF Effective
  <2>7. p' = 0 * global_size' /\ 0 \in 0..Units
    BY <2>0, <1>0, <1>4, Sizes DEF NewShift
  <2>8. Looping'
    BY <2>0, <1>4, <2>6, <2>7 DEF Looping, NewShift
  <2> QED
    BY <2>0, <1>0, <1>4, <2>1, <2>5, <2>8 DEF Flow, Sized, NewShift
<1>5. CASE Launch
  <2>1. /\ Pipeline /\ ~profile /\ global_size > 0 /\ Effective(Len(queue) + 1, SHIFT)
        /\ \E m \in 0..Units : p = m * global_size
    BY <1>0, <1>5 DEF Launch, Within, Sized, Looping
  <2>0. PICK n \in Nat : n = Len(queue)
    BY <1>0
  <2>2. /\ Len(queue') = n + 3 /\ \A i \in 1..n : queue'[i] = queue[i]
        /\ queue'[n + 1].kernel = "clearn"
        /\ queue'[n + 2].kernel = "sieve" /\ queue'[n + 2].K = K /\ queue'[n + 2].shift = SHIFT
        /\ queue'[n + 2].size = global_size /\ queue'[n + 2].p = p
        /\ queue'[n + 3].kernel = "checkn"
    BY <1>5, <2>0, Queued DEF Clearn, Sieve, Checkn
  <2>3. Extends /\ UNCHANGED <<K, global_size, profile>> /\ hpc' \in {"launch", "shift"}
    <3>1. \A i \in 1..Len(queue') : i > n => i = n + 1 \/ i = n + 2 \/ i = n + 3
      BY <2>0, <2>2
    <3>2. \A i \in 1..Len(queue') : i > n => queue'[i].kernel \notin Prep
      BY <2>0, <2>2, <3>1 DEF Prep
    <3> QED
      BY <1>5, <2>0, <2>2, <3>2 DEF Extends, Launch, AdvanceLoops
  <2>4. SieveAt(n + 2)'
    <3>1. \A s : Effective(n + 1, s) => Effective(n + 2, s)'
      <4> TAKE s
      <4>1. n + 1 \in 1..(n + 1) /\ n + 2 \in (n + 1)..(Len(queue') + 1)
        BY <2>0, <1>0, <2>2
      <4>2. \A l \in (n + 1)..((n + 2) - 1) : queue'[l].kernel # "setupokok"
        BY <2>0, <1>0, <2>2
      <4> QED
        BY <2>0, <2>3, <4>1, <4>2, EffectiveKept
    <3>2. Effective(n + 2, queue[n + 2].shift)'
      BY <2>0, <2>1, <2>2, <3>1
    <3> QED
      BY <2>0, <1>0, <2>2, <2>3, <3>2 DEF SieveAt
  <2>5. CheckAt(n + 3)'
    BY <2>0, <1>0, <2>1, <2>2, <2>3 DEF CheckAt
  <2>6. \A i \in 1..Len(queue') : i > n => i = n + 1 \/ i = n + 2 \/ i = n + 3
    BY <2>0, <1>0, <2>2
  <2>7. Pipeline'
    <3>1. \A i \in 1..Len(queue') : i > n /\ queue'[i].kernel = "sieve" => SieveAt(i)'
      BY <2>0, <2>2, <2>4, <2>6
    <3>2. \A i \in 1..Len(queue') : i > n /\ queue'[i].kernel = "checkn" => CheckAt(i)'
      BY <2>0, <2>2, <2>5, <2>6
    <3> QED
      BY <2>0, <2>1, <2>3, <3>1, <3>2, PipelineKept
  <2>8. ASSUME hpc' = "launch"
        PROVE  Effective(Len(queue) + 1, SHIFT)' /\ \E m \in 0..Units : p' = m * global_size'
    <3>1. SHIFT' = SHIFT
      BY <2>0, <1>5, <2>8 DEF Launch, AdvanceLoops
    <3>2. \A s : Effective(n + 1, s) => Effective(n + 4, s)'
      <4> TAKE s
      <4>1. n + 1 \in 1..(n + 1) /\ n + 4 \in (n + 1)..(Len(queue') + 1)
        BY <2>0, <1>0, <2>2
      <4>2. \A l \in (n + 1)..((n + 4) - 1) : queue'[l].kernel # "setupokok"
        <5> TAKE l \in (n + 1)..((n + 4) - 1)
        <5>1. l = n + 1 \/ l = n + 2 \/ l = n + 3
          BY <2>0, <1>0
        <5> QED
          BY <2>0, <2>2, <5>1
      <4> QED
        BY <2>0, <2>3, <4>1, <4>2, EffectiveKept
    <3>3. n + 4 = Len(queue') + 1
      BY <2>0, <1>0, <2>2
    <3>4. Effective(Len(queue) + 1, SHIFT)'
      BY <2>0, <2>1, <3>1, <3>2, <3>3
    <3>5. p' = 0 \/ (p + global_size < Units /\ p' = p + global_size)
      BY <1>5 DEF Launch, AdvanceLoops
    <3>6. CASE p' = 0
      <4>1. p' = 0 * global_size' /\ 0 \in 0..Units
        BY <2>0, <1>0, <2>3, <3>6, Sizes
      <4> QED
        BY <3>4, <4>1
    <3>7. CASE p + global_size < Units /\ p' = p + global_size
      <4>1. PICK m \in 0..Units : p = m * global_size
        BY <2>0, <2>1
      <4>2. p' = (m + 1) * global_size' /\ (m + 1) * global_size >= m + 1
        BY <2>0, <1>0, <2>1, <2>3, <3>7, <4>1, Sizes, Multiples
      <4>3. m + 1 \in 0..Units
        BY <2>0, <2>3, <3>7, <4>2, Sizes
      <4> QED
        BY <3>4, <4>2, <4>3
    <3> QED
      BY <3>5, <3>6, <3>7
  <2>9. Looping'
    BY <2>0, <2>3, <2>8 DEF Looping
  <2> QED
    BY <2>0, <1>0, <2>1, <2>3, <2>7, <2>9 DEF Flow, Sized
<1>6. CASE Wait \/ WaitLast \/ Drain \/ Read \/ QueryFails
  <2>1. /\ hpc \in {"launch", "shift", "drain", "read"} /\ UNCHANGED <<K, SHIFT, p, sizes, queue, device>>
        /\ hpc' \in {"launch", "drain", "read", "report", "exited"}
        /\ hpc' = "launch" => hpc = "launch"
        /\ hpc' \in {"drain", "read", "report"} => hpc \in {"shift", "drain", "read"}
        /\ hpc' = "drain" => SHIFT = NShifts
        /\ hpc' = "report" => queue = << >>
        /\ hpc' \in {"read", "report"} => hpc \in {"drain", "read"}
    BY <1>6 DEF Wait, WaitLast, Drain, Read, QueryFails
  <2>2. Pipeline /\ Looping /\ Sized /\ Extends
    BY <1>0, <2>1 DEF Within, Extends
  <2>3. Pipeline'
    BY <2>1, <2>2, PipelineKept
  <2>4. Sized'
    BY <2>1, <2>2 DEF Sized
  <2>5. Looping'
    BY <2>1, <2>2 DEF Looping, Effective
  <2> QED
    BY <2>3, <2>4, <2>5 DEF Flow
<1>7. CASE Report \/ Return
  <2>1. /\ hpc = "report" /\ hpc' \in {"report", "returned"}
        /\ UNCHANGED <<K, SHIFT, sizes, queue, device>>
    BY <1>7 DEF Report, Return
  <2>2. Pipeline /\ Looping /\ Sized /\ Extends
    BY <1>0, <2>1 DEF Within, Extends
  <2>3. Pipeline'
    BY <2>1, <2>2, PipelineKept
  <2> QED
    BY <2>1, <2>2, <2>3 DEF Flow, Sized, Looping
<1>8. CASE NextK \/ Fails
  BY <1>0, <1>8 DEF NextK, Fails, Flow, Sized, Within
<1>9. CASE Gpu /\ hpc # "exited"
  <2>1. UNCHANGED <<hpc, K, sizes, SHIFT, p>> /\ Len(queue') = Len(queue) - 1 /\ Len(queue) > 0
    BY <1>9, GpuStep
  <2>2. Sized'
    BY <1>0, <2>1 DEF Sized
  <2>3. CASE Within
    <3>1. Pipeline /\ Looping /\ queue # << >>
      BY <1>0, <1>9, <2>1, <2>3, GpuStep
    <3>2. Pipeline'
      BY <1>9, <3>1, PipelineTail
    <3>3. ASSUME hpc' = "launch" PROVE Effective(Len(queue) + 1, SHIFT)'
      <4>1. PICK n \in Nat : n = Len(queue)
        BY <1>0
      <4>2. n \in 1..Len(queue)
        BY <2>1, <4>1
      <4>3. \A s : Effective(n + 1, s) => Effective(n, s)'
        BY <1>9, <3>1, <4>2, EffectiveTail
      <4>4. n = Len(queue') + 1 /\ Effective(n + 1, SHIFT)
        BY <2>1, <3>1, <3>3, <4>1 DEF Looping
      <4> QED
        BY <2>1, <4>3, <4>4
    <3>4. \A i \in 1..Len(queue') : queue'[i] = queue[i + 1] /\ i + 1 \in 1..Len(queue)
      BY <1>9, GpuStep
    <3>5. Looping'
      BY <2>1, <3>1, <3>3, <3>4 DEF Looping
    <3> QED
      BY <2>2, <3>2, <3>5 DEF Flow
  <2>4. CASE ~Within
    BY <2>1, <2>2, <2>4 DEF Flow, Within
  <2> QED
    BY <2>3, <2>4
<1>10. CASE UNCHANGED vars
  <2>1. Within => Within' /\ Pipeline /\ Looping /\ Extends
    BY <1>0, <1>10 DEF Within, Extends
  <2>2. Within => Pipeline'
    BY <1>10, <2>1, PipelineKept
  <2> QED
    BY <1>0, <1>10, <2>1, <2>2 DEF Flow, Sized, Looping, Effective, Within
<1> QED
  BY <1>1, <1>2, <1>3, <1>4, <1>5, <1>6, <1>7, <1>8, <1>9, <1>10 DEF Next, Host, Over
-----------------------------------------------------------------------------
(***************************************************************************)
(* What a K reports.  On top of Flow, which says what each kernel in the   *)
(* queue will find, Account follows each candidate from the launch that    *)
(* sieves it to the checkn that stores it, and says what the counters owe  *)
(* to whom; Reports and GivenUp carry this to the end of a K.              *)
(***************************************************************************)

\* The counters of a K: those that clearok has yet to clear count for nothing.
Wiped   == \A i \in 1..Len(queue) : queue[i].kernel # "clearok"
Seen    == IF Wiped THEN sols ELSE << >>
Most    == IF Wiped THEN largest ELSE 0
Limited == Wiped /\ limit

\* Candidate c waits for the checkn at position i.
Holds(c, i) ==
  /\ queue[i].kernel = "checkn"
  /\ IF i = 1 THEN c \in ToSet(n_result)
     ELSE c \in Block(queue[i - 1].shift, queue[i - 1].array, queue[i - 1].p)

Waits(c) == \E i \in 1..Len(queue) : Holds(c, i)

Launched(c) ==
  \/ Where[c].shift < SHIFT
  \/ /\ hpc = "launch" /\ Where[c].shift = SHIFT
     /\ \/ Where[c].array < devicearray
        \/ Where[c].array = devicearray /\ Where[c].word < sieve_wpt * p

\* The launches that c may be in.
BlockOf(c, m) == Block(Where[c].shift, Where[c].array, m * global_size)

OnceWaiting ==
  \A c \in Cands, i \in 1..Len(queue) : Holds(c, i) =>
    /\ Where[c].K = K /\ Launched(c) /\ c \notin ToSet(Seen)
    /\ \A j \in 1..Len(queue) : Holds(c, j) => j = i

OnceSeen ==
  /\ IsInjective(Seen)
  /\ \A c \in ToSet(Seen) : Where[c].K = K /\ Launched(c)

AllChecked ==
  \A c \in OfK(K) : Launched(c) /\ ~Waits(c) =>
    /\ \A m \in 0..Units : c \in BlockOf(c, m) => Cardinality(BlockOf(c, m)) <= Most
    /\ Most <= numn => (c \in AP => c \in ToSet(Seen)) /\ (c \in TooLarge => Limited)

Justified ==
  /\ Most > numn => \E s \in Shifts, array \in Arrays, m \in 0..Units :
                      Cardinality(Block(s, array, m * global_size)) > numn
  /\ Limited => OfK(K) \cap TooLarge # {}
  /\ hpc \in {"profile", "profile_wait"} => Most = 0

Account == Within => OnceWaiting /\ OnceSeen /\ AllChecked /\ Justified
-----------------------------------------------------------------------------
\* Launches do not overlap.
LEMMA Disjoint ==
  ASSUME NEW m \in Nat, NEW k \in Nat, NEW g \in Nat, NEW w \in Nat,
         sieve_wpt * (m * g) <= w, w < sieve_wpt * (m * g + g),
         sieve_wpt * (k * g) <= w, w < sieve_wpt * (k * g + g)
  PROVE  m = k
<1>1. sieve_wpt \in {1, 2} /\ m * g \in Nat /\ k * g \in Nat
  BY Sizes
<1>2. k * g < m * g + g /\ m * g < k * g + g
  BY <1>1
<1>3. ~(m + 1 <= k)
  <2> SUFFICES ASSUME m + 1 <= k PROVE FALSE
    OBVIOUS
  <2>1. PICK d \in Nat : k = m + 1 + d
    <3>1. k - (m + 1) \in Nat /\ k = m + 1 + (k - (m + 1))
      OBVIOUS
    <3> QED
      BY <3>1
  <2>2. k * g = m * g + g + d * g /\ d * g \in Nat
    BY <2>1
  <2> QED
    BY <1>1, <1>2, <2>2
<1>4. ~(k + 1 <= m)
  <2> SUFFICES ASSUME k + 1 <= m PROVE FALSE
    OBVIOUS
  <2>1. PICK d \in Nat : m = k + 1 + d
    <3>1. m - (k + 1) \in Nat /\ m = k + 1 + (m - (k + 1))
      OBVIOUS
    <3> QED
      BY <3>1
  <2>2. m * g = k * g + g + d * g /\ d * g \in Nat
    BY <2>1
  <2> QED
    BY <1>1, <1>2, <2>2
<1> QED
  BY <1>3, <1>4

\* A sequence without repetition is as long as its set is large.
LEMMA LenOfSet ==
  ASSUME NEW T, NEW s \in Seq(T), IsInjective(s)
  PROVE  IsFiniteSet(ToSet(s)) /\ Cardinality(ToSet(s)) = Len(s)
<1>1. Len(s) \in Nat /\ DOMAIN s = 1..Len(s)
  BY LenProperties
<1>2. IsFiniteSet(1..Len(s)) /\ Cardinality(1..Len(s)) = Len(s)
  <2>1. IsFiniteSet(1..Len(s)) /\ Cardinality(1..Len(s)) = IF 1 > Len(s) THEN 0 ELSE Len(s) - 1 + 1
    BY <1>1, FS_Interval
  <2> QED
    BY <1>1, <2>1
<1>3. s \in [1..Len(s) -> ToSet(s)]
  <2>1. s \in [1..Len(s) -> T]
    BY LenProperties
  <2>2. \A i \in 1..Len(s) : s[i] \in ToSet(s)
    BY <1>1 DEF ToSet
  <2> QED
    BY <2>1, <2>2
<1>4. s \in Injection(1..Len(s), ToSet(s))
  BY <1>3 DEF Injection
<1>5. s \in Surjection(1..Len(s), ToSet(s))
  BY <1>1, <1>3 DEF Surjection, ToSet
<1>6. s \in Bijection(1..Len(s), ToSet(s))
  BY <1>4, <1>5 DEF Bijection, Injection, Surjection
<1>7. ExistsBijection(1..Len(s), ToSet(s))
  BY <1>6 DEF ExistsBijection
<1> QED
  BY <1>2, <1>7, FS_Bijection

\* Two such sequences behind each other.
LEMMA ConcatLists ==
  ASSUME NEW T, NEW a \in Seq(T), NEW b \in Seq(T)
  PROVE  /\ ToSet(a \o b) = ToSet(a) \cup ToSet(b)
         /\ IsInjective(a) /\ IsInjective(b) /\ ToSet(a) \cap ToSet(b) = {} => IsInjective(a \o b)
<1> DEFINE ab == a \o b
<1>1. /\ Len(a) \in Nat /\ Len(b) \in Nat /\ DOMAIN a = 1..Len(a) /\ DOMAIN b = 1..Len(b)
  BY LenProperties
<1>2. /\ ab \in Seq(T) /\ Len(ab) = Len(a) + Len(b)
      /\ \A i \in 1..(Len(a) + Len(b)) : ab[i] = IF i <= Len(a) THEN a[i] ELSE b[i - Len(a)]
  BY ConcatProperties
<1>3. DOMAIN ab = 1..(Len(a) + Len(b))
  BY <1>2, LenProperties
<1> HIDE DEF ab
<1>4. \A i \in DOMAIN ab : \/ i \in DOMAIN a /\ ab[i] = a[i]
                           \/ i - Len(a) \in DOMAIN b /\ ab[i] = b[i - Len(a)] /\ i > Len(a)
  BY <1>1, <1>2, <1>3
<1>5. \A i \in DOMAIN a : i \in DOMAIN ab /\ ab[i] = a[i]
  BY <1>1, <1>2, <1>3
<1>6. \A i \in DOMAIN b : i + Len(a) \in DOMAIN ab /\ ab[i + Len(a)] = b[i]
  <2> TAKE i \in DOMAIN b
  <2>1. i + Len(a) \in 1..(Len(a) + Len(b)) /\ ~(i + Len(a) <= Len(a)) /\ (i + Len(a)) - Len(a) = i
    BY <1>1
  <2> QED
    BY <1>2, <1>3, <2>1
<1>7. ToSet(ab) = ToSet(a) \cup ToSet(b)
  BY <1>4, <1>5, <1>6 DEF ToSet
<1>8. ASSUME IsInjective(a), IsInjective(b), ToSet(a) \cap ToSet(b) = {}
      PROVE  IsInjective(ab)
  <2> SUFFICES ASSUME NEW i \in DOMAIN ab, NEW j \in DOMAIN ab, ab[i] = ab[j] PROVE i = j
    BY DEF IsInjective
  <2>1. \A x \in DOMAIN a, y \in DOMAIN b : a[x] # b[y]
    BY <1>8 DEF ToSet
  <2>2. CASE i \in DOMAIN a /\ ab[i] = a[i]
    <3>1. j \in DOMAIN a /\ ab[j] = a[j]
      BY <1>4, <2>1, <2>2
    <3> QED
      BY <1>8, <2>2, <3>1 DEF IsInjective
  <2>3. CASE i - Len(a) \in DOMAIN b /\ ab[i] = b[i - Len(a)] /\ i > Len(a)
    <3>1. j - Len(a) \in DOMAIN b /\ ab[j] = b[j - Len(a)]
      BY <1>4, <2>1, <2>3
    <3>2. i - Len(a) = j - Len(a)
      BY <1>8, <2>3, <3>1 DEF IsInjective
    <3> QED
      BY <1>1, <1>3, <3>2
  <2> QED
    BY <1>4, <2>2, <2>3
<1> QED
  BY <1>7, <1>8 DEF ab

\* A candidate keeps its place while the queue moves up.
LEMMA HoldsTail ==
  ASSUME TypeOK, Gpu, Pipeline, NEW c, NEW i \in 1..Len(queue')
  PROVE  i + 1 \in 1..Len(queue) /\ (Holds(c, i)' <=> Holds(c, i + 1))
<1> USE GpuStep
<1>1. i + 1 \in 1..Len(queue) /\ queue'[i] = queue[i + 1] /\ i \in 1..Len(queue)
  OBVIOUS
<1>2. \A s, array, from : Block(s, array, from)' = Block(s, array, from)
  BY DEF Block, At, Words
<1>3. CASE queue[i + 1].kernel = "checkn"
  <2>1. queue[i].kernel = "sieve" /\ queue[i].size = global_size
    BY <1>1, <1>3 DEF Pipeline, CheckAt
  <2>2. CASE i = 1
    <3>1. ToSet(n_result') = Block(queue[1].shift, queue[1].array, queue[1].p)
      BY <2>1, <2>2, SieveRuns
    <3> QED
      BY <1>1, <1>3, <2>2, <3>1 DEF Holds
  <2>3. CASE i > 1
    <3>1. queue'[i - 1] = queue[i] /\ i # 1 /\ i + 1 # 1 /\ (i + 1) - 1 = i
      BY <1>1, <2>3
    <3>2. Holds(c, i + 1) <=> c \in Block(queue[i].shift, queue[i].array, queue[i].p)
      BY <1>3, <3>1 DEF Holds
    <3>3. Holds(c, i)' <=> c \in Block(queue[i].shift, queue[i].array, queue[i].p)
      BY <1>1, <1>2, <1>3, <3>1 DEF Holds
    <3> QED
      BY <1>1, <3>2, <3>3
  <2> QED
    BY <2>2, <2>3
<1>4. CASE queue[i + 1].kernel # "checkn"
  BY <1>1, <1>4 DEF Holds
<1> QED
  BY <1>3, <1>4

\* Only checkn counts.
LEMMA Counters ==
  ASSUME TypeOK, Gpu, Pipeline, queue[1].kernel # "checkn"
  PROVE  Seen' = Seen /\ Most' = Most /\ Limited' = Limited
<1> USE GpuStep
<1>1. 1 \in 1..Len(queue)
  OBVIOUS
<1>2. CASE queue[1].kernel = "clearok"
  <2>1. ~Wiped
    BY <1>1, <1>2 DEF Wiped
  <2>2. PICK n \in 0..3 : Prepared(n)
    BY DEF Pipeline
  <2>3. n = 2
    <3>1. 1 <= n
      BY <1>1, <1>2, <2>2 DEF Prepared, Prep
    <3> QED
      BY <1>2, <2>2, <3>1 DEF Prepared
  <2>4. Wiped'
    <3> SUFFICES ASSUME NEW i \in 1..Len(queue') PROVE queue'[i].kernel # "clearok"
      BY DEF Wiped
    <3>1. i + 1 \in 1..Len(queue) /\ queue'[i] = queue[i + 1]
      OBVIOUS
    <3>2. CASE i = 1
      BY <2>2, <2>3, <3>1, <3>2 DEF Prepared
    <3>3. CASE i > 1
      BY <2>2, <2>3, <3>1, <3>3 DEF Prepared, Prep
    <3> QED
      BY <3>2, <3>3
  <2>5. largest' = 0 /\ sols' = << >> /\ limit' = FALSE
    BY <1>2, Effects
  <2> QED
    BY <2>1, <2>4, <2>5 DEF Seen, Most, Limited
<1>3. CASE queue[1].kernel # "clearok"
  <2>1. Wiped' <=> Wiped
    <3>1. ASSUME Wiped' PROVE Wiped
      <4> SUFFICES ASSUME NEW i \in 1..Len(queue) PROVE queue[i].kernel # "clearok"
        BY DEF Wiped
      <4>1. CASE i = 1
        BY <1>3, <4>1
      <4>2. CASE i > 1
        <5>1. i - 1 \in 1..Len(queue') /\ queue'[i - 1] = queue[(i - 1) + 1] /\ (i - 1) + 1 = i
          BY <4>2
        <5> QED
          BY <3>1, <5>1 DEF Wiped
      <4> QED
        BY <4>1, <4>2
    <3>2. ASSUME Wiped PROVE Wiped'
      BY <3>2 DEF Wiped
    <3> QED
      BY <3>1, <3>2
  <2>2. UNCHANGED <<largest, sols, limit>>
    BY <1>3, Effects
  <2> QED
    BY <2>1, <2>2 DEF Seen, Most, Limited
<1> QED
  BY <1>2, <1>3

LEMMA Unmoved ==
  ASSUME TypeOK, Gpu
  PROVE  /\ \A c : Launched(c)' <=> Launched(c)
         /\ \A c, m : BlockOf(c, m)' = BlockOf(c, m)
         /\ \A s, array, from : Block(s, array, from)' = Block(s, array, from)
         /\ OfK(K)' = OfK(K)
<1> USE GpuStep
<1>1. \A s, array, from : Block(s, array, from)' = Block(s, array, from)
  BY DEF Block, At, Words
<1>2. \A c : Launched(c)' <=> Launched(c)
  BY DEF Launched
<1>3. \A c, m : BlockOf(c, m)' = BlockOf(c, m)
  BY <1>1 DEF BlockOf
<1> QED
  BY <1>1, <1>2, <1>3 DEF OfK

\* A kernel that checks nothing.
LEMMA AccountTail ==
  ASSUME TypeOK, Gpu, Pipeline, queue[1].kernel # "checkn",
         OnceWaiting, OnceSeen, AllChecked, Justified
  PROVE  OnceWaiting' /\ OnceSeen' /\ AllChecked' /\ Justified'
<1>1. /\ Seen' = Seen /\ Most' = Most /\ Limited' = Limited
      /\ UNCHANGED <<K, numn, global_size, hpc>>
  BY Counters, GpuStep
<1>2. \A c, i : i \in 1..Len(queue') => i + 1 \in 1..Len(queue) /\ (Holds(c, i)' <=> Holds(c, i + 1))
  BY HoldsTail
<1>3. \A c : Waits(c) => Waits(c)'
  <2> TAKE c
  <2> HAVE Waits(c)
  <2>1. PICK i \in 1..Len(queue) : Holds(c, i)
    BY DEF Waits
  <2>2. i # 1
    BY <2>1 DEF Holds
  <2>3. i - 1 \in 1..Len(queue') /\ (i - 1) + 1 = i
    BY <2>2, GpuStep
  <2>4. Holds(c, i - 1)'
    BY <1>2, <2>1, <2>3
  <2> QED
    BY <2>3, <2>4 DEF Waits
<1>4. OnceWaiting'
  <2> SUFFICES ASSUME NEW c \in Cands, NEW i \in 1..Len(queue'), Holds(c, i)'
               PROVE  /\ Where[c].K = K' /\ Launched(c)' /\ c \notin ToSet(Seen)'
                      /\ \A j \in 1..Len(queue') : Holds(c, j)' => j = i
    BY DEF OnceWaiting
  <2>1. i + 1 \in 1..Len(queue) /\ Holds(c, i + 1)
    BY <1>2
  <2>2. /\ Where[c].K = K /\ Launched(c) /\ c \notin ToSet(Seen)
        /\ \A j \in 1..Len(queue) : Holds(c, j) => j = i + 1
    BY <2>1 DEF OnceWaiting
  <2>3. ASSUME NEW j \in 1..Len(queue'), Holds(c, j)' PROVE j = i
    <3>1. j + 1 \in 1..Len(queue) /\ Holds(c, j + 1)
      BY <1>2, <2>3
    <3>2. j + 1 = i + 1
      BY <2>2, <3>1
    <3> QED
      BY <3>2, GpuStep
  <2> QED
    BY <1>1, <2>2, <2>3, Unmoved
<1>5. OnceSeen'
  BY <1>1, Unmoved DEF OnceSeen
<1>6. AllChecked'
  BY <1>1, <1>3, Unmoved DEF AllChecked
<1>7. Justified'
  BY <1>1, Unmoved DEF Justified
<1> QED
  BY <1>4, <1>5, <1>6, <1>7

LEMMA LesserOf ==
  ASSUME NEW a \in Nat, NEW b \in Nat
  PROVE  Lesser(a, b) \in Nat /\ Lesser(a, b) <= a /\ (a <= b => Lesser(a, b) = a)
BY DEF Lesser

\* checkn reads at most numn entries: all there are, unless there are more.
LEMMA StoredOf ==
  ASSUME TypeOK
  PROVE  /\ Stored \subseteq ToSet(n_result)
         /\ Len(n_result) <= numn => Stored = ToSet(n_result)
<1>1. Len(n_result) \in Nat /\ DOMAIN n_result = 1..Len(n_result) /\ numn \in Nat
  BY LenProperties, NResultSizeType DEF TypeOK
<1>2. Lesser(Len(n_result), numn) \in Nat /\ Lesser(Len(n_result), numn) <= Len(n_result)
      /\ (Len(n_result) <= numn => Lesser(Len(n_result), numn) = Len(n_result))
  BY <1>1, LesserOf
<1>3. \A i \in 1..Lesser(Len(n_result), numn) : i \in 1..Len(n_result)
  BY <1>1, <1>2
<1> QED
  BY <1>1, <1>2, <1>3 DEF Stored, ToSet

\* checkn at the head: the candidates of one launch leave n_result for good.
LEMMA AccountChecked ==
  ASSUME TypeOK, Gpu, Pipeline, queue[1].kernel = "checkn", global_size > 0,
         hpc \notin {"profile", "profile_wait"},
         OnceWaiting, OnceSeen, AllChecked, Justified
  PROVE  OnceWaiting' /\ OnceSeen' /\ AllChecked' /\ Justified'
<1>0. /\ 1 \in 1..Len(queue) /\ UNCHANGED <<K, numn, global_size, hpc>>
      /\ Len(queue) \in Nat /\ Len(queue') = Len(queue) - 1
  BY GpuStep
<1>1. PICK s \in Shifts, array \in Arrays, m \in 0..Units :
        ToSet(n_result) = Block(s, array, m * global_size)
  BY <1>0 DEF Pipeline, CheckAt
<1>2. IsInjective(n_result) /\ Len(n_result) \in Nat /\ numn \in Nat /\ largest \in Nat
  BY <1>0, LenProperties, NResultSizeType DEF Pipeline, CheckAt, TypeOK
<1>3. Cardinality(Block(s, array, m * global_size)) = Len(n_result)
  BY <1>1, <1>2, LenOfSet DEF TypeOK
<1>4. Prepared(0)
  BY PreparedHead DEF Prep
<1>5. Wiped /\ Wiped'
  <2>1. \A i \in 1..Len(queue) : queue[i].kernel # "clearok"
    BY <1>4 DEF Prepared, Prep
  <2>2. \A i \in 1..Len(queue') : queue'[i].kernel # "clearok"
    BY <2>1, GpuStep
  <2> QED
    BY <2>1, <2>2 DEF Wiped
<1>6. /\ Seen = sols /\ Most = largest /\ Limited = limit
      /\ Seen' = sols' /\ Most' = largest' /\ Limited' = limit'
  <2>1. limit \in BOOLEAN /\ limit' \in BOOLEAN
    BY Effects DEF TypeOK, RunCheckn
  <2> QED
    BY <1>5, <2>1 DEF Seen, Most, Limited
<1>7. PICK new \in SetToSeqs(Stored \cap AP) :
        /\ sols' = sols \o new /\ limit' = (limit \/ Stored \cap TooLarge # {})
        /\ largest' = Largest
  BY Effects DEF RunCheckn
<1>8. /\ largest' \in Nat /\ largest' >= largest /\ largest' >= Len(n_result)
      /\ largest' = largest \/ largest' = Len(n_result)
  BY <1>2, <1>7 DEF Largest, Larger
<1>9. IsFiniteSet(Stored \cap AP)
  BY GpuSearchAssumption, FS_Subset
<1>10. new \in Seq(AP) /\ IsInjective(new) /\ ToSet(new) = Stored \cap AP
  <2>1. new \in Seq(Stored \cap AP) /\ IsInjective(new) /\ ToSet(new) = Stored \cap AP
    BY <1>9, Lists
  <2>2. new \in [1..Cardinality(Stored \cap AP) -> AP] /\ Cardinality(Stored \cap AP) \in Nat
    BY <1>9, FS_CardinalityType DEF SetToSeqs
  <2> QED
    BY <2>1, <2>2, SeqOfFunction
<1>11. /\ Stored \subseteq ToSet(n_result) /\ (Len(n_result) <= numn => Stored = ToSet(n_result))
  BY StoredOf
<1>12. \A c \in ToSet(n_result) : Holds(c, 1) /\ c \in Cands
  BY <1>1 DEF Holds, Block, At
<1>13. ToSet(sols') = ToSet(sols) \cup (Stored \cap AP)
  BY <1>7, <1>10, ConcatLists DEF TypeOK
<1>14. \A c, i : i \in 1..Len(queue') => i + 1 \in 1..Len(queue) /\ (Holds(c, i)' <=> Holds(c, i + 1))
  BY HoldsTail
<1>15. OnceWaiting'
  <2> SUFFICES ASSUME NEW c \in Cands, NEW i \in 1..Len(queue'), Holds(c, i)'
               PROVE  /\ Where[c].K = K' /\ Launched(c)' /\ c \notin ToSet(Seen)'
                      /\ \A j \in 1..Len(queue') : Holds(c, j)' => j = i
    BY DEF OnceWaiting
  <2>1. i + 1 \in 1..Len(queue) /\ Holds(c, i + 1)
    BY <1>14
  <2>2. /\ Where[c].K = K /\ Launched(c) /\ c \notin ToSet(Seen)
        /\ \A j \in 1..Len(queue) : Holds(c, j) => j = i + 1
    BY <2>1 DEF OnceWaiting
  <2>3. ASSUME NEW j \in 1..Len(queue'), Holds(c, j)' PROVE j = i
    <3>1. j + 1 \in 1..Len(queue) /\ Holds(c, j + 1)
      BY <1>14, <2>3
    <3>2. j + 1 = i + 1
      BY <2>2, <3>1
    <3> QED
      BY <1>0, <3>2
  <2>4. c \notin ToSet(n_result)
    <3> SUFFICES ASSUME c \in ToSet(n_result) PROVE FALSE
      OBVIOUS
    <3>1. 1 = i + 1
      BY <1>0, <1>12, <2>2
    <3> QED
      BY <1>0, <3>1
  <2>5. c \notin ToSet(sols')
    BY <1>6, <1>11, <1>13, <2>2, <2>4
  <2> QED
    BY <1>0, <1>6, <2>2, <2>3, <2>5, Unmoved
<1>16. OnceSeen'
  <2>1. \A c \in ToSet(n_result) : Where[c].K = K /\ Launched(c) /\ c \notin ToSet(sols)
    BY <1>0, <1>6, <1>12 DEF OnceWaiting
  <2>2. IsInjective(sols') 
    <3>1. IsInjective(sols) /\ ToSet(sols) \cap ToSet(new) = {}
      BY <1>6, <1>10, <1>11, <2>1 DEF OnceSeen
    <3> QED
      BY <1>7, <1>10, <3>1, ConcatLists DEF TypeOK
  <2>3. \A c \in ToSet(sols') : Where[c].K = K /\ Launched(c)
    BY <1>6, <1>11, <1>13, <2>1 DEF OnceSeen
  <2> QED
    BY <1>0, <1>6, <2>2, <2>3, Unmoved DEF OnceSeen
<1>17. AllChecked'
  <2> SUFFICES ASSUME NEW c \in OfK(K), Launched(c), ~Waits(c)'
               PROVE  /\ \A k \in 0..Units : c \in BlockOf(c, k) => Cardinality(BlockOf(c, k)) <= largest'
                      /\ largest' <= numn => (c \in AP => c \in ToSet(sols')) /\ (c \in TooLarge => limit')
    BY <1>0, <1>6, Unmoved DEF AllChecked
  <2>1. CASE ~Waits(c)
    <3>1. /\ \A k \in 0..Units : c \in BlockOf(c, k) => Cardinality(BlockOf(c, k)) <= largest
          /\ largest <= numn => (c \in AP => c \in ToSet(sols)) /\ (c \in TooLarge => limit)
      BY <1>6, <2>1 DEF AllChecked
    <3>2. \A k \in 0..Units : Cardinality(BlockOf(c, k)) \in Nat
      <4> TAKE k \in 0..Units
      <4>1. BlockOf(c, k) \subseteq Cands
        BY DEF BlockOf, Block, At
      <4> QED
        BY <4>1, GpuSearchAssumption, FS_Subset, FS_CardinalityType
    <3>3. ASSUME NEW k \in 0..Units, c \in BlockOf(c, k)
          PROVE  Cardinality(BlockOf(c, k)) <= largest'
      <4>1. Cardinality(BlockOf(c, k)) <= largest /\ Cardinality(BlockOf(c, k)) \in Nat
        BY <3>1, <3>2, <3>3
      <4> QED
        BY <1>2, <1>8, <4>1
    <3>4. largest' <= numn => largest <= numn
      BY <1>2, <1>8
    <3> QED
      BY <1>7, <1>13, <3>1, <3>3, <3>4
  <2>2. CASE Waits(c)
    <3>1. PICK i \in 1..Len(queue) : Holds(c, i)
      BY <2>2 DEF Waits
    <3>2. i = 1
      <4> SUFFICES ASSUME i # 1 PROVE FALSE
        OBVIOUS
      <4>1. i - 1 \in 1..Len(queue') /\ (i - 1) + 1 = i
        BY <1>0
      <4>2. Holds(c, i - 1)'
        BY <1>14, <3>1, <4>1
      <4> QED
        BY <4>1, <4>2 DEF Waits
    <3>3. c \in ToSet(n_result)
      BY <3>1, <3>2 DEF Holds
    <3>4. /\ Where[c].shift = s /\ Where[c].array = array
          /\ Where[c].word \in Words(m * global_size, global_size)
      BY <1>1, <3>3 DEF Block, At
    <3>5. ASSUME NEW k \in 0..Units, c \in BlockOf(c, k)
          PROVE  BlockOf(c, k) = Block(s, array, m * global_size)
      <4>1. Where[c].word \in Words(k * global_size, global_size)
        BY <3>5 DEF BlockOf, Block, At
      <4>2. k \in Nat /\ m \in Nat /\ global_size \in Nat /\ Where[c].word \in Nat
        BY <3>4, Sizes DEF TypeOK, Words
      <4>3. k = m
        BY <3>4, <4>1, <4>2, Disjoint DEF Words
      <4> QED
        BY <3>4, <4>3 DEF BlockOf
    <3>6. largest' <= numn => c \in Stored
      BY <1>2, <1>8, <1>11, <3>3
    <3> QED
      BY <1>3, <1>7, <1>8, <1>13, <3>5, <3>6
  <2> QED
    BY <2>1, <2>2
<1>18. Justified'
  <2>1. largest' > numn => \E t \in Shifts, a \in Arrays, k \in 0..Units :
                             Cardinality(Block(t, a, k * global_size)) > numn
    <3>1. CASE largest' = largest
      BY <1>6, <3>1 DEF Justified
    <3>2. CASE largest' = Len(n_result)
      BY <1>3, <3>2
    <3> QED
      BY <1>8, <3>1, <3>2
  <2>2. limit' => OfK(K) \cap TooLarge # {}
    <3>1. CASE limit
      BY <1>6, <3>1 DEF Justified
    <3>2. CASE Stored \cap TooLarge # {}
      <4>1. \A c \in Stored : c \in OfK(K)
        BY <1>1, <1>11 DEF Block, At, OfK
      <4> QED
        BY <3>2, <4>1
    <3> QED
      BY <1>7, <3>1, <3>2
  <2> QED
    BY <1>0, <1>6, <2>1, <2>2, Unmoved DEF Justified
<1> QED
  BY <1>15, <1>16, <1>17, <1>18

\* Kernels that check nothing are put into the queue, or none.
LEMMA AccountKept ==
  ASSUME Extends, UNCHANGED <<global_size, numn, SHIFT>>,
         \A i \in 1..Len(queue') : i > Len(queue) => queue'[i].kernel # "checkn",
         \A c \in Cands : Launched(c)' <=> Launched(c),
         hpc' \in {"profile", "profile_wait"} => hpc \in {"profile", "profile_wait"},
         sols \in Seq(AP), OnceWaiting, OnceSeen, AllChecked, Justified
  PROVE  OnceWaiting' /\ OnceSeen' /\ AllChecked' /\ Justified'
<1>1. K' = K /\ n_result' = n_result /\ largest' = largest /\ sols' = sols /\ limit' = limit
  BY DEF Extends, device, found
<1>2. Wiped' <=> Wiped
  <2>1. \A i \in 1..Len(queue) : i \in 1..Len(queue') /\ queue'[i] = queue[i]
    BY DEF Extends
  <2>2. \A i \in 1..Len(queue') : i \in 1..Len(queue) \/ queue'[i].kernel # "clearok"
    BY DEF Extends, Prep
  <2> QED
    BY <2>1, <2>2 DEF Wiped
<1>3. Seen' = Seen /\ Most' = Most /\ (Limited' <=> Limited)
  BY <1>1, <1>2 DEF Seen, Most, Limited
<1>4. \A s, array, from : Block(s, array, from)' = Block(s, array, from)
  BY <1>1 DEF Block, At, Words
<1>5. \A c, m : BlockOf(c, m)' = BlockOf(c, m)
  BY <1>4 DEF BlockOf
<1>6. \A i \in 1..Len(queue') : queue'[i].kernel = "checkn" => i \in 1..Len(queue)
  BY DEF Extends
<1>7. \A c, i : i \in 1..Len(queue') /\ Holds(c, i)' <=> i \in 1..Len(queue) /\ Holds(c, i)
  <2> TAKE c, i
  <2>1. CASE i \in 1..Len(queue)
    <3>1. i \in 1..Len(queue') /\ queue'[i] = queue[i] /\ (i # 1 => queue'[i - 1] = queue[i - 1])
      <4>1. i \in Nat /\ 1 <= i /\ i <= Len(queue) /\ Len(queue) \in Nat
        BY <2>1 DEF Extends
      <4>2. i # 1 => i - 1 \in 1..Len(queue)
        BY <4>1
      <4>3. Len(queue) <= Len(queue') /\ Len(queue') \in Nat
        BY DEF Extends
      <4>4. \A n \in 1..Len(queue) : queue'[n] = queue[n]
        BY DEF Extends
      <4> QED
        BY <2>1, <4>1, <4>2, <4>3, <4>4
    <3> QED
      BY <1>1, <1>4, <2>1, <3>1 DEF Holds
  <2>2. CASE i \notin 1..Len(queue)
    BY <1>6, <2>2 DEF Holds
  <2> QED
    BY <2>1, <2>2
<1>8. \A c : Waits(c)' <=> Waits(c)
  BY <1>7 DEF Waits
<1>9. \A c \in ToSet(Seen) : c \in Cands
  <2>1. ToSet(Seen) \subseteq AP
    <3>1. \A i \in DOMAIN sols : sols[i] \in AP
      BY ElementOfSeq, LenProperties
    <3>2. DOMAIN << >> = {}
      OBVIOUS
    <3> QED
      BY <3>1, <3>2 DEF Seen, ToSet
  <2> QED
    BY <2>1, GpuSearchAssumption
<1>10. OnceWaiting'
  <2> SUFFICES ASSUME NEW c \in Cands, NEW i \in 1..Len(queue'), Holds(c, i)'
               PROVE  /\ Where[c].K = K' /\ Launched(c)' /\ c \notin ToSet(Seen)'
                      /\ \A j \in 1..Len(queue') : Holds(c, j)' => j = i
    BY DEF OnceWaiting
  <2>1. i \in 1..Len(queue) /\ Holds(c, i)
    BY <1>7
  <2>2. /\ Where[c].K = K /\ Launched(c) /\ c \notin ToSet(Seen)
        /\ \A j \in 1..Len(queue) : Holds(c, j) => j = i
    BY <2>1 DEF OnceWaiting
  <2> QED
    BY <1>1, <1>3, <1>7, <2>2
<1>11. OnceSeen'
  BY <1>1, <1>3, <1>9 DEF OnceSeen
<1>12. AllChecked'
  BY <1>1, <1>3, <1>5, <1>8 DEF AllChecked, OfK
<1>13. Justified'
  BY <1>1, <1>3, <1>4 DEF Justified, OfK
<1> QED
  BY <1>10, <1>11, <1>12, <1>13

\* Nothing is launched yet.
LEMMA AccountIdle ==
  ASSUME UNCHANGED <<K, found>>, Wiped' <=> Wiped, numn' \in Nat, Most = 0,
         \A i \in 1..Len(queue') : queue'[i].kernel # "checkn",
         \A c \in Cands : ~Launched(c) /\ ~Launched(c)',
         sols \in Seq(AP), OnceSeen, Justified
  PROVE  OnceWaiting' /\ OnceSeen' /\ AllChecked' /\ Justified'
<1>1. Seen' = Seen /\ Most' = 0 /\ (Limited' <=> Limited) /\ OfK(K)' = OfK(K)
  BY DEF found, Seen, Most, Limited, OfK
<1>2. ToSet(Seen) = {}
  <2>1. ToSet(Seen) \subseteq AP
    <3>1. \A i \in DOMAIN sols : sols[i] \in AP
      BY ElementOfSeq, LenProperties
    <3>2. DOMAIN << >> = {}
      OBVIOUS
    <3> QED
      BY <3>1, <3>2 DEF Seen, ToSet
  <2> QED
    BY <2>1, GpuSearchAssumption DEF OnceSeen
<1>3. OnceSeen'
  BY <1>1, <1>2 DEF OnceSeen
<1>4. OnceWaiting'
  BY DEF OnceWaiting, Holds
<1>5. AllChecked'
  BY <1>1 DEF AllChecked, OfK
<1>6. Justified'
  BY <1>1 DEF Justified
<1> QED
  BY <1>3, <1>4, <1>5, <1>6

\* What a launch takes on.
LEMMA LaunchTakes ==
  ASSUME TypeOK, Loops, Flow, Launch, NEW c \in OfK(K)
  PROVE  /\ c \in Block(SHIFT, devicearray, p) => ~Launched(c)
         /\ Launched(c)' <=> Launched(c) \/ c \in Block(SHIFT, devicearray, p)
<1>1. /\ SHIFT \in Nat /\ SHIFT < NShifts /\ devicearray \in {0, 1} /\ p \in Nat /\ global_size \in Nat
      /\ global_size > 0 /\ sieve_wpt \in {1, 2} /\ hpc = "launch"
  BY Sizes DEF Launch, TypeOK, Flow, Sized, Loops, Arrays
<1>2. /\ c \in Cands /\ Where[c].K = K /\ Where[c].shift \in Nat /\ Where[c].array \in {0, 1}
      /\ Where[c].word \in 0..(halfn59s - 1)
  BY GpuSearchAssumption, Sizes DEF OfK, Shifts, Arrays
<1> DEFINE s == Where[c].shift
           a == Where[c].array
           w == Where[c].word
<1>3. c \in Block(SHIFT, devicearray, p) <=>
        s = SHIFT /\ a = devicearray /\ sieve_wpt * p <= w /\ w < sieve_wpt * (p + global_size)
  BY <1>2 DEF Block, At, Words
<1>4. Launched(c) <=> s < SHIFT \/ (s = SHIFT /\ (a < devicearray \/ (a = devicearray /\ w < sieve_wpt * p)))
  BY <1>1 DEF Launched
<1>5. Launched(c)' <=> s < SHIFT' \/ (hpc' = "launch" /\ s = SHIFT' /\
                         (a < devicearray' \/ (a = devicearray' /\ w < sieve_wpt * p')))
  BY DEF Launched
<1>6. halfn59s = sieve_wpt * Units /\ Units \in Nat
  <2>1. halfn59s \in Nat /\ halfn59s % sieve_wpt = 0
    BY GpuSearchAssumption
  <2> QED
    BY <1>1, <2>1, Sizes DEF Units
<1>7. AdvanceLoops
  BY DEF Launch
<1> HIDE DEF s, a, w
<1>8. w \in Nat /\ w < halfn59s /\ s \in Nat /\ a \in {0, 1}
  BY <1>2, <1>6 DEF w, s, a
<1>9. c \in Block(SHIFT, devicearray, p) => ~Launched(c)
  BY <1>1, <1>3, <1>4, <1>8
<1>10. CASE p + global_size < Units
  <2>1. p' = p + global_size /\ UNCHANGED <<hpc, SHIFT, devicearray>>
    BY <1>7, <1>10 DEF AdvanceLoops
  <2>2. CASE sieve_wpt = 1
    BY <1>1, <1>3, <1>4, <1>5, <1>8, <1>9, <2>1, <2>2
  <2>3. CASE sieve_wpt = 2
    BY <1>1, <1>3, <1>4, <1>5, <1>8, <1>9, <2>1, <2>3
  <2> QED
    BY <1>1, <2>2, <2>3
<1>11. CASE ~(p + global_size < Units)
  <2>1. w < sieve_wpt * (p + global_size)
    <3>1. CASE sieve_wpt = 1
      BY <1>1, <1>6, <1>8, <1>11, <3>1
    <3>2. CASE sieve_wpt = 2
      BY <1>1, <1>6, <1>8, <1>11, <3>2
    <3> QED
      BY <1>1, <3>1, <3>2
  <2>2. p' = 0 /\ sieve_wpt * p' = 0 /\ sieve_wpt * p \in Nat
    BY <1>1, <1>7, <1>11 DEF AdvanceLoops
  <2>3. CASE devicearray = 0
    <3>1. devicearray' = 1 /\ UNCHANGED <<hpc, SHIFT>>
      BY <1>7, <1>11, <2>3 DEF AdvanceLoops
    <3> QED
      BY <1>1, <1>3, <1>4, <1>5, <1>8, <1>9, <2>1, <2>2, <2>3, <3>1
  <2>4. CASE devicearray = 1
    <3>1. SHIFT' = SHIFT + 1 /\ hpc' = "shift"
      BY <1>7, <1>11, <2>4 DEF AdvanceLoops
    <3> QED
      BY <1>1, <1>3, <1>4, <1>5, <1>8, <1>9, <2>1, <2>2, <2>4, <3>1
  <2> QED
    BY <1>1, <2>3, <2>4
<1> QED
  BY <1>10, <1>11

LEMMA InitAccount == Init => Account
BY DEF Init, Account, Within

LEMMA NextAccount == TypeOK /\ Loops /\ Flow /\ Account /\ [Next]_vars => Account'
<1> SUFFICES ASSUME TypeOK, Loops, Flow, Account, [Next]_vars PROVE Account'
  OBVIOUS
<1> USE DEF vars, loop, sizes, result, device, tables, found
<1>0. /\ Len(queue) \in Nat /\ SHIFT \in Nat /\ numn \in Nat /\ sols \in Seq(AP)
      /\ Sized /\ (Within => Pipeline /\ Looping)
      /\ Within => OnceWaiting /\ OnceSeen /\ AllChecked /\ Justified
  BY Sizes, LenProperties, NResultSizeType DEF TypeOK, Flow, Account
<1>00. \A c \in Cands : Where[c].shift \in Nat /\ Where[c].array \in {0, 1} /\ Where[c].word \in Nat
  BY GpuSearchAssumption, Sizes DEF Shifts, Arrays
<1>1. CASE Setup
  <2>1. /\ Len(queue') = 3 /\ queue'[1].kernel = "setupn" /\ queue'[2].kernel = "clearok"
        /\ queue'[3].kernel = "setupok"
    BY <1>1, Queued DEF Setupn, Clearok, Setupok
  <2>2. ~Wiped' /\ \A i \in 1..Len(queue') : queue'[i].kernel # "checkn"
    <3>1. 2 \in 1..Len(queue') /\ \A i \in 1..Len(queue') : i = 1 \/ i = 2 \/ i = 3
      BY <2>1
    <3> QED
      BY <2>1, <3>1 DEF Wiped
  <2>3. Seen' = << >> /\ Most' = 0 /\ ~Limited' /\ SHIFT' = 0 /\ hpc' \in {"profile", "shift"} /\ numn' = numn
    BY <1>1, <2>2 DEF Seen, Most, Limited, Setup
  <2>4. \A c \in Cands : ~Launched(c)'
    BY <1>00, <2>3 DEF Launched
  <2>5. DOMAIN << >> = {}
    OBVIOUS
  <2>6. OnceWaiting' /\ OnceSeen'
    BY <2>2, <2>3, <2>5 DEF OnceWaiting, Holds, OnceSeen, IsInjective, ToSet
  <2>7. AllChecked' /\ Justified'
    BY <1>0, <2>3, <2>4 DEF AllChecked, OfK, Justified
  <2> QED
    BY <2>6, <2>7 DEF Account
<1>2. CASE ProfileLaunch
  <2>1. /\ hpc = "profile" /\ hpc' = "profile_wait" /\ Within /\ SHIFT = 0 /\ SHIFT' = 0
        /\ UNCHANGED <<K, found>>
    BY <1>2 DEF ProfileLaunch, Within, Loops
  <2>2. \A i \in 1..Len(queue) : queue[i].kernel # "checkn"
    BY <1>0, <2>1 DEF Looping
  <2>3. PICK n \in Nat : n = Len(queue)
    BY <1>0
  <2>4. /\ Len(queue') = n + 3 /\ \A i \in 1..n : queue'[i] = queue[i]
        /\ queue'[n + 1].kernel = "setupokok" /\ queue'[n + 2].kernel = "clearn"
        /\ queue'[n + 3].kernel = "sieve"
    BY <1>2, <2>3, Queued DEF Setupokok, Clearn
  <2>5. \A i \in 1..Len(queue') : i \in 1..n \/ i = n + 1 \/ i = n + 2 \/ i = n + 3
    BY <2>4
  <2>6. \A i \in 1..Len(queue') : queue'[i].kernel # "checkn"
    BY <2>2, <2>3, <2>4, <2>5
  <2>7. Wiped' <=> Wiped
    <3>1. \A i \in 1..n : i \in 1..Len(queue')
      BY <2>4
    <3> QED
      BY <2>3, <2>4, <2>5, <3>1 DEF Wiped
  <2>8. \A c \in Cands : ~Launched(c) /\ ~Launched(c)'
    BY <1>00, <2>1 DEF Launched
  <2>9. numn' \in Nat /\ Most = 0
    <3>1. PICK worksize \in 1..Units : numn' = NResultSize(GlobalSize(worksize))
      BY <1>2 DEF ProfileLaunch
    <3>2. numn' \in Nat
      BY <3>1, NResultSizeType, GlobalSizeType, Sizes
    <3> QED
      BY <1>0, <2>1, <3>2 DEF Justified
  <2> QED
    BY <1>0, <2>1, <2>6, <2>7, <2>8, <2>9, AccountIdle DEF Account
<1>3. CASE ProfileDone
  <2>1. /\ hpc = "profile_wait" /\ hpc' = "shift" /\ Within /\ SHIFT = 0 /\ SHIFT' = 0
        /\ UNCHANGED <<K, queue, found>>
    BY <1>3 DEF ProfileDone, Within, Loops
  <2>2. \A i \in 1..Len(queue) : queue[i].kernel # "checkn"
    BY <1>0, <2>1 DEF Looping
  <2>3. \A c \in Cands : ~Launched(c) /\ ~Launched(c)'
    BY <1>00, <2>1 DEF Launched
  <2>4. numn' \in Nat /\ Most = 0 /\ (Wiped' <=> Wiped)
    BY <1>0, <1>3, <2>1, NResultSizeType, GlobalSizeType, Sizes DEF ProfileDone, Justified, Wiped
  <2> QED
    BY <1>0, <2>1, <2>2, <2>3, <2>4, AccountIdle DEF Account
<1>4. CASE NewShift
  <2>1. /\ hpc = "shift" /\ hpc' = "launch" /\ Within /\ devicearray' = 0 /\ p' = 0
        /\ UNCHANGED <<K, SHIFT, global_size, numn, device>>
    BY <1>4 DEF NewShift, Within
  <2>2. PICK n \in Nat : n = Len(queue)
    BY <1>0
  <2>3. /\ Len(queue') = n + 1 /\ \A i \in 1..n : queue'[i] = queue[i]
        /\ queue'[n + 1].kernel = "setupokok"
    BY <1>4, <2>2, Queued DEF Setupokok
  <2>4. \A i \in 1..Len(queue') : i > n => queue'[i].kernel = "setupokok"
    BY <2>3
  <2>5. Extends
    BY <2>1, <2>2, <2>3, <2>4 DEF Extends, Prep
  <2>6. \A c \in Cands : Launched(c)' <=> Launched(c)
    <3>1. sieve_wpt * 0 = 0
      BY Sizes
    <3> QED
      BY <1>00, <2>1, <3>1 DEF Launched
  <2>7. \A i \in 1..Len(queue') : i > Len(queue) => queue'[i].kernel # "checkn"
    BY <2>2, <2>4
  <2> QED
    BY <1>0, <2>1, <2>5, <2>6, <2>7, AccountKept DEF Account
<1>5. CASE Launch
  <2>1. /\ hpc = "launch" /\ hpc' \in {"launch", "shift"} /\ Within /\ Within'
        /\ UNCHANGED <<K, global_size, numn, device>>
    BY <1>5 DEF Launch, AdvanceLoops, Within
  <2>2. PICK n \in Nat : n = Len(queue)
    BY <1>0
  <2>3. /\ Len(queue') = n + 3 /\ \A i \in 1..n : queue'[i] = queue[i]
        /\ queue'[n + 1].kernel = "clearn" /\ queue'[n + 3].kernel = "checkn"
        /\ queue'[n + 2].kernel = "sieve" /\ queue'[n + 2].shift = SHIFT
        /\ queue'[n + 2].array = devicearray /\ queue'[n + 2].p = p
    BY <1>5, <2>2, Queued DEF Clearn, Sieve, Checkn
  <2>4. \A i \in 1..Len(queue') : i \in 1..n \/ i = n + 1 \/ i = n + 2 \/ i = n + 3
    BY <2>3
  <2>5. Wiped' <=> Wiped
    <3>1. \A i \in 1..n : i \in 1..Len(queue')
      BY <2>3
    <3> QED
      BY <2>2, <2>3, <2>4, <3>1 DEF Wiped
  <2>6. Seen' = Seen /\ Most' = Most /\ (Limited' <=> Limited)
    BY <2>1, <2>5 DEF Seen, Most, Limited
  <2>7. \A s, array, from : Block(s, array, from)' = Block(s, array, from)
    BY <2>1 DEF Block, At, Words
  <2>8. PICK s, array, from : s = SHIFT /\ array = devicearray /\ from = p
    OBVIOUS
  <2>9. \A c, i : i \in 1..Len(queue') /\ Holds(c, i)' <=>
                  \/ i \in 1..n /\ Holds(c, i)
                  \/ i = n + 3 /\ c \in Block(s, array, from)
    <3> TAKE c, i
    <3>1. CASE i \in 1..n
      <4>1. i \in 1..Len(queue') /\ queue'[i] = queue[i] /\ (i # 1 => queue'[i - 1] = queue[i - 1])
            /\ i # n + 3 /\ n_result' = n_result
        BY <2>1, <2>3, <3>1
      <4> QED
        BY <2>7, <3>1, <4>1 DEF Holds
    <3>2. CASE i = n + 3
      <4>1. i \in 1..Len(queue') /\ i # 1 /\ i - 1 = n + 2 /\ i \notin 1..n
        BY <2>3, <3>2
      <4>2. Holds(c, i)' <=> c \in Block(s, array, from)
        BY <2>3, <2>7, <2>8, <3>2, <4>1 DEF Holds
      <4> QED
        BY <3>2, <4>1, <4>2
    <3>3. CASE i \notin 1..n /\ i # n + 3
      BY <2>3, <2>4, <3>3 DEF Holds
    <3> QED
      BY <3>1, <3>2, <3>3
  <2>10. \A c \in OfK(K) :
           /\ c \in Block(s, array, from) => ~Launched(c)
           /\ Launched(c)' <=> Launched(c) \/ c \in Block(s, array, from)
    BY <1>5, <2>8, LaunchTakes
  <2>11. /\ \A c \in Block(s, array, from) : c \in OfK(K)
         /\ \A c \in ToSet(Seen) : c \in OfK(K) /\ Launched(c)
    <3>1. ToSet(Seen) \subseteq AP
      <4>1. \A i \in DOMAIN sols : sols[i] \in AP
        BY <1>0, ElementOfSeq, LenProperties
      <4>2. DOMAIN << >> = {}
        OBVIOUS
      <4> QED
        BY <4>1, <4>2 DEF Seen, ToSet
    <3> QED
      BY <1>0, <2>1, <3>1, GpuSearchAssumption DEF Block, At, OfK, OnceSeen
  <2>12. OnceWaiting'
    <3> SUFFICES ASSUME NEW c \in Cands, NEW i \in 1..Len(queue'), Holds(c, i)'
                 PROVE  /\ Where[c].K = K' /\ Launched(c)' /\ c \notin ToSet(Seen)'
                        /\ \A j \in 1..Len(queue') : Holds(c, j)' => j = i
      BY DEF OnceWaiting
    <3>1. CASE i \in 1..n /\ Holds(c, i)
      <4>1. /\ Where[c].K = K /\ Launched(c) /\ c \notin ToSet(Seen)
            /\ \A j \in 1..n : Holds(c, j) => j = i
        BY <1>0, <2>1, <2>2, <3>1 DEF OnceWaiting
      <4>2. c \in OfK(K)
        BY <4>1 DEF OfK
      <4>3. c \notin Block(s, array, from) /\ Launched(c)'
        BY <2>10, <4>1, <4>2
      <4> QED
        BY <2>1, <2>6, <2>9, <4>1, <4>3
    <3>2. CASE i = n + 3 /\ c \in Block(s, array, from)
      <4>1. c \in OfK(K) /\ ~Launched(c) /\ Launched(c)'
        BY <2>10, <2>11, <3>2
      <4>2. \A j \in 1..n : ~Holds(c, j)
        BY <1>0, <2>1, <2>2, <4>1 DEF OnceWaiting
      <4>3. c \notin ToSet(Seen)
        BY <2>11, <4>1
      <4> QED
        BY <2>1, <2>6, <2>9, <3>2, <4>1, <4>2, <4>3 DEF OfK
    <3> QED
      BY <2>9, <3>1, <3>2
  <2>13. OnceSeen'
    <3>1. \A c \in ToSet(Seen) : Launched(c)'
      BY <2>10, <2>11
    <3> QED
      BY <1>0, <2>1, <2>6, <3>1 DEF OnceSeen
  <2>14. AllChecked'
    <3>1. ASSUME NEW c \in OfK(K), Launched(c)', ~Waits(c)' PROVE Launched(c) /\ ~Waits(c)
      <4>1. ~(c \in Block(s, array, from))
        <5>1. n + 3 \in 1..Len(queue')
          BY <2>3
        <5> QED
          BY <2>9, <3>1, <5>1 DEF Waits
      <4>2. ~Waits(c)
        <5> SUFFICES ASSUME Waits(c) PROVE FALSE
          OBVIOUS
        <5>1. PICK i \in 1..n : Holds(c, i)
          BY <2>2 DEF Waits
        <5> QED
          BY <2>9, <3>1, <5>1 DEF Waits
      <4> QED
        BY <2>10, <3>1, <4>1, <4>2
    <3>2. \A c, m : BlockOf(c, m)' = BlockOf(c, m)
      BY <2>1, <2>7 DEF BlockOf
    <3>3. OfK(K)' = OfK(K)
      BY <2>1 DEF OfK
    <3> QED
      BY <1>0, <2>1, <2>6, <3>1, <3>2, <3>3 DEF AllChecked
  <2>15. Justified'
    BY <1>0, <2>1, <2>6, <2>7 DEF Justified, OfK
  <2> QED
    BY <2>12, <2>13, <2>14, <2>15 DEF Account
<1>6. CASE Wait \/ WaitLast \/ Drain \/ Read \/ Report \/ Return \/ QueryFails \/ UNCHANGED vars
  <2>1. /\ UNCHANGED <<K, SHIFT, devicearray, p, sizes, queue, device>>
        /\ hpc' = "launch" <=> hpc = "launch"
        /\ hpc' \in {"profile", "profile_wait"} => hpc \in {"profile", "profile_wait"}
        /\ Within' => Within
    BY <1>6 DEF Wait, WaitLast, Drain, Read, Report, Return, QueryFails, Within
  <2>2. Extends /\ \A i \in 1..Len(queue') : ~(i > Len(queue))
    BY <1>0, <2>1 DEF Extends
  <2>3. \A c \in Cands : Launched(c)' <=> Launched(c)
    BY <2>1 DEF Launched
  <2> QED
    BY <1>0, <2>1, <2>2, <2>3, AccountKept DEF Account
<1>7. CASE NextK \/ Fails
  BY <1>7 DEF NextK, Fails, Account, Within
<1>8. CASE Gpu /\ hpc # "exited"
  <2>1. UNCHANGED <<hpc, global_size>> /\ 1 \in 1..Len(queue)
    BY <1>8, GpuStep
  <2>2. CASE Within
    <3>1. /\ Pipeline /\ Looping /\ OnceWaiting /\ OnceSeen /\ AllChecked /\ Justified
      BY <1>0, <2>2
    <3>2. CASE queue[1].kernel = "checkn"
      <4>1. hpc \notin {"profile", "profile_wait"}
        BY <2>1, <3>1, <3>2 DEF Looping
      <4>2. global_size > 0
        BY <1>0, <2>2, <4>1 DEF Sized, Within
      <4> QED
        BY <1>8, <3>1, <3>2, <4>1, <4>2, AccountChecked DEF Account
    <3>3. CASE queue[1].kernel # "checkn"
      BY <1>8, <3>1, <3>3, AccountTail DEF Account
    <3> QED
      BY <3>2, <3>3
  <2>3. CASE ~Within
    BY <2>1, <2>3 DEF Within, Account
  <2> QED
    BY <2>2, <2>3
<1> QED
  BY <1>1, <1>2, <1>3, <1>4, <1>5, <1>6, <1>7, <1>8 DEF Next, Host, Over
-----------------------------------------------------------------------------
\* What ReportSolution is given, K by K.
Reports ==
  /\ hpc \in {"report", "returned"} =>
       /\ ~Overflow /\ Len(reported) <= Len(sols)
       /\ \A i \in 1..Len(reported) : reported[i] = sols[i]
  /\ hpc = "returned" => Len(reported) = Len(sols)
  /\ hpc \in {"profile", "profile_wait", "shift", "launch", "drain", "read"} => reported = << >>
  /\ hpc = "setup" => \A c \in ToSet(reported) : Where[c].K < K
  /\ first <= K
  /\ hpc # "exited" =>
       totalaps = Cardinality({c \in AP : Where[c].K \in first..(IF hpc = "returned" THEN K ELSE K - 1)})

\* Before an error of the driver only an overflow ends the program.
GivenUp == hpc = "exited" /\ ~driverFailed => Exceeds(K)
-----------------------------------------------------------------------------
\* The counters after the last kernel of a K.
LEMMA Counted ==
  ASSUME TypeOK, Flow, Account, hpc \in {"read", "report", "returned"}, queue = << >>
  PROVE  /\ IsInjective(sols) /\ ToSet(sols) \subseteq OfK(K) \cap AP
         /\ IsFiniteSet(OfK(K) \cap AP)
         /\ largest > numn =>
              \E s \in Shifts, array \in Arrays, m \in 0..Units :
                Cardinality(Block(s, array, m * global_size)) > numn
         /\ limit => OfK(K) \cap TooLarge # {}
         /\ largest <= numn =>
              /\ OfK(K) \cap AP \subseteq ToSet(sols)
              /\ OfK(K) \cap TooLarge # {} => limit
              /\ \A s \in Shifts, array \in Arrays, m \in 0..Units :
                   Cardinality(Block(s, array, m * global_size)) <= numn
<1>1. Within /\ Looping /\ OnceSeen /\ AllChecked /\ Justified /\ SHIFT = NShifts /\ Len(queue) = 0
  BY DEF Within, Flow, Account, Looping
<1>2. Wiped /\ Seen = sols /\ Most = largest /\ (Limited <=> limit)
  BY <1>1 DEF Wiped, Seen, Most, Limited
<1>3. \A c \in OfK(K) : c \in Cands /\ Launched(c) /\ ~Waits(c)
  BY <1>1, GpuSearchAssumption, Sizes DEF OfK, Launched, Waits, Shifts
<1>4. ToSet(sols) \subseteq OfK(K) \cap AP
  <2>1. \A i \in DOMAIN sols : sols[i] \in AP
    BY ElementOfSeq, LenProperties DEF TypeOK
  <2>2. ToSet(sols) \subseteq AP
    BY <2>1 DEF ToSet
  <2> QED
    BY <1>1, <1>2, <2>2, GpuSearchAssumption DEF OnceSeen, OfK
<1>5. IsFiniteSet(OfK(K) \cap AP)
  BY GpuSearchAssumption, FS_Subset
<1>6. ASSUME largest <= numn
      PROVE  OfK(K) \cap AP \subseteq ToSet(sols) /\ (OfK(K) \cap TooLarge # {} => limit)
  BY <1>1, <1>2, <1>3, <1>6 DEF AllChecked
<1>7. ASSUME largest <= numn, NEW s \in Shifts, NEW array \in Arrays, NEW m \in 0..Units
      PROVE  Cardinality(Block(s, array, m * global_size)) <= numn
  <2> DEFINE block == Block(s, array, m * global_size)
  <2>1. numn \in Nat /\ largest \in Nat
    BY NResultSizeType DEF TypeOK
  <2>2. CASE block = {}
    <3>1. Cardinality(block) = 0
      BY <2>2, FS_EmptySet
    <3> QED
      BY <2>1, <3>1
  <2>3. CASE block # {}
    <3>1. PICK c \in block : TRUE
      BY <2>3
    <3>2. c \in OfK(K) /\ BlockOf(c, m) = block
      BY <3>1 DEF BlockOf, Block, At, OfK
    <3>3. Cardinality(block) <= largest
      BY <1>1, <1>2, <1>3, <3>1, <3>2 DEF AllChecked
    <3>4. Cardinality(block) \in Nat
      <4>1. block \subseteq Cands
        BY DEF Block, At
      <4> QED
        BY <4>1, GpuSearchAssumption, FS_Subset, FS_CardinalityType
    <3> QED
      BY <1>7, <2>1, <3>3, <3>4
  <2> QED
    BY <2>2, <2>3
<1> QED
  BY <1>1, <1>2, <1>4, <1>5, <1>6, <1>7 DEF OnceSeen, Justified

\* Counters that show no overflow: the K is complete.
LEMMA Accepted ==
  ASSUME TypeOK, Flow, Account, hpc \in {"read", "report", "returned"}, queue = << >>, ~Overflow
  PROVE  /\ ToSet(sols) = OfK(K) \cap AP /\ IsInjective(sols)
         /\ Len(sols) = Cardinality(OfK(K) \cap AP) /\ ~Exceeds(K)
<1>1. numn \in Nat /\ largest \in Nat /\ Len(sols) \in Nat /\ sol \in Nat
  BY Sizes, LenProperties, NResultSizeType DEF TypeOK
<1>2. largest <= numn /\ Len(sols) <= sol /\ ~limit
  BY <1>1 DEF Overflow
<1>3. ToSet(sols) = OfK(K) \cap AP /\ IsInjective(sols)
  BY <1>2, Counted
<1>4. Len(sols) = Cardinality(OfK(K) \cap AP)
  BY <1>3, LenOfSet DEF TypeOK
<1>0. \A s \in Shifts, array \in Arrays, m \in 0..Units :
        Cardinality(Block(s, array, m * global_size)) <= numn
  BY <1>2, Counted
<1>5. \A s \in Shifts, array \in Arrays, m \in 0..Units :
        ~(Cardinality(Block(s, array, m * global_size)) > numn)
  <2> TAKE s \in Shifts, array \in Arrays, m \in 0..Units
  <2>1. Cardinality(Block(s, array, m * global_size)) <= numn
    BY <1>0
  <2>2. Block(s, array, m * global_size) \subseteq Cands
    BY DEF Block, At
  <2>3. Cardinality(Block(s, array, m * global_size)) \in Nat
    BY <2>2, GpuSearchAssumption, FS_Subset, FS_CardinalityType
  <2> QED
    BY <1>1, <2>1, <2>3
<1>6. ~Exceeds(K)
  <2>1. OfK(K) \cap TooLarge = {}
    BY <1>2, Counted
  <2>2. ~(Cardinality(OfK(K) \cap AP) > sol)
    BY <1>1, <1>2, <1>4
  <2> QED
    BY <1>5, <2>1, <2>2 DEF Exceeds, Block
<1> QED
  BY <1>3, <1>4, <1>6

\* Counters that show an overflow: there was one.
LEMMA Refused ==
  ASSUME TypeOK, Flow, Account, hpc \in {"read", "report", "returned"}, queue = << >>, Overflow
  PROVE  Exceeds(K)
<1>1. CASE largest > numn
  BY <1>1, Counted DEF Exceeds, Block
<1>2. CASE limit
  BY <1>2, Counted DEF Exceeds
<1>3. CASE Len(sols) > sol
  <2>1. /\ IsInjective(sols) /\ ToSet(sols) \subseteq OfK(K) \cap AP /\ IsFiniteSet(OfK(K) \cap AP)
    BY Counted
  <2>2. Cardinality(ToSet(sols)) = Len(sols)
    BY <2>1, LenOfSet DEF TypeOK
  <2>3. Cardinality(ToSet(sols)) <= Cardinality(OfK(K) \cap AP) /\ Cardinality(OfK(K) \cap AP) \in Nat
    BY <2>1, FS_Subset, FS_CardinalityType
  <2>4. Len(sols) \in Nat /\ sol \in Nat
    BY Sizes, LenProperties DEF TypeOK
  <2> QED
    BY <1>3, <2>2, <2>3, <2>4 DEF Exceeds
<1> QED
  BY <1>1, <1>2, <1>3 DEF Overflow

LEMMA InitReports == Init => Reports /\ GivenUp
<1> SUFFICES ASSUME Init PROVE Reports
  BY DEF Init, GivenUp
<1>1. K \in Nat /\ first = K /\ hpc = "setup" /\ reported = << >> /\ totalaps = 0
  BY Sizes DEF Init
<1>2. {c \in AP : Where[c].K \in first..(K - 1)} = {}
  BY <1>1, GpuSearchAssumption
<1>3. totalaps = Cardinality({c \in AP : Where[c].K \in first..(K - 1)})
  BY <1>1, <1>2, FS_EmptySet
<1>4. DOMAIN << >> = {}
  OBVIOUS
<1> QED
  BY <1>1, <1>3, <1>4 DEF Reports, ToSet

LEMMA NextGivenUp == TypeOK /\ Flow /\ Account /\ GivenUp /\ [Next]_vars => GivenUp'
<1> SUFFICES ASSUME TypeOK, Flow, Account, GivenUp, [Next]_vars, hpc' = "exited", ~driverFailed'
             PROVE  Exceeds(K)'
  BY DEF GivenUp
<1>1. CASE Read /\ hpc # "exited"
  <2>1. Overflow /\ UNCHANGED <<K, global_size, numn>> /\ hpc = "read" /\ queue = << >>
    BY <1>1 DEF Read, sizes
  <2>2. Exceeds(K)
    BY <2>1, Refused
  <2> QED
    BY <2>1, <2>2 DEF Exceeds, At, Words, OfK
<1>2. CASE hpc = "exited"
  <2>1. UNCHANGED <<K, global_size, numn, driverFailed>>
    BY <1>2 DEF Next, QueryFails, Fails, Over, vars, sizes
  <2> QED
    BY <1>2, <2>1 DEF GivenUp, Exceeds, At, Words, OfK
<1>3. hpc # "exited" => Read
  BY GpuStep DEF Next, Host, Setup, ProfileLaunch, ProfileDone, NewShift, Launch, AdvanceLoops, Wait,
     WaitLast, Drain, Report, Return, NextK, QueryFails, Fails, Over, vars
<1> QED
  BY <1>1, <1>2, <1>3

LEMMA NextReports ==
  TypeOK /\ Loops /\ Flow /\ Account /\ Reports /\ [Next]_vars => Reports'
<1> SUFFICES ASSUME TypeOK, Loops, Flow, Account, Reports, [Next]_vars PROVE Reports'
  OBVIOUS
<1> USE DEF vars, loop, sizes, result, device, tables, found
<1> DEFINE Through(k) == {c \in AP : Where[c].K \in first..k}
<1>0. K \in Nat /\ first \in Nat /\ Len(reported) \in Nat /\ Len(sols) \in Nat /\ first <= K
  BY Sizes, LenProperties DEF TypeOK, Reports
<1>1. CASE Setup
  BY <1>1 DEF Setup, Reports
<1>2. CASE ProfileLaunch \/ ProfileDone \/ NewShift \/ Launch \/ Wait \/ WaitLast \/ Drain \/ QueryFails
  <2>1. /\ hpc \in {"profile", "profile_wait", "shift", "launch", "drain"}
        /\ hpc' \in {"profile", "profile_wait", "shift", "launch", "drain", "read"}
        /\ UNCHANGED <<K, first, reported, totalaps>>
    BY <1>2 DEF ProfileLaunch, ProfileDone, NewShift, Launch, AdvanceLoops, Wait, WaitLast, Drain,
                QueryFails
  <2> QED
    BY <2>1 DEF Reports
<1>3. CASE Read
  <2>1. /\ hpc = "read" /\ UNCHANGED <<K, first, reported, totalaps, sols, largest, numn, limit>>
        /\ hpc' = IF Overflow THEN "exited" ELSE "report"
        /\ reported = << >>
    BY <1>3 DEF Read, Reports
  <2>2. Overflow' <=> Overflow
    BY <2>1 DEF Overflow
  <2>3. Len(reported) = 0 /\ Len(reported) <= Len(sols)
    BY <1>0, <2>1
  <2> QED
    BY <2>1, <2>2, <2>3 DEF Reports
<1>4. CASE Report
  <2>1. /\ hpc = "report" /\ hpc' = "report" /\ Len(reported) < Len(sols)
        /\ reported' = Append(reported, sols[Len(reported) + 1])
        /\ UNCHANGED <<K, first, totalaps, sols, largest, numn, limit>>
    BY <1>4 DEF Report
  <2>2. ~Overflow' /\ \A i \in 1..Len(reported) : reported[i] = sols[i]
    BY <2>1 DEF Overflow, Reports
  <2>3. PICK n \in Nat : n = Len(reported)
    BY <1>0
  <2>4. sols[n + 1] \in AP
    BY <1>0, <2>1, <2>3, ElementOfSeq DEF TypeOK
  <2>5. /\ Len(reported') = n + 1 /\ reported'[n + 1] = sols[n + 1]
        /\ \A i \in 1..n : reported'[i] = reported[i]
    BY <2>1, <2>3, <2>4, AppendProperties DEF TypeOK
  <2>6. Len(reported') <= Len(sols) /\ \A i \in 1..Len(reported') : reported'[i] = sols[i]
    <3>1. \A i \in 1..(n + 1) : i \in 1..n \/ i = n + 1
      OBVIOUS
    <3> QED
      BY <1>0, <2>1, <2>2, <2>3, <2>5, <3>1
  <2> QED
    BY <2>1, <2>2, <2>6 DEF Reports
<1>5. CASE Return
  <2>1. /\ hpc = "report" /\ hpc' = "returned" /\ Len(reported) = Len(sols)
        /\ totalaps' = totalaps + Len(sols)
        /\ UNCHANGED <<K, first, reported, sols, largest, numn, limit>>
    BY <1>5 DEF Return
  <2>2. queue = << >> /\ ~Overflow
    BY <2>1 DEF Flow, Within, Looping, Reports
  <2>3. Len(sols) = Cardinality(OfK(K) \cap AP)
    BY <2>1, <2>2, Accepted
  <2>4. /\ Through(K) = Through(K - 1) \cup (OfK(K) \cap AP)
        /\ Through(K - 1) \cap (OfK(K) \cap AP) = {}
    <3>1. \A c \in AP : c \in Cands /\ Where[c].K \in Nat
      BY GpuSearchAssumption, Sizes
    <3> QED
      BY <1>0, <3>1 DEF OfK
  <2>5. IsFiniteSet(Through(K - 1)) /\ IsFiniteSet(OfK(K) \cap AP)
    BY GpuSearchAssumption, FS_Subset
  <2>6. Cardinality(Through(K)) = Cardinality(Through(K - 1)) + Cardinality(OfK(K) \cap AP)
    <3> HIDE DEF Through
    <3>1. Cardinality(Through(K)) =
            Cardinality(Through(K - 1)) + Cardinality(OfK(K) \cap AP) - Cardinality({})
      BY <2>4, <2>5, FS_Union
    <3>2. Cardinality(Through(K - 1)) \in Nat /\ Cardinality(OfK(K) \cap AP) \in Nat
      BY <2>5, FS_CardinalityType
    <3> QED
      BY <3>1, <3>2, FS_EmptySet
  <2>7. totalaps = Cardinality(Through(K - 1))
    BY <2>1 DEF Reports
  <2>8. totalaps' = Cardinality(Through(K))
    BY <2>1, <2>3, <2>6, <2>7
  <2>9. totalaps' = Cardinality({c \in AP : Where[c].K \in first'..K'})
    BY <2>1, <2>8
  <2>10. ~Overflow'
    BY <2>1, <2>2 DEF Overflow
  <2> QED
    BY <1>0, <2>1, <2>9, <2>10 DEF Reports
<1>6. CASE NextK
  <2>1. /\ hpc = "returned" /\ hpc' = "setup" /\ K' = K + 1 /\ K' - 1 = K
        /\ UNCHANGED <<first, reported, totalaps>>
    BY <1>0, <1>6 DEF NextK
  <2>2. \A c \in ToSet(reported) : Where[c].K < K'
    <3>1. \A i \in 1..Len(reported) : i \in DOMAIN sols /\ reported[i] = sols[i]
      BY <1>0, <2>1, LenProperties DEF Reports, TypeOK
    <3>2. ToSet(reported) \subseteq ToSet(sols)
      BY <3>1, LenProperties DEF ToSet, TypeOK
    <3>3. queue = << >>
      BY <2>1 DEF Flow, Within, Looping
    <3>4. ToSet(sols) \subseteq OfK(K)
      BY <2>1, <3>3, Counted
    <3> QED
      BY <1>0, <2>1, <3>2, <3>4 DEF OfK
  <2>3. totalaps' = Cardinality({c \in AP : Where[c].K \in first'..(K' - 1)})
    BY <2>1 DEF Reports
  <2> QED
    BY <1>0, <2>1, <2>2, <2>3 DEF Reports
<1>7. CASE Fails
  BY <1>7 DEF Fails, Reports
<1>8. CASE Gpu /\ hpc # "exited"
  <2>1. UNCHANGED <<hpc, K, reported, totalaps, first, numn>> /\ Len(queue) > 0
    BY <1>8, GpuStep
  <2>2. hpc \notin {"report", "returned"}
    <3> SUFFICES ASSUME hpc \in {"report", "returned"} PROVE FALSE
      OBVIOUS
    <3>1. queue = << >>
      BY DEF Flow, Within, Looping
    <3> QED
      BY <2>1, <3>1
  <2> QED
    BY <2>1, <2>2 DEF Reports
<1>9. CASE UNCHANGED vars
  BY <1>9 DEF Reports, Overflow
<1> QED
  BY <1>1, <1>2, <1>3, <1>4, <1>5, <1>6, <1>7, <1>8, <1>9 DEF Next, Host, Over

\* The inductive invariant.
Sound == TypeOK /\ Struck /\ Loops /\ Flow /\ Account /\ Reports /\ GivenUp

LEMMA AlwaysSound == Spec => []Sound
<1>1. Init => Sound
  BY InitTypes, InitFlow, InitAccount, InitReports DEF Sound
<1>2. Sound /\ [Next]_vars => Sound'
  BY NextTypes, NextFlow, NextAccount, NextReports, NextGivenUp DEF Sound
<1> QED
  BY <1>1, <1>2, PTL DEF Spec

\* What was reported when a K returns.
LEMMA Returned ==
  ASSUME Sound, hpc = "returned"
  PROVE  ToSet(reported) = OfK(K) \cap AP /\ Len(reported) = Cardinality(OfK(K) \cap AP)
<1>1. /\ queue = << >> /\ ~Overflow /\ Len(reported) = Len(sols)
      /\ \A i \in 1..Len(reported) : reported[i] = sols[i]
  BY DEF Sound, Flow, Within, Looping, Reports
<1>2. ToSet(sols) = OfK(K) \cap AP /\ Len(sols) = Cardinality(OfK(K) \cap AP)
  BY <1>1, Accepted DEF Sound
<1>3. DOMAIN reported = 1..Len(reported) /\ DOMAIN sols = 1..Len(sols)
  BY LenProperties DEF Sound, TypeOK
<1>4. ToSet(reported) = ToSet(sols)
  BY <1>1, <1>3 DEF ToSet
<1> QED
  BY <1>1, <1>2, <1>4

\* A K that returns has reported each of its progressions exactly once and
\* counted it, for every size of the tables, of a launch and of the arrays, and
\* in whatever order the threads of the GPU came to the counters.
THEOREM EveryKComplete == Spec => []Complete
<1>1. Sound => Complete
  <2> SUFFICES ASSUME Sound, hpc = "returned"
               PROVE  /\ ToSet(reported) = OfK(K) \cap AP
                      /\ Len(reported) = Cardinality(OfK(K) \cap AP)
                      /\ totalaps = Cardinality({c \in AP : Where[c].K \in first..K})
    BY DEF Complete
  <2>1. totalaps = Cardinality({c \in AP : Where[c].K \in first..K})
    BY DEF Sound, Reports
  <2> QED
    BY <2>1, Returned
<1> QED
  BY <1>1, AlwaysSound, PTL

\* The four counters read at the end of a K tell exactly whether any launch of
\* it overflowed an array or the prime test.
THEOREM StopsOnOverflow == Spec => []StopsExactly
<1>1. Sound => StopsExactly
  <2>1. ASSUME Sound, hpc \in {"report", "returned"} PROVE ~Exceeds(K)
    <3>1. queue = << >> /\ ~Overflow
      BY <2>1 DEF Sound, Flow, Within, Looping, Reports
    <3> QED
      BY <2>1, <3>1, Accepted DEF Sound
  <2> QED
    BY <2>1 DEF Sound, GivenUp, StopsExactly
<1> QED
  BY <1>1, AlwaysSound, PTL
-----------------------------------------------------------------------------
LEMMA InitAbstract == Init => Abstract!Init
<1> SUFFICES ASSUME Init PROVE Abstract!Init
  OBVIOUS
<1>1. CurrentK = K /\ K \in 1..NK /\ totalaps = 0
  BY DEF Init, CurrentK
<1>2. ReportedOf(CurrentK) = {}
  <2>1. DOMAIN << >> = {}
    OBVIOUS
  <2> QED
    BY <2>1 DEF Init, ReportedOf, ToSet
<1> QED
  BY <1>1, <1>2 DEF Abstract!Init

\* The K that returns is left with all of its progressions.
LEMMA ReturnAbstract ==
  ASSUME Sound, Return
  PROVE  Abstract!EndOfK
<1>1. /\ hpc = "report" /\ hpc' = "returned" /\ UNCHANGED <<K, reported>>
      /\ Len(reported) = Len(sols) /\ totalaps' = totalaps + Len(sols)
      /\ K \in Nat /\ K <= NK
  BY Sizes DEF Return, Sound, TypeOK
<1>2. CurrentK = K /\ CurrentK' = K + 1
  BY <1>1 DEF CurrentK
<1>3. /\ queue = << >> /\ ~Overflow /\ \A i \in 1..Len(reported) : reported[i] = sols[i]
  BY <1>1 DEF Sound, Flow, Within, Looping, Reports
<1>4. ToSet(sols) = OfK(K) \cap AP /\ Len(sols) = Cardinality(OfK(K) \cap AP)
  BY <1>1, <1>3, Accepted DEF Sound
<1>5. ToSet(reported) = ToSet(sols)
  BY <1>1, <1>3, LenProperties DEF ToSet, Sound, TypeOK
<1>6. Abstract!Found(K) = OfK(K) \cap AP
  BY GpuSearchAssumption DEF Abstract!Found, OfK
<1>7. ReportedOf(CurrentK) = Abstract!Found(CurrentK)
  BY <1>2, <1>4, <1>5, <1>6 DEF ReportedOf, OfK
<1>8. ReportedOf(CurrentK)' = {}
  <2>1. \A c \in ToSet(reported) : Where[c].K # K + 1
    BY <1>1, <1>4, <1>5 DEF OfK
  <2> QED
    BY <1>1, <1>2, <2>1 DEF ReportedOf
<1>9. totalaps' = totalaps + Abstract!Cardinality(Abstract!Found(CurrentK))
  <2>1. Abstract!Cardinality(Abstract!Found(CurrentK)) = Cardinality(Abstract!Found(CurrentK))
    BY DEF Cardinality, Abstract!Cardinality
  <2> QED
    BY <1>1, <1>2, <1>4, <1>6, <2>1
<1>10. CurrentK <= NK /\ CurrentK' = CurrentK + 1
  BY <1>1, <1>2
<1> QED
  BY <1>7, <1>8, <1>9, <1>10 DEF Abstract!EndOfK

\* What ReportSolution gets is new.
LEMMA ReportAbstract ==
  ASSUME Sound, Report
  PROVE  \E ap \in AP : Abstract!Report(ap)
<1>1. /\ hpc = "report" /\ hpc' = "report" /\ UNCHANGED <<K, totalaps>>
      /\ Len(reported) < Len(sols) /\ reported' = Append(reported, sols[Len(reported) + 1])
  BY DEF Report
<1>2. CurrentK = K /\ CurrentK' = K
  BY <1>1 DEF CurrentK
<1>3. /\ queue = << >> /\ ~Overflow /\ \A i \in 1..Len(reported) : reported[i] = sols[i]
  BY <1>1 DEF Sound, Flow, Within, Looping, Reports
<1>4. ToSet(sols) = OfK(K) \cap AP /\ IsInjective(sols)
  BY <1>1, <1>3, Accepted DEF Sound
<1>5. PICK n \in Nat : n = Len(reported)
  BY LenProperties DEF Sound, TypeOK
<1>6. /\ DOMAIN reported = 1..n /\ DOMAIN sols = 1..Len(sols) /\ Len(sols) \in Nat
      /\ reported \in Seq(AP)
  BY <1>5, LenProperties DEF Sound, TypeOK
<1>7. PICK ap : ap = sols[n + 1]
  OBVIOUS
<1>8. n + 1 \in DOMAIN sols /\ ap \in OfK(K) /\ ap \in AP
  <2>1. n + 1 \in DOMAIN sols
    BY <1>1, <1>5, <1>6
  <2> QED
    BY <1>4, <1>7, <2>1 DEF ToSet
<1>9. ap \notin ToSet(reported)
  <2> SUFFICES ASSUME NEW i \in 1..n, reported[i] = ap PROVE FALSE
    BY <1>6 DEF ToSet
  <2>1. i \in DOMAIN sols /\ sols[i] = sols[n + 1]
    BY <1>1, <1>3, <1>5, <1>6, <1>7
  <2>2. i = n + 1
    BY <1>4, <1>8, <2>1 DEF IsInjective
  <2> QED
    BY <2>2
<1>10. ToSet(reported') = ToSet(reported) \cup {ap}
  <2>1. /\ Len(reported') = n + 1 /\ reported' \in Seq(AP) /\ reported'[n + 1] = ap
        /\ \A i \in 1..n : reported'[i] = reported[i]
    BY <1>1, <1>5, <1>6, <1>7, <1>8, AppendProperties
  <2>2. DOMAIN reported' = 1..(n + 1)
    BY <2>1, LenProperties
  <2>3. \A i \in 1..(n + 1) : i \in 1..n \/ i = n + 1
    OBVIOUS
  <2>4. \A i \in 1..n : i \in 1..(n + 1)
    OBVIOUS
  <2>5. n + 1 \in 1..(n + 1)
    OBVIOUS
  <2> QED
    BY <1>6, <2>1, <2>2, <2>3, <2>4, <2>5 DEF ToSet
<1>11. ap \in Abstract!Found(CurrentK) \ ReportedOf(CurrentK)
  BY <1>2, <1>8, <1>9 DEF Abstract!Found, ReportedOf, OfK
<1>12. ReportedOf(CurrentK)' = ReportedOf(CurrentK) \cup {ap}
  BY <1>2, <1>8, <1>10 DEF ReportedOf, OfK
<1>13. Abstract!Report(ap)
  BY <1>1, <1>2, <1>11, <1>12 DEF Abstract!Report
<1> QED
  BY <1>8, <1>13

LEMMA AbstractStep == Sound /\ [Next]_vars => [Abstract!Next]_(Abstract!vars)
<1> SUFFICES ASSUME Sound, [Next]_vars PROVE [Abstract!Next]_(Abstract!vars)
  OBVIOUS
<1> USE DEF vars, loop, sizes, result
<1>1. CASE Return
  BY <1>1, ReturnAbstract DEF Abstract!Next
<1>2. CASE Report
  BY <1>2, ReportAbstract DEF Abstract!Next
<1>3. CASE Setup
  <2>1. /\ hpc = "setup" /\ hpc' \in {"profile", "shift"} /\ reported' = << >>
        /\ UNCHANGED <<K, totalaps>>
    BY <1>3 DEF Setup
  <2>2. CurrentK = K /\ CurrentK' = K /\ K \in Nat
    BY <2>1, Sizes DEF CurrentK, Sound, TypeOK
  <2>3. ReportedOf(CurrentK) = {}
    <3>1. \A c \in ToSet(reported) : Where[c].K < K
      BY <2>1 DEF Sound, Reports
    <3> QED
      BY <2>2, <3>1 DEF ReportedOf
  <2>4. ReportedOf(CurrentK)' = {}
    <3>1. DOMAIN << >> = {}
      OBVIOUS
    <3> QED
      BY <2>1, <3>1 DEF ReportedOf, ToSet
  <2> QED
    BY <2>1, <2>2, <2>3, <2>4 DEF Abstract!vars
<1>4. CASE NextK
  <2>1. CurrentK' = CurrentK /\ UNCHANGED <<reported, totalaps>>
    BY <1>4 DEF NextK, CurrentK
  <2> QED
    BY <2>1 DEF Abstract!vars, ReportedOf
<1>5. CASE \/ ProfileLaunch \/ ProfileDone \/ NewShift \/ Launch \/ Wait \/ WaitLast \/ Drain
           \/ Read \/ QueryFails \/ Fails \/ Gpu \/ UNCHANGED vars
  <2>1. UNCHANGED <<K, reported, totalaps>> /\ (hpc' = "returned" <=> hpc = "returned")
    <3>1. CASE Gpu
      BY <3>1, GpuStep DEF Sound
    <3>2. CASE ~Gpu
      BY <1>5, <3>2 DEF ProfileLaunch, ProfileDone, NewShift, Launch, AdvanceLoops, Wait, WaitLast,
                        Drain, Read, QueryFails, Fails
    <3> QED
      BY <3>1, <3>2
  <2>2. CurrentK' = CurrentK
    BY <2>1 DEF CurrentK
  <2> QED
    BY <2>1, <2>2 DEF Abstract!vars, ReportedOf
<1> QED
  BY <1>1, <1>2, <1>3, <1>4, <1>5 DEF Next, Host, Over

\* The host loop, the queue and the kernels' counters together are a search
\* that reports each progression of a K once and leaves the K with all of them
\* counted: what main relies on (RangeSearch), whatever the driver's errors do.
THEOREM GpuRefinesRangeSearch == Spec => ImplementsRangeSearch
<1>1. Sound /\ Sound' /\ [Next]_vars => [Abstract!Next]_(Abstract!vars)
  BY AbstractStep
<1> QED
  BY <1>1, InitAbstract, AlwaysSound, PTL DEF Spec, ImplementsRangeSearch, Abstract!Spec
=============================================================================
