-------------------------- MODULE WorkunitTheorems --------------------------
(***************************************************************************)
(* What Workunit promises, for every range of K, every set of progressions *)
(* and any number of crashes, failures and launches.                       *)
(*                                                                         *)
(* The inductive invariant has three parts, proved one after the other:    *)
(* Totals (what memory and the state files hold is what an uninterrupted   *)
(* run has at that K), Alternation (the file that is not written next      *)
(* carries the acknowledged checkpoint) and Copies (a line that may still  *)
(* be written in this launch was not written in it before).                *)
(*                                                                         *)
(* Then: Workunit implements DurableSearch, publishes one checksum line as *)
(* long as no system call fails, and keeps a launch's trickles a day apart.*)
(* The refinement takes no invariant of its own: Alternation is why the    *)
(* position only advances and why only a search at KMIN starts over,       *)
(* Recorded is why the position passes no solution without a line.         *)
(***************************************************************************)
EXTENDS Workunit, ChecksumTheorems, FiniteSetTheorems

Running == {"loop", "search", "close_results", "open_state", "close_state",
            "trickle", "write_cksum", "finish"}

Checkpointing == {"close_results", "open_state", "close_state", "trickle"}

Totals ==
  /\ StateFilesExact
  /\ pc \in Running => cksum = CksumAt(K) /\ totalaps = ApsAt(K)
  /\ pc = "search" => K <= KMAX
  /\ pc \in Checkpointing => (force <=> K > KMAX)
  /\ pc \in {"write_cksum", "finish"} => K = KMAX + 1
  /\ ChecksumRight

-----------------------------------------------------------------------------
\* Advancing K by one.

LEMMA FoundType ==
  ASSUME NEW k \in Int
  PROVE  /\ Found(k) \in SUBSET AP /\ Before(k) \in SUBSET AP
         /\ IsFiniteSet(Found(k)) /\ IsFiniteSet(Before(k))
         /\ Mass[Found(k)] \in Nat /\ Mass[Before(k)] \in Nat
         /\ Cardinality(Found(k)) \in Nat /\ Cardinality(Before(k)) \in Nat
<1>1. Found(k) \in SUBSET AP /\ Before(k) \in SUBSET AP
  BY DEF Found, Before
<1>2. IsFiniteSet(Found(k)) /\ IsFiniteSet(Before(k))
  BY <1>1, FS_Subset, WorkunitAssumption
<1>3. Cardinality(Found(k)) \in Nat /\ Cardinality(Before(k)) \in Nat
  BY <1>2, FS_CardinalityType
<1> QED
  BY <1>1, <1>2, <1>3, WorkunitAssumption

LEMMA BeforeNext ==
  ASSUME NEW k \in Int
  PROVE  /\ Before(k + 1) = Before(k) \cup Found(k)
         /\ Before(k) \cap Found(k) = {}
<1>1. \A ap \in AP : KOf[ap] \in Int
  BY WorkunitAssumption
<1> QED
  BY <1>1 DEF Before, Found

LEMMA TotalsType ==
  ASSUME NEW k \in Int
  PROVE  CksumAt(k) \in Sums /\ ApsAt(k) \in Nat
BY FoundType, CanonType DEF CksumAt, ApsAt

\* EndOfK adds exactly what is missing at K + 1.
LEMMA TotalsNext ==
  ASSUME NEW k \in Int
  PROVE  /\ CksumAt(k + 1) = AddMod(CksumAt(k), Canon(Mass[Found(k)]))
         /\ ApsAt(k + 1) = ApsAt(k) + Cardinality(Found(k))
<1>1. Mass[Before(k + 1)] = Mass[Before(k)] + Mass[Found(k)]
  BY BeforeNext, FoundType, WorkunitAssumption
<1>2. CksumAt(k + 1) = AddMod(CksumAt(k), Canon(Mass[Found(k)]))
  BY <1>1, FoundType, AddModCanon DEF CksumAt
<1>3. Cardinality({}) = 0
  BY FS_EmptySet
<1>4. Cardinality(Before(k + 1)) = Cardinality(Before(k)) + Cardinality(Found(k))
  <2>1. Cardinality(Before(k) \cup Found(k)) =
          Cardinality(Before(k)) + Cardinality(Found(k))
            - Cardinality(Before(k) \cap Found(k))
    BY FoundType, FS_Union
  <2>2. Cardinality(Before(k) \cap Found(k)) = 0
    BY <1>3, BeforeNext, Zenon
  <2>3. Cardinality(Before(k + 1)) = Cardinality(Before(k) \cup Found(k))
    BY BeforeNext, Zenon
  <2>4. Cardinality(Before(k)) \in Nat /\ Cardinality(Found(k)) \in Nat
    BY FoundType
  <2> QED
    BY <2>1, <2>2, <2>3, <2>4
<1> QED
  BY <1>2, <1>4 DEF ApsAt

\* A K that will_search refuses has nothing to find.
LEMMA TotalsSkip ==
  ASSUME NEW k \in Int, ~will_search(k)
  PROVE  CksumAt(k + 1) = CksumAt(k) /\ ApsAt(k + 1) = ApsAt(k)
<1>1. Found(k) = {}
  BY WorkunitAssumption DEF Found
<1>2. Before(k + 1) = Before(k)
  BY <1>1, BeforeNext
<1> QED
  BY <1>2 DEF CksumAt, ApsAt

LEMMA BeforeEnds ==
  /\ Before(KMIN) = {} /\ Before(KMAX + 1) = AP
  /\ CksumAt(KMIN) = 0 /\ ApsAt(KMIN) = 0
<1>1. \A ap \in AP : KOf[ap] \in Int /\ KMIN <= KOf[ap] /\ KOf[ap] <= KMAX
  BY WorkunitAssumption
<1>2. KMIN \in Nat /\ KMAX \in Nat
  BY WorkunitAssumption
<1>3. \A ap \in AP : ~(KOf[ap] < KMIN) /\ KOf[ap] < KMAX + 1
  BY <1>1, <1>2
<1>4. Before(KMIN) = {} /\ Before(KMAX + 1) = AP
  BY <1>3 DEF Before
<1>5. CksumAt(KMIN) = 0
  BY <1>4, WorkunitAssumption DEF CksumAt, Canon
<1>6. ApsAt(KMIN) = 0
  BY <1>4, FS_EmptySet DEF ApsAt
<1> QED
  BY <1>4, <1>5, <1>6

-----------------------------------------------------------------------------
\* Types.

LEMMA FlushType ==
  ASSUME TypeOK, NEW lines
  PROVE  Flush(lines) \in [AP -> Nat]
BY DEF TypeOK, Flush

LEMMA ChosenGood ==
  /\ Chosen \in {"A", "B", "none"}
  /\ Chosen # "none" => Chosen \in Files /\ Good(state[Chosen])
BY DEF Chosen, Files

LEMMA CheckpointGood ==
  ASSUME TypeOK
  PROVE  Checkpoint \in StateFile /\ Good(Checkpoint)
<1>1. K \in Nat /\ cksum \in Nat
  BY WorkunitAssumption, ChecksumAssumption DEF TypeOK, Sums
<1> QED
  BY <1>1 DEF TypeOK, Checkpoint, StateFile, Good

LEMMA UnreadableBad ==
  /\ Unreadable \in StateFile /\ ~Good(Unreadable)
  /\ Foreign \in StateFile /\ ~Good(Foreign)
BY WorkunitAssumption DEF Unreadable, Foreign, StateFile, Good

LEMMA TornType ==
  ASSUME TypeOK
  PROVE  /\ {Unreadable, Checkpoint, CutCheckpoint} \subseteq StateFile
         /\ Good(CutCheckpoint)
<1>1. K \in Nat /\ cksum \in Nat
  BY WorkunitAssumption, ChecksumAssumption DEF TypeOK, Sums
<1>2. CutCheckpoint \in StateFile /\ Good(CutCheckpoint)
  BY <1>1 DEF TypeOK, CutCheckpoint, StateFile, Good
<1> QED
  BY <1>2, CheckpointGood, UnreadableBad

LEMMA TargetFile == Target \in Files
BY DEF Target, Files

LEMMA PublishedType ==
  ASSUME NEW c \in Sums
  PROVE  BChecksum(KMIN, KMAX, c) \in Nat \X Sums
<1>1. KMIN + KMAX \in Nat
  BY WorkunitAssumption
<1>2. Canon(KMIN + KMAX) \in Nat
  BY <1>1, CanonType, ChecksumAssumption DEF Sums
<1> QED
  BY <1>2 DEF BChecksum

LEMMA InitType == Init => TypeOK
<1> SUFFICES ASSUME Init PROVE TypeOK
  OBVIOUS
<1>1. 0 \in Sums /\ KMIN \in KMIN..(KMAX + 1)
  BY WorkunitAssumption, ChecksumAssumption DEF Sums
<1>2. state \in [Files -> StateFile] /\ sol_lines \in [AP -> Nat]
  BY UnreadableBad DEF Init
<1>3. sol_cksums \in Seq(Nat \X Sums)
  BY DEF Init
<1>4. sent \in [at : Int, by : Nat]
  BY WorkunitAssumption DEF Init
<1>5. pc \in Steps
  BY DEF Init, Steps
<1> QED
  BY <1>1, <1>2, <1>3, <1>4, <1>5, WorkunitAssumption DEF Init, TypeOK

\* What every step needs to know of the memory of a dead process.
LEMMA DeadType ==
  ASSUME NoMemory
  PROVE  /\ K' \in KMIN..(KMAX + 1) /\ cksum' \in Sums /\ totalaps' \in Nat
         /\ write_state_a_next' \in BOOLEAN /\ force' \in BOOLEAN
         /\ last_trickle' \in Nat /\ last_ckpt' \in Nat
         /\ reported' \in SUBSET AP /\ results_file' \in SUBSET Long
<1>1. 0 \in Sums /\ KMIN \in KMIN..(KMAX + 1)
  BY WorkunitAssumption, ChecksumAssumption DEF Sums
<1> QED
  BY <1>1 DEF NoMemory

LEMMA TypeStep ==
  ASSUME TypeOK, Totals, [Next]_vars
  PROVE  TypeOK'
<1> USE DEF Steps, mem, disk, hist
<1>1. CASE Launch
  BY <1>1 DEF Launch, TypeOK
<1>2. CASE LaunchFinished
  BY <1>2 DEF LaunchFinished, TypeOK
<1>3. CASE Resume
  <2>1. Chosen \in Files /\ Good(state[Chosen])
    BY <1>3, ChosenGood DEF Resume
  <2>2. state[Chosen] \in StateFile /\ state[Chosen].K \in KMIN..(KMAX + 1)
    BY <2>1 DEF TypeOK, Totals, StateFilesExact
  <2>3. state[Chosen].cksum \in Sums /\ state[Chosen].totalaps \in Nat
        /\ state[Chosen].last_trickle \in Nat
    <3>1. state[Chosen].K \in Int
      BY <2>2, WorkunitAssumption
    <3> QED
      BY <2>1, <2>2, <3>1, TotalsType DEF Totals, StateFilesExact, StateFile
  <2> QED
    BY <1>3, <2>2, <2>3 DEF Resume, TypeOK
<1>4. CASE Begin
  BY <1>4, WorkunitAssumption, ChecksumAssumption DEF Begin, TypeOK, Sums
<1>5. CASE SkipK
  BY <1>5, WorkunitAssumption DEF SkipK, TypeOK
<1>6. CASE NoCheckpoint
  BY <1>6 DEF NoCheckpoint, TypeOK
<1>7. CASE StartCheckpoint
  BY <1>7 DEF StartCheckpoint, TypeOK
<1>8. CASE CloseResults
  BY <1>8, FlushType DEF CloseResults, TypeOK
<1>9. CASE OpenState
  BY <1>9, TargetFile, UnreadableBad DEF OpenState, TypeOK
<1>10. CASE CloseState
  BY <1>10, TargetFile, CheckpointGood DEF CloseState, TypeOK
<1>11. CASE Trickle
  BY <1>11 DEF Trickle, TypeOK
<1>12. CASE \E ap \in AP : Report(ap)
  BY <1>12 DEF Report, Found, TypeOK
<1>13. CASE EndOfK
  <2>1. K \in Int /\ K <= KMAX
    BY <1>13, WorkunitAssumption DEF EndOfK, TypeOK, Totals
  <2>2. AddMod(cksum, Canon(Mass[Found(K)])) \in Sums
    BY <2>1, FoundType, CanonType, AddModInRange DEF TypeOK
  <2>3. totalaps + Cardinality(Found(K)) \in Nat
    BY <2>1, FoundType DEF TypeOK
  <2>4. K + 1 \in KMIN..(KMAX + 1)
    BY <2>1, WorkunitAssumption DEF TypeOK
  <2> QED
    BY <1>13, <2>2, <2>3, <2>4 DEF EndOfK, TypeOK
<1>14. CASE WriteCksum
  BY <1>14, PublishedType DEF WriteCksum, TypeOK
<1>15. CASE BoincFinish
  BY <1>15, DeadType DEF BoincFinish, TypeOK
<1>16. CASE Crash
  <2>1. state' \in [Files -> StateFile]
    BY <1>16, TargetFile, CheckpointGood DEF Crash, TypeOK
  <2>2. sol_lines' \in [AP -> Nat]
    BY <1>16, FlushType DEF Crash
  <2> QED
    BY <1>16, <2>1, <2>2, DeadType DEF Crash, Dies, TypeOK
<1>17. CASE BeginFails
  BY <1>17, DeadType DEF BeginFails, Dies, Fault, TypeOK
<1>18. CASE SearchFails
  BY <1>18, DeadType, FlushType DEF SearchFails, Dies, Fault, TypeOK
<1>19. CASE CloseResultsFails
  <2>1. sol_lines' \in [AP -> Nat]
    BY <1>19, FlushType DEF CloseResultsFails
  <2> QED
    BY <1>19, <2>1 DEF CloseResultsFails, Fault, TypeOK
<1>20. CASE OpenStateFails
  BY <1>20, DeadType DEF OpenStateFails, Dies, Fault, TypeOK
<1>21. CASE WriteStateFails
  BY <1>21 DEF WriteStateFails, Fault, TypeOK
<1>22. CASE CloseStateFails
  <2>1. state' \in [Files -> StateFile]
    BY <1>22, TargetFile, TornType DEF CloseStateFails, TypeOK
  <2> QED
    BY <1>22, <2>1 DEF CloseStateFails, Fault, TypeOK
<1>23. CASE WriteCksumFails
  BY <1>23, DeadType DEF WriteCksumFails, Dies, Fault, TypeOK
<1>24. CASE ClockSetBack
  BY <1>24, WorkunitAssumption DEF ClockSetBack, Fault, TypeOK
<1>25. CASE Tick
  BY <1>25 DEF Tick, TypeOK
<1>26. CASE UNCHANGED vars
  BY <1>26 DEF vars, TypeOK
<1> QED
  BY <1>1, <1>2, <1>3, <1>4, <1>5, <1>6, <1>7, <1>8, <1>9, <1>10, <1>11, <1>12,
     <1>13, <1>14, <1>15, <1>16, <1>17, <1>18, <1>19, <1>20, <1>21, <1>22,
     <1>23, <1>24, <1>25, <1>26 DEF Next, Work, Failure, Finished

-----------------------------------------------------------------------------
\* Totals.

LEMMA InitTotals == Init => Totals
<1> SUFFICES ASSUME Init PROVE Totals
  OBVIOUS
<1>1. StateFilesExact
  BY UnreadableBad DEF Init, StateFilesExact
<1>2. ChecksumRight
  BY DEF Init, ChecksumRight
<1> QED
  BY <1>1, <1>2 DEF Init, Totals, Running, Checkpointing

\* Whatever write_state leaves in the file it writes is no lie.
LEMMA WrittenExact ==
  ASSUME TypeOK, Totals, pc \in Running,
         NEW f \in {Unreadable, Checkpoint, CutCheckpoint},
         state' = [state EXCEPT ![Target] = f]
  PROVE  StateFilesExact'
<1>1. Good(f) => /\ f.K = K /\ K \in KMIN..(KMAX + 1)
                 /\ f.cksum = CksumAt(K) /\ f.totalaps = ApsAt(K)
  BY UnreadableBad DEF Checkpoint, CutCheckpoint, Totals, TypeOK
<1> QED
  BY <1>1 DEF StateFilesExact, Totals, TypeOK

LEMMA TotalsStep ==
  ASSUME TypeOK, Totals, [Next]_vars
  PROVE  Totals'
<1> USE DEF Running, Checkpointing, mem, disk, hist
<1>1. CASE Launch
  BY <1>1 DEF Launch, Totals, StateFilesExact, ChecksumRight
<1>2. CASE LaunchFinished
  BY <1>2 DEF LaunchFinished, Totals, StateFilesExact, ChecksumRight
<1>3. CASE Resume
  <2>1. Chosen \in Files /\ Good(state[Chosen])
    BY <1>3, ChosenGood DEF Resume
  <2> QED
    BY <1>3, <2>1 DEF Resume, Totals, StateFilesExact, ChecksumRight
<1>4. CASE Begin
  BY <1>4, BeforeEnds DEF Begin, Totals, StateFilesExact, ChecksumRight
<1>5. CASE SkipK
  <2>1. K \in Int
    BY WorkunitAssumption DEF TypeOK
  <2>2. CksumAt(K + 1) = CksumAt(K) /\ ApsAt(K + 1) = ApsAt(K)
    BY <1>5, <2>1, TotalsSkip DEF SkipK
  <2> QED
    BY <1>5, <2>2 DEF SkipK, Totals, StateFilesExact, ChecksumRight
<1>6. CASE NoCheckpoint
  BY <1>6 DEF NoCheckpoint, Totals, StateFilesExact, ChecksumRight
<1>7. CASE StartCheckpoint
  BY <1>7, WorkunitAssumption
  DEF StartCheckpoint, Totals, TypeOK, StateFilesExact, ChecksumRight
<1>8. CASE CloseResults
  BY <1>8 DEF CloseResults, Totals, StateFilesExact, ChecksumRight
<1>9. CASE OpenState
  <2>1. StateFilesExact'
    BY <1>9, WrittenExact DEF OpenState
  <2> QED
    BY <1>9, <2>1 DEF OpenState, Totals, ChecksumRight
<1>10. CASE CloseState
  <2>1. StateFilesExact'
    BY <1>10, WrittenExact DEF CloseState
  <2> QED
    BY <1>10, <2>1 DEF CloseState, Totals, ChecksumRight
<1>11. CASE Trickle
  <2>1. force => K = KMAX + 1
    BY <1>11, WorkunitAssumption DEF Trickle, Totals, TypeOK
  <2>2. ~force => K <= KMAX
    BY <1>11, WorkunitAssumption DEF Trickle, Totals, TypeOK
  <2> QED
    BY <1>11, <2>1, <2>2 DEF Trickle, Totals, StateFilesExact, ChecksumRight
<1>12. CASE \E ap \in AP : Report(ap)
  BY <1>12 DEF Report, Totals, StateFilesExact, ChecksumRight
<1>13. CASE EndOfK
  <2>1. K \in Int
    BY WorkunitAssumption DEF TypeOK
  <2>2. cksum' = CksumAt(K + 1) /\ totalaps' = ApsAt(K + 1)
    BY <1>13, <2>1, TotalsNext DEF EndOfK, Totals
  <2> QED
    BY <1>13, <2>2 DEF EndOfK, Totals, StateFilesExact, ChecksumRight
<1>14. CASE WriteCksum
  <2>1. cksum = Canon(Mass[AP])
    BY <1>14, BeforeEnds DEF WriteCksum, Totals, CksumAt
  <2>2. ChecksumRight'
    <3> DEFINE right == BChecksum(KMIN, KMAX, Canon(Mass[AP]))
    <3>1. sol_cksums' = Append(sol_cksums, right)
      BY <1>14, <2>1 DEF WriteCksum
    <3>2. sol_cksums \in Seq(Nat \X Sums)
      BY DEF TypeOK
    <3>3. \A i \in 1..Len(sol_cksums) : sol_cksums[i] = right
      BY DEF Totals, ChecksumRight
    <3> HIDE DEF right
    <3>4. \A i \in 1..Len(sol_cksums') : sol_cksums'[i] = right
      BY <3>1, <3>2, <3>3
    <3> QED
      BY <3>4 DEF right, ChecksumRight
  <2> QED
    BY <1>14, <2>2 DEF WriteCksum, Totals, StateFilesExact
<1>15. CASE BoincFinish
  BY <1>15 DEF BoincFinish, Totals, StateFilesExact, ChecksumRight
<1>16. CASE Crash
  <2>1. StateFilesExact'
    <3>1. CASE UNCHANGED state
      BY <3>1 DEF Totals, StateFilesExact
    <3>2. CASE pc = "close_state" /\ state' = [state EXCEPT ![Target] = Checkpoint]
      BY <3>2, WrittenExact
    <3> QED
      BY <1>16, <3>1, <3>2 DEF Crash
  <2> QED
    BY <1>16, <2>1 DEF Crash, Dies, Totals, ChecksumRight
<1>17. CASE BeginFails
  BY <1>17 DEF BeginFails, Dies, Totals, StateFilesExact, ChecksumRight
<1>18. CASE SearchFails
  BY <1>18 DEF SearchFails, Dies, Totals, StateFilesExact, ChecksumRight
<1>19. CASE CloseResultsFails
  BY <1>19 DEF CloseResultsFails, Totals, StateFilesExact, ChecksumRight
<1>20. CASE OpenStateFails
  BY <1>20 DEF OpenStateFails, Dies, Totals, StateFilesExact, ChecksumRight
<1>21. CASE WriteStateFails
  BY <1>21 DEF WriteStateFails, Totals, StateFilesExact, ChecksumRight
<1>22. CASE CloseStateFails
  <2>1. StateFilesExact'
    BY <1>22, WrittenExact DEF CloseStateFails
  <2> QED
    BY <1>22, <2>1 DEF CloseStateFails, Totals, ChecksumRight
<1>23. CASE WriteCksumFails
  BY <1>23 DEF WriteCksumFails, Dies, Totals, StateFilesExact, ChecksumRight
<1>24. CASE ClockSetBack
  BY <1>24 DEF ClockSetBack, Totals, StateFilesExact, ChecksumRight
<1>25. CASE Tick
  BY <1>25 DEF Tick, Totals, StateFilesExact, ChecksumRight
<1>26. CASE UNCHANGED vars
  BY <1>26 DEF vars, Totals, StateFilesExact, ChecksumRight
<1> QED
  BY <1>1, <1>2, <1>3, <1>4, <1>5, <1>6, <1>7, <1>8, <1>9, <1>10, <1>11, <1>12,
     <1>13, <1>14, <1>15, <1>16, <1>17, <1>18, <1>19, <1>20, <1>21, <1>22,
     <1>23, <1>24, <1>25, <1>26 DEF Next, Work, Failure, Finished

LEMMA TotalsInvariant == Spec => [](TypeOK /\ Totals)
<1>1. Init => TypeOK /\ Totals
  BY InitType, InitTotals
<1>2. TypeOK /\ Totals /\ [Next]_vars => (TypeOK /\ Totals)'
  BY TypeStep, TotalsStep
<1> QED
  BY <1>1, <1>2, PTL DEF Spec

\* Types, and K in its range: a state file of another workunit, or one torn in
\* any write, never brings read_state to a K outside KMIN..KMAX+1.
THEOREM TypeCorrect == Spec => []TypeOK
BY TotalsInvariant, PTL

\* A state file that read_state accepts is exact (StateFilesExact): a resumed
\* search neither counts a progression twice nor misses one.
THEOREM ExactCheckpoints == Spec => []StateFilesExact
<1>1. Totals => StateFilesExact
  BY DEF Totals
<1> QED
  BY <1>1, TotalsInvariant, PTL

\* Whatever happened before, write_cksum prints the checksum of a search that
\* was never interrupted (ChecksumRight).
THEOREM RightChecksum == Spec => []ChecksumRight
<1>1. Totals => ChecksumRight
  BY DEF Totals
<1> QED
  BY <1>1, TotalsInvariant, PTL

-----------------------------------------------------------------------------
\* The file write_state does not touch next.
Other == IF write_state_a_next THEN "B" ELSE "A"

\* While the program runs, the other file holds the acknowledged checkpoint or
\* a later one; until there is one to hold, nothing above KMIN is acknowledged.
Alternation ==
  /\ AckedSurvives
  /\ pc \in Running =>
       /\ acked <= K
       /\ acked = KMIN \/ (Good(state[Other]) /\ acked <= state[Other].K)

-----------------------------------------------------------------------------
LEMMA DurableType ==
  ASSUME TypeOK, Totals
  PROVE  DurableK \in KMIN..(KMAX + 1)
<1>1. Chosen = "none" \/ (Chosen \in Files /\ Good(state[Chosen]))
  BY ChosenGood
<1> QED
  BY <1>1, WorkunitAssumption DEF DurableK, Totals, StateFilesExact

\* read_state never starts below a file it accepts.
LEMMA DurableAbove ==
  ASSUME TypeOK, NEW f \in Files, Good(state[f])
  PROVE  state[f].K <= DurableK
<1>1. state["A"].K \in Nat /\ state["B"].K \in Nat
  BY DEF TypeOK, Files, StateFile
<1> QED
  BY <1>1 DEF DurableK, Chosen, Files

\* An invariant that talks about the other file alone is enough for a relaunch.
LEMMA OtherSuffices ==
  ASSUME TypeOK, Totals,
         acked = KMIN \/ (Good(state[Other]) /\ acked <= state[Other].K)
  PROVE  AckedSurvives
<1>1. acked \in Nat /\ DurableK \in Nat /\ KMIN <= DurableK
  BY DurableType, WorkunitAssumption DEF TypeOK
<1>2. CASE acked = KMIN
  BY <1>1, <1>2 DEF AckedSurvives
<1>3. CASE Good(state[Other]) /\ acked <= state[Other].K
  <2>1. Other \in Files /\ state[Other].K \in Nat
    BY DEF Other, Files, TypeOK, StateFile
  <2>2. state[Other].K <= DurableK
    BY <1>3, <2>1, DurableAbove
  <2> QED
    BY <1>1, <1>3, <2>1, <2>2 DEF AckedSurvives
<1> QED
  BY <1>2, <1>3

LEMMA InitAlternation == Init => Alternation
<1> SUFFICES ASSUME Init PROVE Alternation
  OBVIOUS
<1>1. TypeOK /\ Totals
  BY InitType, InitTotals
<1>2. AckedSurvives
  BY <1>1, OtherSuffices DEF Init
<1> QED
  BY <1>2 DEF Init, Alternation, Running

\* The same files, the same promise.
LEMMA FilesUnchanged ==
  ASSUME Alternation, UNCHANGED <<state, acked>>
  PROVE  AckedSurvives'
BY DEF Alternation, AckedSurvives, DurableK, Chosen

\* Whatever happens to the file that is written, the other one is there.
LEMMA TargetWritten ==
  ASSUME TypeOK, Totals, TypeOK', Totals', Alternation, pc \in Running,
         NEW f, state' = [state EXCEPT ![Target] = f], UNCHANGED acked
  PROVE  AckedSurvives'
<1>1. state'[Other] = state[Other]
  BY DEF TypeOK, Target, Other, Files
<1>2. Other \in Files
  BY DEF Other, Files
<1>3. acked' \in Nat /\ DurableK' \in Nat /\ KMIN <= DurableK'
  <2>1. DurableK' \in KMIN..(KMAX + 1)
    BY WorkunitAssumption DEF DurableK, Chosen, Files, Totals, StateFilesExact
  <2>2. acked' \in KMIN..(KMAX + 1)
    BY DEF TypeOK
  <2> QED
    BY <2>1, <2>2, WorkunitAssumption
<1>4. CASE acked = KMIN
  BY <1>3, <1>4 DEF AckedSurvives
<1>5. CASE Good(state[Other]) /\ acked <= state[Other].K
  <2>1. state[Other].K \in Nat
    BY <1>2 DEF TypeOK, StateFile
  <2>2. \A g \in Files : Good(state'[g]) => state'[g].K <= DurableK'
    <3>1. state'["A"].K \in Nat /\ state'["B"].K \in Nat
      BY DEF TypeOK, Files, StateFile
    <3> QED
      BY <3>1 DEF DurableK, Chosen, Files
  <2>3. state[Other].K <= DurableK'
    BY <1>1, <1>2, <1>5, <2>2
  <2> QED
    BY <1>3, <1>5, <2>1, <2>3 DEF AckedSurvives
<1> QED
  BY <1>4, <1>5 DEF Alternation

LEMMA AlternationStep ==
  ASSUME TypeOK, Totals, TypeOK', Totals', Alternation, [Next]_vars
  PROVE  Alternation'
<1> USE DEF Running, mem, disk, hist
<1>1. acked \in Nat /\ K \in Nat /\ DurableK \in Nat
  <2>1. DurableK \in KMIN..(KMAX + 1)
    BY DurableType
  <2>2. acked \in KMIN..(KMAX + 1) /\ K \in KMIN..(KMAX + 1)
    BY DEF TypeOK
  <2> QED
    BY <2>1, <2>2, WorkunitAssumption
<1>2. CASE UNCHANGED <<state, acked, write_state_a_next>> /\ K <= K' /\ pc \in Running
  <2>1. acked <= K'
    BY <1>1, <1>2, WorkunitAssumption DEF Alternation, TypeOK
  <2> QED
    BY <1>2, <2>1, FilesUnchanged DEF Alternation, Other
<1>3. CASE UNCHANGED <<state, acked>> /\ pc' \notin Running
  BY <1>3, FilesUnchanged DEF Alternation
<1>4. CASE Resume
  <2>1. Chosen \in Files /\ Good(state[Chosen]) /\ DurableK = state[Chosen].K
    BY <1>4, ChosenGood DEF Resume, DurableK
  <2>2. Other' = Chosen
    BY <1>4, <2>1 DEF Resume, Other, Files
  <2>3. K' = DurableK /\ acked <= DurableK
    BY <1>4, <2>1 DEF Resume, Alternation, AckedSurvives
  <2>4. UNCHANGED <<state, acked>>
    BY <1>4 DEF Resume
  <2> QED
    BY <2>1, <2>2, <2>3, <2>4, FilesUnchanged DEF Alternation
<1>5. CASE Begin
  <2>1. DurableK = KMIN /\ acked = KMIN
    BY <1>1, <1>5, WorkunitAssumption
    DEF Begin, DurableK, Alternation, AckedSurvives, TypeOK
  <2> QED
    BY <1>1, <1>5, <2>1, FilesUnchanged DEF Begin, Alternation
<1>6. CASE OpenState
  <2>1. AckedSurvives'
    BY <1>6, TargetWritten DEF OpenState
  <2>2. Other' = Other /\ state'[Other] = state[Other]
    BY <1>6 DEF OpenState, TypeOK, Target, Other, Files
  <2> QED
    BY <1>6, <2>1, <2>2 DEF OpenState, Alternation
<1>7. CASE CloseState
  <2>1. Other' = Target
    BY <1>7 DEF CloseState, Other, Target, TypeOK
  <2>2. state'[Target] = Checkpoint /\ Good(Checkpoint) /\ Checkpoint.K = K
    BY <1>7, TargetFile, CheckpointGood DEF CloseState, TypeOK, Checkpoint
  <2>3. acked' = K /\ K' = K /\ K <= K
    BY <1>1, <1>7 DEF CloseState
  <2>4. Good(state'[Other']) /\ acked' <= state'[Other'].K
    BY <2>1, <2>2, <2>3
  <2>5. AckedSurvives'
    <3>1. \A g \in Files : Good(state'[g]) => state'[g].K <= DurableK'
      <4>1. state'["A"].K \in Nat /\ state'["B"].K \in Nat
        BY DEF TypeOK, Files, StateFile
      <4> QED
        BY <4>1 DEF DurableK, Chosen, Files
    <3> QED
      BY <2>1, <2>2, <2>3, <3>1, TargetFile DEF AckedSurvives
  <2> QED
    BY <2>3, <2>4, <2>5 DEF Alternation
<1>8. CASE Crash
  <2>1. AckedSurvives'
    <3>1. CASE UNCHANGED state
      BY <1>8, <3>1, FilesUnchanged DEF Crash
    <3>2. CASE pc = "close_state" /\ state' = [state EXCEPT ![Target] = Checkpoint]
      BY <1>8, <3>2, TargetWritten DEF Crash
    <3> QED
      BY <1>8, <3>1, <3>2 DEF Crash
  <2> QED
    BY <1>8, <2>1 DEF Crash, Dies, Alternation
<1>9. CASE CloseStateFails
  <2>1. AckedSurvives'
    BY <1>9, TargetWritten DEF CloseStateFails
  <2>2. Other' = Other /\ state'[Other] = state[Other]
    BY <1>9 DEF CloseStateFails, TypeOK, Target, Other, Files
  <2> QED
    BY <1>9, <2>1, <2>2 DEF CloseStateFails, Alternation
<1>10. CASE Launch \/ LaunchFinished
  BY <1>3, <1>10 DEF Launch, LaunchFinished
<1>11. CASE SkipK \/ EndOfK
  BY <1>1, <1>2, <1>11 DEF SkipK, EndOfK
<1>12. CASE NoCheckpoint \/ StartCheckpoint \/ CloseResults \/ Trickle
  BY <1>1, <1>2, <1>12 DEF NoCheckpoint, StartCheckpoint, CloseResults, Trickle
<1>13. CASE WriteCksum \/ \E ap \in AP : Report(ap)
  BY <1>1, <1>2, <1>13 DEF WriteCksum, Report
<1>14. CASE BoincFinish \/ BeginFails \/ SearchFails
  BY <1>3, <1>14 DEF BoincFinish, BeginFails, SearchFails, Dies
<1>15. CASE CloseResultsFails \/ WriteStateFails
  BY <1>1, <1>2, <1>15 DEF CloseResultsFails, WriteStateFails
<1>16. CASE OpenStateFails \/ WriteCksumFails
  BY <1>1, <1>2, <1>3, <1>16 DEF OpenStateFails, WriteCksumFails, Dies
<1>17. CASE ClockSetBack \/ Tick \/ UNCHANGED vars
  <2>1. UNCHANGED <<pc, state, acked, write_state_a_next, K>>
    BY <1>17 DEF ClockSetBack, Tick, vars
  <2> QED
    BY <1>1, <1>2, <1>3, <2>1
<1> QED
  BY <1>4, <1>5, <1>6, <1>7, <1>8, <1>9, <1>10, <1>11, <1>12, <1>13, <1>14,
     <1>15, <1>16, <1>17 DEF Next, Work, Failure, Finished

\* Wherever the program dies, and after any failed write, the next launch
\* starts at the last acknowledged checkpoint or later (AckedSurvives).
THEOREM AckedCheckpointSurvives == Spec => []AckedSurvives
<1>1. Init => Alternation
  BY InitAlternation
<1>2. TypeOK /\ Totals /\ (TypeOK /\ Totals)' /\ Alternation /\ [Next]_vars
        => Alternation'
  BY AlternationStep
<1>3. Alternation => AckedSurvives
  BY DEF Alternation
<1> QED
  BY <1>1, <1>2, <1>3, TotalsInvariant, PTL DEF Spec

-----------------------------------------------------------------------------
(***************************************************************************)
(* The results file.  Buffers says what can be in stdio's buffer, Recorded *)
(* what is on the disk, Copies how often.                                  *)
(***************************************************************************)
Flushed == {"open_state", "close_state", "trickle", "write_cksum", "finish"}

Buffers ==
  /\ pc # "search" => reported = {}
  /\ pc \notin Running => results_file = {}
  /\ reported \subseteq Found(K) /\ results_file \subseteq Before(K) \cup reported
  /\ pc \in Flushed => results_file = {}

LEMMA InitBuffers == Init => Buffers
BY DEF Init, Buffers, Running, Flushed, Found, Before

\* No K starts with progressions reported, and none is left when it ends.
LEMMA BuffersStep ==
  ASSUME TypeOK, Buffers, [Next]_vars
  PROVE  Buffers'
<1> USE DEF Buffers, Running, Flushed, mem, disk, hist
<1>1. K \in Int
  BY WorkunitAssumption DEF TypeOK
<1>2. Before(K + 1) = Before(K) \cup Found(K)
  BY <1>1, BeforeNext
<1>3. CASE Launch \/ LaunchFinished \/ Resume \/ Begin
  BY <1>3 DEF Launch, LaunchFinished, Resume, Begin
<1>4. CASE SkipK \/ EndOfK
  BY <1>2, <1>4 DEF SkipK, EndOfK
<1>5. CASE NoCheckpoint \/ StartCheckpoint \/ CloseResults
  BY <1>5 DEF NoCheckpoint, StartCheckpoint, CloseResults
<1>6. CASE OpenState \/ CloseState \/ Trickle
  BY <1>6 DEF OpenState, CloseState, Trickle
<1>7. CASE \E ap \in AP : Report(ap)
  BY <1>7 DEF Report
<1>8. CASE WriteCksum \/ BoincFinish
  BY <1>8 DEF WriteCksum, BoincFinish, NoMemory
<1>9. CASE Crash \/ BeginFails \/ SearchFails
  BY <1>9 DEF Crash, BeginFails, SearchFails, Dies, NoMemory
<1>10. CASE CloseResultsFails \/ OpenStateFails \/ WriteStateFails
  BY <1>10
  DEF CloseResultsFails, OpenStateFails, WriteStateFails, Dies, NoMemory
<1>11. CASE CloseStateFails \/ WriteCksumFails
  BY <1>11 DEF CloseStateFails, WriteCksumFails, Dies, NoMemory
<1>12. CASE ClockSetBack \/ Tick \/ UNCHANGED vars
  BY <1>12 DEF ClockSetBack, Tick, vars
<1> QED
  BY <1>3, <1>4, <1>5, <1>6, <1>7, <1>8, <1>9, <1>10, <1>11, <1>12
  DEF Next, Work, Failure, Finished

\* fclose only ever adds lines.
LEMMA FlushGrows ==
  ASSUME TypeOK, NEW lines, NEW ap \in AP
  PROVE  /\ sol_lines[ap] \in Nat /\ Flush(lines)[ap] \in Nat
         /\ sol_lines[ap] <= Flush(lines)[ap]
         /\ ap \in lines => Flush(lines)[ap] = sol_lines[ap] + 1
         /\ ap \notin lines => Flush(lines)[ap] = sol_lines[ap]
BY DEF TypeOK, Flush

\* What the totals in memory or in a good file count is in the results file,
\* or in the buffer that goes there before the next state file is written.
Recorded ==
  /\ \A f \in Files : Good(state[f]) =>
       \A ap \in Long : KOf[ap] < state[f].K => sol_lines[ap] >= 1
  /\ pc \in Running =>
       \A ap \in Long : KOf[ap] < K \/ ap \in reported =>
         sol_lines[ap] >= 1 \/ ap \in results_file
  /\ pc = "done" => \A ap \in Long : sol_lines[ap] >= 1

LEMMA KOfType ==
  ASSUME NEW ap \in Long
  PROVE  ap \in AP /\ KOf[ap] \in Nat /\ KMIN <= KOf[ap] /\ KOf[ap] <= KMAX
BY WorkunitAssumption

LEMMA InitRecorded == Init => Recorded
BY UnreadableBad DEF Init, Recorded, Running

\* Recorded survives whatever leaves the files alone and takes no line away.
LEMMA MoreLines ==
  ASSUME TypeOK, TypeOK', Recorded, UNCHANGED state, pc' \notin Running \cup {"done"},
         \A ap \in AP : sol_lines[ap] <= sol_lines'[ap]
  PROVE  Recorded'
<1>1. \A ap \in Long : ap \in AP /\ sol_lines[ap] \in Nat /\ sol_lines'[ap] \in Nat
  BY KOfType DEF TypeOK
<1> QED
  BY <1>1 DEF Recorded

LEMMA RecordedStep ==
  ASSUME "results" \notin FaultKinds,
         TypeOK, Totals, Buffers, TypeOK', Recorded, [Next]_vars
  PROVE  Recorded'
<1> USE DEF Running, mem, disk, hist
<1>1. K \in Int /\ K <= KMAX + 1
  BY WorkunitAssumption DEF TypeOK
<1>2. CASE Launch \/ LaunchFinished
  BY <1>2 DEF Launch, LaunchFinished, Recorded
<1>3. CASE Resume
  <2>1. Chosen \in Files /\ Good(state[Chosen]) /\ K' = state[Chosen].K
    BY <1>3, ChosenGood DEF Resume
  <2>2. \A ap \in Long : KOf[ap] < K' => sol_lines[ap] >= 1
    BY <2>1 DEF Recorded
  <2>3. pc' = "done" => \A ap \in Long : KOf[ap] < K'
    <3>1. state[Chosen].K \in Nat
      BY <2>1 DEF TypeOK, StateFile
    <3> QED
      BY <1>3, <2>1, <3>1, KOfType, WorkunitAssumption DEF Resume
  <2>4. reported' = {} /\ UNCHANGED <<state, sol_lines>>
    BY <1>3 DEF Resume, Buffers
  <2> QED
    BY <2>2, <2>3, <2>4 DEF Recorded
<1>4. CASE Begin
  <2>1. \A f \in Files : ~Good(state[f])
    BY <1>4 DEF Begin, Chosen, Files
  <2>2. \A ap \in Long : ~(KOf[ap] < KMIN)
    BY KOfType, WorkunitAssumption
  <2> QED
    BY <1>4, <2>1, <2>2 DEF Begin, Recorded, Buffers
<1>5. CASE SkipK
  <2>1. \A ap \in Long : KOf[ap] < K + 1 => KOf[ap] < K
    BY <1>1, <1>5, KOfType, WorkunitAssumption DEF SkipK
  <2> QED
    BY <1>5, <2>1 DEF SkipK, Recorded
<1>6. CASE NoCheckpoint \/ StartCheckpoint
  BY <1>6 DEF NoCheckpoint, StartCheckpoint, Recorded
<1>7. CASE CloseResults
  <2>1. \A ap \in Long : KOf[ap] < K \/ ap \in reported => sol_lines'[ap] >= 1
    BY <1>7, FlushGrows, KOfType DEF CloseResults, Recorded
  <2>2. \A ap \in Long : sol_lines[ap] >= 1 => sol_lines'[ap] >= 1
    BY <1>7, FlushGrows, KOfType DEF CloseResults
  <2> QED
    BY <1>7, <2>1, <2>2 DEF CloseResults, Recorded
<1>8. CASE OpenState
  BY <1>8, UnreadableBad DEF OpenState, Recorded, TypeOK
<1>9. ASSUME pc = "close_state",
             NEW f \in {Unreadable, Checkpoint, CutCheckpoint},
             state' = [state EXCEPT ![Target] = f], UNCHANGED sol_lines
      PROVE  \A g \in Files : Good(state'[g]) =>
               \A ap \in Long : KOf[ap] < state'[g].K => sol_lines'[ap] >= 1
  <2>1. \A ap \in Long : KOf[ap] < K => sol_lines[ap] >= 1
    BY <1>9 DEF Recorded, Buffers, Flushed
  <2>2. Good(f) => f.K = K
    BY UnreadableBad DEF Checkpoint, CutCheckpoint
  <2> QED
    BY <1>9, <2>1, <2>2 DEF Recorded, TypeOK
<1>10. CASE CloseState
  BY <1>9, <1>10 DEF CloseState, Recorded
<1>11. CASE Trickle
  BY <1>11 DEF Trickle, Recorded
<1>12. CASE \E ap \in AP : Report(ap)
  BY <1>12 DEF Report, Recorded
<1>13. CASE EndOfK
  <2>1. \A ap \in Long : KOf[ap] < K + 1 => KOf[ap] < K \/ ap \in reported
    BY <1>1, <1>13, KOfType DEF EndOfK, Found
  <2> QED
    BY <1>13, <2>1 DEF EndOfK, Recorded
<1>14. CASE WriteCksum
  BY <1>14 DEF WriteCksum, Recorded
<1>15. CASE BoincFinish
  <2>1. \A ap \in Long : KOf[ap] < K
    BY <1>1, <1>15, KOfType, WorkunitAssumption DEF BoincFinish, Totals
  <2> QED
    BY <1>15, <2>1 DEF BoincFinish, Recorded, Buffers, Flushed
<1>16. CASE Crash
  <2>1. \A ap \in AP : sol_lines[ap] <= sol_lines'[ap]
    BY <1>16, FlushGrows DEF Crash
  <2>2. CASE UNCHANGED state
    BY <1>16, <2>1, <2>2, MoreLines DEF Crash, Dies
  <2>3. CASE pc = "close_state" /\ state' = [state EXCEPT ![Target] = Checkpoint]
    <3>1. results_file = {}
      BY <2>3 DEF Buffers, Flushed
    <3>2. \A ap \in AP : sol_lines'[ap] = sol_lines[ap]
      BY <1>16, <3>1, FlushGrows DEF Crash
    <3>3. sol_lines' = sol_lines
      BY <1>16, <3>1 DEF Crash, Flush, TypeOK
    <3> QED
      BY <1>9, <1>16, <2>3, <3>3 DEF Crash, Dies, Recorded
  <2> QED
    BY <1>16, <2>2, <2>3 DEF Crash
<1>17. CASE BeginFails
  BY <1>17 DEF BeginFails, Dies, Recorded
<1>18. CASE SearchFails
  <2>1. \A ap \in AP : sol_lines[ap] <= sol_lines'[ap]
    BY <1>18, FlushGrows DEF SearchFails
  <2> QED
    BY <1>18, <2>1, MoreLines DEF SearchFails, Dies
<1>19. CASE CloseResultsFails
  BY <1>19 DEF CloseResultsFails, Fault
<1>20. CASE OpenStateFails
  BY <1>20 DEF OpenStateFails, Dies, Recorded
<1>21. CASE WriteStateFails
  BY <1>21 DEF WriteStateFails, Recorded
<1>22. CASE CloseStateFails
  BY <1>9, <1>22 DEF CloseStateFails, Recorded
<1>23. CASE WriteCksumFails
  BY <1>23 DEF WriteCksumFails, Dies, Recorded
<1>24. CASE ClockSetBack \/ Tick \/ UNCHANGED vars
  BY <1>24 DEF ClockSetBack, Tick, vars, Recorded
<1> QED
  BY <1>2, <1>3, <1>4, <1>5, <1>6, <1>7, <1>8, <1>10, <1>11, <1>12, <1>13,
     <1>14, <1>15, <1>16, <1>17, <1>18, <1>19, <1>20, <1>21, <1>22, <1>23, <1>24
  DEF Next, Work, Failure, Finished

LEMMA RecordedSuffices ==
  ASSUME TypeOK, Totals, Buffers, Recorded
  PROVE  NoSolutionLost
<1>1. Chosen = "none" \/ (Chosen \in Files /\ Good(state[Chosen]))
  BY ChosenGood
<1>2. \A ap \in Long : KOf[ap] < DurableK => sol_lines[ap] >= 1
  <2>1. \A ap \in Long : ~(KOf[ap] < KMIN)
    BY KOfType, WorkunitAssumption
  <2> QED
    BY <1>1, <2>1 DEF DurableK, Recorded
<1>3. ASSUME pc \in {"write_cksum", "finish"}
      PROVE  \A ap \in Long : sol_lines[ap] >= 1
  <2>1. \A ap \in Long : KOf[ap] < K
    BY <1>3, KOfType, WorkunitAssumption DEF Totals
  <2> QED
    BY <1>3, <2>1 DEF Recorded, Buffers, Flushed, Running
<1> QED
  BY <1>2, <1>3 DEF NoSolutionLost, Recorded

\* As long as fclose(results_file) succeeds, no crash and no other failure makes
\* a later launch skip a solution that has no line (NoSolutionLost).
THEOREM SolutionsSurvive ==
  ASSUME "results" \notin FaultKinds
  PROVE  Spec => []NoSolutionLost
<1>1. Init => Buffers /\ Recorded
  BY InitBuffers, InitRecorded
<1>2. TypeOK /\ Totals /\ (TypeOK /\ Totals)' /\ Buffers /\ Recorded /\ [Next]_vars
        => Buffers' /\ Recorded'
  BY BuffersStep, RecordedStep
<1>3. TypeOK /\ Totals /\ Buffers /\ Recorded => NoSolutionLost
  BY RecordedSuffices
<1> QED
  BY <1>1, <1>2, <1>3, TotalsInvariant, PTL DEF Spec

-----------------------------------------------------------------------------
\* A line this launch may still write was written by earlier launches only.
Pending(ap) ==
  ap \in results_file \/ KOf[ap] > K \/ (KOf[ap] = K /\ ap \notin reported)

Copies ==
  /\ CopiesBounded
  /\ pc = "main" => \A ap \in AP : sol_lines[ap] < launches
  /\ pc \in Running => \A ap \in AP : Pending(ap) => sol_lines[ap] < launches

LEMMA InitCopies == Init => Copies
BY DEF Init, Copies, CopiesBounded, Running

\* Copies survives whatever writes buffered lines and forgets the rest.
LEMMA FlushOnce ==
  ASSUME TypeOK, Buffers, Copies, pc \in Running \cup {"main"},
         NEW lines \in SUBSET results_file,
         sol_lines' = Flush(lines), UNCHANGED launches
  PROVE  CopiesBounded'
<1>1. \A ap \in AP : sol_lines[ap] \in Nat /\ launches \in Nat
  BY DEF TypeOK
<1>2. \A ap \in lines : ap \in AP /\ sol_lines[ap] < launches
  BY WorkunitAssumption DEF TypeOK, Buffers, Copies, Pending
<1> QED
  BY <1>1, <1>2, FlushGrows DEF Copies, CopiesBounded

LEMMA CopiesStep ==
  ASSUME TypeOK, Buffers, Copies, [Next]_vars
  PROVE  Copies'
<1> USE DEF Running, mem, disk, hist
<1>1. K \in Int /\ launches \in Nat
  BY WorkunitAssumption DEF TypeOK
<1>2. \A ap \in AP : KOf[ap] \in Int /\ KOf[ap] <= KMAX /\ sol_lines[ap] \in Nat
  BY WorkunitAssumption DEF TypeOK
<1>3. CASE Launch \/ LaunchFinished
  BY <1>1, <1>2, <1>3 DEF Launch, LaunchFinished, Copies, CopiesBounded
<1>4. CASE Resume
  BY <1>1, <1>2, <1>4 DEF Resume, Copies, CopiesBounded
<1>5. CASE Begin
  <2>1. launches > 0 \/ AP = {}
    BY <1>1, <1>2, <1>5 DEF Begin, Copies
  <2> QED
    BY <1>1, <1>5, <2>1 DEF Begin, Copies, CopiesBounded
<1>6. CASE SkipK
  <2>1. \A ap \in AP : Pending(ap)' => Pending(ap)
    BY <1>1, <1>2, <1>6 DEF SkipK, Pending, Buffers
  <2> QED
    BY <1>6, <2>1 DEF SkipK, Copies, CopiesBounded
<1>7. CASE NoCheckpoint \/ StartCheckpoint
  BY <1>7 DEF NoCheckpoint, StartCheckpoint, Copies, CopiesBounded, Pending
<1>8. ASSUME NEW lines \in SUBSET results_file, pc = "close_results",
             sol_lines' = Flush(lines), results_file' = {},
             UNCHANGED <<K, reported, launches>>, pc' = "open_state"
      PROVE  Copies'
  <2>1. CopiesBounded'
    BY <1>8, FlushOnce
  <2>2. \A ap \in AP : Pending(ap)' => Pending(ap) /\ ap \notin lines
    BY <1>1, <1>2, <1>8 DEF Pending, Buffers, Before
  <2>3. \A ap \in AP : Pending(ap)' => sol_lines'[ap] < launches'
    BY <1>8, <2>2, FlushGrows DEF Copies
  <2> QED
    BY <1>8, <2>1, <2>3 DEF Copies
<1>9. CASE CloseResults \/ CloseResultsFails
  BY <1>8, <1>9 DEF CloseResults, CloseResultsFails
<1>10. CASE OpenState \/ CloseState \/ Trickle
  BY <1>10 DEF OpenState, CloseState, Trickle, Copies, CopiesBounded, Pending
<1>11. CASE \E ap \in AP : Report(ap)
  <2>1. \A ap \in AP : Pending(ap)' => Pending(ap)
    BY <1>11 DEF Report, Pending, Found
  <2> QED
    BY <1>11, <2>1 DEF Report, Copies, CopiesBounded
<1>12. CASE EndOfK
  <2>1. \A ap \in AP : Pending(ap)' => Pending(ap)
    BY <1>1, <1>2, <1>12 DEF EndOfK, Pending
  <2> QED
    BY <1>12, <2>1 DEF EndOfK, Copies, CopiesBounded
<1>13. CASE WriteCksum
  BY <1>13 DEF WriteCksum, Copies, CopiesBounded, Pending
<1>14. CASE Crash
  <2>1. CASE pc = "stopped"
    BY <1>14, <2>1 DEF Crash
  <2>2. CASE pc # "stopped"
    <3>1. PICK written \in SUBSET results_file : sol_lines' = Flush(written)
      BY <1>14 DEF Crash
    <3>2. pc \in Running \cup {"main"} /\ UNCHANGED launches /\ pc' = "stopped"
      BY <1>14, <2>2 DEF Crash, Dies, TypeOK, Steps
    <3>3. CopiesBounded'
      BY <3>1, <3>2, FlushOnce
    <3> QED
      BY <3>2, <3>3 DEF Copies
  <2> QED
    BY <2>1, <2>2
<1>15. CASE SearchFails
  <2>1. CopiesBounded'
    BY <1>15, FlushOnce DEF SearchFails
  <2> QED
    BY <1>15, <2>1 DEF SearchFails, Dies, Copies
<1>16. CASE BoincFinish \/ BeginFails
  BY <1>16 DEF BoincFinish, BeginFails, Dies, Copies, CopiesBounded
<1>17. CASE OpenStateFails \/ WriteCksumFails
  BY <1>17
  DEF OpenStateFails, WriteCksumFails, Dies, Copies, CopiesBounded, Pending
<1>18. CASE WriteStateFails \/ CloseStateFails
  BY <1>18 DEF WriteStateFails, CloseStateFails, Copies, CopiesBounded, Pending
<1>19. CASE ClockSetBack \/ Tick \/ UNCHANGED vars
  BY <1>19 DEF ClockSetBack, Tick, vars, Copies, CopiesBounded, Pending
<1> QED
  BY <1>3, <1>4, <1>5, <1>6, <1>7, <1>9, <1>10, <1>11, <1>12, <1>13, <1>14,
     <1>15, <1>16, <1>17, <1>18, <1>19 DEF Next, Work, Failure, Finished

\* A result line is in SOL-AP26.txt at most once per launch of the program
\* (CopiesBounded), whatever fails.
THEOREM OneCopyPerLaunch == Spec => []CopiesBounded
<1>1. Init => Buffers /\ Copies
  BY InitBuffers, InitCopies
<1>2. TypeOK /\ Buffers /\ Copies /\ [Next]_vars => Buffers' /\ Copies'
  BY BuffersStep, CopiesStep
<1>3. Copies => CopiesBounded
  BY DEF Copies
<1> QED
  BY <1>1, <1>2, <1>3, TypeCorrect, PTL DEF Spec
-----------------------------------------------------------------------------
Lines == {ap \in Long : sol_lines[ap] > 0}

Published == {sol_cksums[i] : i \in 1..Len(sol_cksums)}

-----------------------------------------------------------------------------
\* Flushed lines are recorded, and none is taken back.
LEMMA FlushRecords ==
  ASSUME TypeOK, NEW lines, sol_lines' = Flush(lines)
  PROVE  Lines' = Lines \cup (lines \cap Long)
<1>1. \A ap \in Long : ap \in AP /\ sol_lines[ap] \in Nat
  BY KOfType DEF TypeOK
<1>2. \A ap \in Long : sol_lines'[ap] > 0 <=> sol_lines[ap] > 0 \/ ap \in lines
  BY <1>1, FlushGrows
<1> QED
  BY <1>2 DEF Lines

LEMMA AppendedElements ==
  ASSUME NEW S, NEW s \in Seq(S), NEW x, NEW t, t = Append(s, x)
  PROVE  {t[i] : i \in 1..Len(t)} = {s[i] : i \in 1..Len(s)} \cup {x}
<1>1. /\ Len(s) \in Nat /\ Len(t) = Len(s) + 1
      /\ \A i \in 1..Len(s) : t[i] = s[i]
      /\ t[Len(s) + 1] = x
  OBVIOUS
<1>2. 1..Len(t) = 1..Len(s) \cup {Len(s) + 1}
  BY <1>1
<1> QED
  BY <1>1, <1>2

\* The states of Workunit as DurableSearch sees them.
LEMMA Stutters ==
  ASSUME UNCHANGED <<acked, sol_lines, sol_cksums>>, pc = "done" <=> pc' = "done"
  PROVE  UNCHANGED Durable!vars
BY DEF Durable!vars

LEMMA Records ==
  ASSUME TypeOK, NEW lines, sol_lines' = Flush(lines),
         UNCHANGED <<acked, sol_cksums>>, pc # "done", pc' # "done"
  PROVE  Durable!Record
<1>1. Lines' = Lines \cup (lines \cap Long)
  BY FlushRecords
<1>2. lines \cap Long \in SUBSET Long
  OBVIOUS
<1> QED
  BY <1>1, <1>2 DEF Durable!Record, Lines

LEMMA AllRecorded ==
  ASSUME TypeOK, \A ap \in Long : sol_lines[ap] >= 1
  PROVE  Lines = Long
<1>1. \A ap \in Long : sol_lines[ap] \in Nat
  BY KOfType DEF TypeOK
<1> QED
  BY <1>1 DEF Lines

LEMMA InitDurable == Init => Durable!Init
<1> SUFFICES ASSUME Init PROVE Durable!Init
  OBVIOUS
<1>1. \A ap \in Long : ap \in AP
  BY KOfType
<1>2. Len(sol_cksums) = 0
  BY DEF Init
<1> QED
  BY <1>1, <1>2 DEF Init, Durable!Init

LEMMA DurableStep ==
  ASSUME "results" \notin FaultKinds,
         TypeOK, Totals, Alternation, Buffers, Recorded, [Next]_vars
  PROVE  [Durable!Next]_(Durable!vars)
<1> USE DEF mem, disk, hist
<1>1. CASE Launch
  BY <1>1, Stutters DEF Launch
<1>2. CASE LaunchFinished
  BY <1>2 DEF LaunchFinished, Durable!Reopen, Durable!Next
<1>3. CASE Resume
  <2>1. Chosen \in Files /\ Good(state[Chosen])
    BY <1>3, ChosenGood DEF Resume
  <2>2. state[Chosen].K \in Nat
    BY <2>1 DEF TypeOK, StateFile
  <2>3. CASE state[Chosen].K > KMAX
    <3>1. \A ap \in Long : KOf[ap] < state[Chosen].K
      BY <2>2, <2>3, KOfType, WorkunitAssumption
    <3>2. Lines = Long
      BY <2>1, <3>1, AllRecorded DEF Recorded
    <3>3. pc' = "done" /\ UNCHANGED <<acked, sol_lines, sol_cksums>>
      BY <1>3, <2>3 DEF Resume
    <3> QED
      BY <3>2, <3>3 DEF Durable!Finish, Durable!Next, Lines
  <2>4. CASE ~(state[Chosen].K > KMAX)
    BY <1>3, <2>4, Stutters DEF Resume
  <2> QED
    BY <2>3, <2>4
<1>4. CASE Begin
  <2>1. acked = KMIN
    BY <1>4, WorkunitAssumption DEF Begin, DurableK, Alternation, AckedSurvives, TypeOK
  <2>2. Lines' = {}
    BY <1>4, KOfType DEF Begin, Lines
  <2>3. Published' = {}
    <3>1. Len(sol_cksums') = 0
      BY <1>4 DEF Begin
    <3> QED
      BY <3>1 DEF Published
  <2>4. UNCHANGED acked /\ pc # "done" /\ pc' # "done"
    BY <1>4 DEF Begin
  <2> QED
    BY <2>1, <2>2, <2>3, <2>4 DEF Durable!StartOver, Durable!Next, Lines, Published
<1>5. CASE SkipK \/ NoCheckpoint \/ StartCheckpoint \/ OpenState \/ Trickle \/ EndOfK
  BY <1>5, Stutters DEF SkipK, NoCheckpoint, StartCheckpoint, OpenState, Trickle, EndOfK
<1>6. CASE CloseResults
  BY <1>6, Records DEF CloseResults, Durable!Next
<1>7. CASE CloseState
  <2>1. UNCHANGED <<sol_lines, sol_cksums>> /\ acked' = K /\ pc # "done" /\ pc' # "done"
    BY <1>7 DEF CloseState
  <2>2. acked \in Int /\ K \in Int /\ K <= KMAX + 1 /\ acked <= K
    BY <1>7, WorkunitAssumption DEF CloseState, TypeOK, Alternation, Running
  <2>3. CASE acked = K
    BY <2>1, <2>3, Stutters
  <2>4. CASE acked # K
    <3>1. acked' \in (acked + 1)..(KMAX + 1)
      BY <2>1, <2>2, <2>4, WorkunitAssumption
    <3>2. \A ap \in Long : KOf[ap] < acked' => ap \in Lines
      <4>1. \A ap \in Long : KOf[ap] < K => sol_lines[ap] >= 1
        BY <1>7 DEF CloseState, Recorded, Buffers, Flushed, Running
      <4>2. \A ap \in Long : sol_lines[ap] \in Nat
        BY KOfType DEF TypeOK
      <4> QED
        BY <2>1, <4>1, <4>2 DEF Lines
    <3> QED
      BY <2>1, <3>1, <3>2 DEF Durable!Advance, Durable!Next, Lines
  <2> QED
    BY <2>3, <2>4
<1>8. CASE \E ap \in AP : Report(ap)
  BY <1>8, Stutters DEF Report
<1>9. CASE WriteCksum
  <2>1. Lines = Long
    BY <1>9, RecordedSuffices, AllRecorded DEF WriteCksum, NoSolutionLost
  <2>2. cksum = Canon(Mass[AP])
    BY <1>9, BeforeEnds DEF WriteCksum, Totals, CksumAt, Running
  <2> DEFINE right == BChecksum(KMIN, KMAX, Canon(Mass[AP]))
  <2>3. right = Durable!Total
    BY DEF Durable!Total, Durable!BChecksum, Durable!Canon, BChecksum, Canon
  <2>4. sol_cksums' = Append(sol_cksums, right)
    BY <1>9, <2>2 DEF WriteCksum
  <2>5. sol_cksums \in Seq(Nat \X Sums)
    BY DEF TypeOK
  <2> HIDE DEF right
  <2>6. Published' = Published \cup {right}
    <3>1. {sol_cksums'[i] : i \in 1..Len(sol_cksums')} = {sol_cksums[i] : i \in 1..Len(sol_cksums)} \cup {right}
      BY <2>4, <2>5, AppendedElements
    <3> QED
      BY <3>1 DEF Published
  <2>7. UNCHANGED <<acked, sol_lines>> /\ pc # "done" /\ pc' # "done"
    BY <1>9 DEF WriteCksum
  <2> QED
    BY <2>1, <2>3, <2>6, <2>7 DEF Durable!Publish, Durable!Next, Lines, Published
<1>10. CASE BoincFinish
  <2>1. Lines = Long
    BY <1>10, RecordedSuffices, AllRecorded DEF BoincFinish, NoSolutionLost
  <2>2. UNCHANGED <<acked, sol_lines, sol_cksums>> /\ pc' = "done"
    BY <1>10 DEF BoincFinish
  <2> QED
    BY <2>1, <2>2 DEF Durable!Finish, Durable!Next, Lines
<1>11. CASE Crash
  <2>1. PICK written \in SUBSET results_file : sol_lines' = Flush(written)
    BY <1>11 DEF Crash
  <2>2. UNCHANGED <<acked, sol_cksums>> /\ pc # "done" /\ pc' # "done"
    BY <1>11 DEF Crash, Dies
  <2> QED
    BY <2>1, <2>2, Records DEF Durable!Next
<1>12. CASE SearchFails
  BY <1>12, Records DEF SearchFails, Dies, Durable!Next
<1>13. CASE CloseResultsFails
  BY <1>13 DEF CloseResultsFails, Fault
<1>14. CASE BeginFails \/ OpenStateFails \/ WriteStateFails \/ CloseStateFails \/ WriteCksumFails
  BY <1>14, Stutters DEF BeginFails, OpenStateFails, WriteStateFails, CloseStateFails, WriteCksumFails, Dies
<1>15. CASE ClockSetBack \/ Tick \/ UNCHANGED vars
  BY <1>15, Stutters DEF ClockSetBack, Tick, vars
<1> QED
  BY <1>1, <1>2, <1>3, <1>4, <1>5, <1>6, <1>7, <1>8, <1>9, <1>10, <1>11, <1>12,
     <1>13, <1>14, <1>15 DEF Next, Work, Failure, Finished

\* As long as fclose(results_file) succeeds, the program with all its crashes
\* and other failures implements DurableSearch: the acknowledged K only
\* advances, over no solution that has no line, and nothing is published or
\* finished before every solution has its line.
THEOREM RefinesDurableSearch ==
  ASSUME "results" \notin FaultKinds
  PROVE  Spec => ImplementsDurableSearch
<1>1. Init => Alternation /\ Buffers /\ Recorded
  BY InitAlternation, InitBuffers, InitRecorded
<1>2. TypeOK /\ Totals /\ (TypeOK /\ Totals)' /\ Alternation /\ Buffers /\ Recorded /\ [Next]_vars
        => (Alternation /\ Buffers /\ Recorded)'
  BY AlternationStep, BuffersStep, RecordedStep
<1>3. Init => Durable!Init
  BY InitDurable
<1>4. TypeOK /\ Totals /\ Alternation /\ Buffers /\ Recorded /\ [Next]_vars
        => [Durable!Next]_(Durable!vars)
  BY DurableStep
<1> QED
  BY <1>1, <1>2, <1>3, <1>4, TotalsInvariant, PTL DEF Spec, ImplementsDurableSearch, Durable!Spec

-----------------------------------------------------------------------------
\* One checksum line.  Once it is written, or about to be, a state file says
\* that the workunit is searched to its end, and every relaunch finds it.

Ended == \E f \in Files : Good(state[f]) /\ state[f].K = KMAX + 1

LastCheckpointFirst ==
  faults = 0 =>
    /\ Len(sol_cksums) <= 1
    /\ Len(sol_cksums) > 0 => pc \in {"stopped", "main", "finish", "done"} /\ Ended
    /\ pc = "trickle" /\ force => Ended
    /\ pc = "write_cksum" => Ended

LEMMA EndedResumes ==
  ASSUME TypeOK, Totals, Ended
  PROVE  Chosen # "none" /\ state[Chosen].K > KMAX
<1>1. PICK f \in Files : Good(state[f]) /\ state[f].K = KMAX + 1
  BY DEF Ended
<1>2. Chosen # "none"
  BY <1>1 DEF Chosen, Files
<1>3. state[f].K <= DurableK
  BY <1>1, DurableAbove
<1>4. DurableK = state[Chosen].K /\ DurableK \in Int /\ KMAX \in Int
  BY <1>2, DurableType, WorkunitAssumption DEF DurableK
<1> QED
  BY <1>1, <1>2, <1>3, <1>4

LEMMA LastCheckpointStep ==
  ASSUME TypeOK, Totals, LastCheckpointFirst, [Next]_vars
  PROVE  LastCheckpointFirst'
<1> USE DEF mem, disk, hist, LastCheckpointFirst
<1>0. faults \in Nat /\ sol_cksums \in Seq(Nat \X Sums) /\ Len(sol_cksums) \in Nat
  BY DEF TypeOK
<1>1. ASSUME UNCHANGED <<state, sol_cksums, faults>>,
             Len(sol_cksums) > 0 /\ pc \in {"stopped", "main", "finish", "done"}
               => pc' \in {"stopped", "main", "finish", "done"},
             pc' \notin {"trickle", "write_cksum"}
      PROVE  LastCheckpointFirst'
  BY <1>1 DEF Ended
<1>2. CASE Launch \/ LaunchFinished \/ BoincFinish
  BY <1>1, <1>2 DEF Launch, LaunchFinished, BoincFinish
<1>3. CASE Resume
  <2>1. UNCHANGED <<state, sol_cksums, faults>>
    BY <1>3 DEF Resume
  <2>2. Ended => pc' = "done"
    BY <1>3, EndedResumes DEF Resume
  <2>3. pc' \in {"done", "loop"}
    BY <1>3 DEF Resume
  <2> QED
    BY <1>1, <2>1, <2>2, <2>3
<1>4. CASE Begin
  <2>1. Len(sol_cksums') = 0 /\ pc' = "loop"
    BY <1>4 DEF Begin
  <2> QED
    BY <2>1
<1>5. CASE SkipK \/ NoCheckpoint \/ StartCheckpoint \/ CloseResults \/ EndOfK
      \/ (\E ap \in AP : Report(ap))
  BY <1>1, <1>5 DEF SkipK, NoCheckpoint, StartCheckpoint, CloseResults, EndOfK, Report
<1>6. CASE OpenState
  BY <1>0, <1>6 DEF OpenState
<1>7. CASE CloseState
  <2>1. force => K = KMAX + 1
    BY <1>7, WorkunitAssumption DEF CloseState, Totals, Checkpointing, TypeOK
  <2>2. state'[Target] = Checkpoint /\ Good(Checkpoint) /\ Checkpoint.K = K /\ Target \in Files
    BY <1>7, TargetFile, CheckpointGood DEF CloseState, TypeOK, Checkpoint
  <2>3. force => Ended'
    BY <2>1, <2>2 DEF Ended
  <2>4. UNCHANGED <<sol_cksums, faults, force>> /\ pc = "close_state" /\ pc' = "trickle"
    BY <1>7 DEF CloseState
  <2> QED
    BY <1>0, <2>3, <2>4
<1>8. CASE Trickle
  <2>1. UNCHANGED <<state, sol_cksums, faults>> /\ pc = "trickle"
        /\ pc' = IF force THEN "write_cksum" ELSE "search"
    BY <1>8 DEF Trickle
  <2> QED
    BY <1>0, <2>1 DEF Ended
<1>9. CASE WriteCksum
  <2>1. UNCHANGED <<state, faults>> /\ pc = "write_cksum" /\ pc' = "finish"
        /\ Len(sol_cksums') = Len(sol_cksums) + 1
    BY <1>0, <1>9 DEF WriteCksum
  <2> QED
    BY <1>0, <2>1 DEF Ended
<1>10. CASE Crash
  <2>1. UNCHANGED <<sol_cksums, faults>> /\ pc' = "stopped"
    BY <1>10 DEF Crash, Dies
  <2>2. faults = 0 /\ Len(sol_cksums) > 0 => UNCHANGED state
    BY <1>10 DEF Crash
  <2> QED
    BY <2>1, <2>2 DEF Ended
<1>11. CASE Failure /\ ~Crash
  <2>1. faults' = faults + 1
    BY <1>11 DEF Failure, BeginFails, SearchFails, CloseResultsFails, OpenStateFails,
                 WriteStateFails, CloseStateFails, WriteCksumFails, ClockSetBack, Fault
  <2> QED
    BY <1>0, <2>1
<1>12. CASE Tick \/ UNCHANGED vars
  <2>1. UNCHANGED <<pc, force, state, sol_cksums, faults>>
    BY <1>12 DEF Tick, vars
  <2> QED
    BY <2>1 DEF Ended
<1> QED
  BY <1>2, <1>3, <1>4, <1>5, <1>6, <1>7, <1>8, <1>9, <1>10, <1>11, <1>12
  DEF Next, Work, Failure, Finished

\* Whenever the process is killed, and however often it is started again, the
\* checksum line is written once (OneChecksumLine).
THEOREM OneLine == Spec => []OneChecksumLine
<1>1. Init => LastCheckpointFirst
  BY DEF Init, LastCheckpointFirst
<1>2. TypeOK /\ Totals /\ LastCheckpointFirst /\ [Next]_vars => LastCheckpointFirst'
  BY LastCheckpointStep
<1>3. LastCheckpointFirst => OneChecksumLine
  BY DEF LastCheckpointFirst, OneChecksumLine
<1> QED
  BY <1>1, <1>2, <1>3, TotalsInvariant, PTL DEF Spec

-----------------------------------------------------------------------------
\* Trickles.  What this launch remembers as last_trickle is the trickle it sent.

Remembered ==
  /\ sent.by <= launches
  /\ pc = "main" => sent.by < launches
  /\ pc \in Running /\ sent.by = launches => last_trickle = sent.at

LEMMA Remainder ==
  ASSUME NEW n \in Nat, NEW m \in Nat \ {0}
  PROVE  n % m <= n
<1>1. n = m * (n \div m) + (n % m) /\ n \div m \in Int /\ n % m \in 0..(m - 1)
  OBVIOUS
<1>2. n \div m >= 0
  BY <1>1
<1>3. m * (n \div m) >= 0
  BY <1>1, <1>2
<1> QED
  BY <1>1, <1>3

LEMMA RememberedStep ==
  ASSUME TypeOK, Remembered, [Next]_vars
  PROVE  Remembered'
<1> USE DEF mem, disk, hist, Running, Remembered
<1>0. sent \in [at : Int, by : Nat] /\ launches \in Nat /\ now \in Nat
  BY DEF TypeOK
<1>1. ASSUME UNCHANGED <<launches, sent, now>>,
             \/ pc' \in {"stopped", "done"}
             \/ pc \in Running /\ pc' \in Running /\ UNCHANGED last_trickle
      PROVE  Remembered'
  BY <1>1
<1>2. CASE Launch \/ LaunchFinished
  BY <1>0, <1>2 DEF Launch, LaunchFinished
<1>3. CASE Resume \/ Begin
  BY <1>0, <1>3 DEF Resume, Begin
<1>4. CASE SkipK \/ NoCheckpoint \/ StartCheckpoint \/ CloseResults \/ OpenState \/ CloseState
  BY <1>1, <1>4 DEF SkipK, NoCheckpoint, StartCheckpoint, CloseResults, OpenState, CloseState
<1>5. CASE Trickle
  BY <1>0, <1>5 DEF Trickle
<1>6. CASE EndOfK \/ WriteCksum \/ BoincFinish \/ \E ap \in AP : Report(ap)
  BY <1>1, <1>6 DEF EndOfK, WriteCksum, BoincFinish, Report
<1>7. CASE Crash \/ BeginFails \/ SearchFails
  BY <1>1, <1>7 DEF Crash, BeginFails, SearchFails, Dies
<1>8. CASE CloseResultsFails \/ OpenStateFails \/ WriteStateFails \/ CloseStateFails
           \/ WriteCksumFails
  BY <1>1, <1>8 DEF CloseResultsFails, OpenStateFails, WriteStateFails, CloseStateFails,
                    WriteCksumFails, Dies
<1>9. CASE ClockSetBack
  BY <1>9 DEF ClockSetBack, Fault
<1>10. CASE Tick
  BY <1>0, <1>10 DEF Tick
<1>11. CASE UNCHANGED vars
  BY <1>11 DEF vars
<1> QED
  BY <1>2, <1>3, <1>4, <1>5, <1>6, <1>7, <1>8, <1>9, <1>10, <1>11
  DEF Next, Work, Failure, Finished

LEMMA SpacingStep ==
  ASSUME TypeOK, Remembered, [Next]_vars
  PROVE  [sent' # sent /\ sent'.by = sent.by
            => sent'.at - sent.at > TRICKLE_GAP \/ sent'.at < sent.at]_vars
<1> USE DEF mem, disk, hist
<1> SUFFICES ASSUME sent' # sent, sent'.by = sent.by, ~(sent'.at < sent.at)
             PROVE  sent'.at - sent.at > TRICKLE_GAP
  OBVIOUS
<1>1. CASE Trickle
  <2>1. TrickleDue /\ sent' = [at |-> now, by |-> launches] /\ pc = "trickle"
    BY <1>1 DEF Trickle
  <2>2. sent.by = launches /\ sent'.at = now
    BY <2>1
  <2>3. last_trickle = sent.at
    BY <2>1, <2>2 DEF Remembered, Running
  <2>4. now - last_trickle \in Nat
    BY <2>2, <2>3 DEF TypeOK
  <2>5. TimeWord \in Nat \ {0} /\ TRICKLE_GAP \in Nat
    BY WorkunitAssumption
  <2>6. (now - last_trickle) % TimeWord <= now - last_trickle
    BY <2>4, <2>5, Remainder
  <2>7. (now - last_trickle) % TimeWord > TRICKLE_GAP /\ (now - last_trickle) % TimeWord \in Int
    BY <2>1, <2>4, <2>5 DEF TrickleDue
  <2> QED
    BY <2>2, <2>3, <2>4, <2>5, <2>6, <2>7
<1>2. CASE ~Trickle
  <2>1. sent' = sent
    BY <1>2 DEF Next, Work, Failure, Finished, vars, Launch, LaunchFinished, Resume, Begin,
      SkipK, NoCheckpoint, StartCheckpoint, CloseResults, OpenState, CloseState, Report, EndOfK,
      WriteCksum, BoincFinish, Crash, BeginFails, SearchFails, CloseResultsFails,
      OpenStateFails, WriteStateFails, CloseStateFails, WriteCksumFails, ClockSetBack, Tick
  <2> QED
    BY <2>1
<1> QED
  BY <1>1, <1>2

\* A launch sends its trickles more than TRICKLE_GAP apart, or the later one at an
\* earlier reading of the clock, whenever and however far that is set back and
\* whatever last_trickle a torn state file gave it (TrickleSpacing).
THEOREM TricklesSpaced == Spec => TrickleSpacing
<1>1. Init => Remembered
  BY WorkunitAssumption DEF Init, Remembered, Running
<1>2. TypeOK /\ Remembered /\ [Next]_vars => Remembered'
  BY RememberedStep
<1>3. TypeOK /\ Remembered /\ [Next]_vars
        => [sent' # sent /\ sent'.by = sent.by
              => sent'.at - sent.at > TRICKLE_GAP \/ sent'.at < sent.at]_vars
  BY SpacingStep
<1> QED
  BY <1>1, <1>2, <1>3, TypeCorrect, PTL DEF Spec, TrickleSpacing
=============================================================================
