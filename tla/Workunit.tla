------------------------------ MODULE Workunit ------------------------------
(***************************************************************************)
(* One workunit of AP26 from the first launch to boinc_finish, across      *)
(* crashes, failed system calls and relaunches: main's loop over K, the    *)
(* two alternating checkpoint files (write_state, read_state, checkpoint), *)
(* the results file SOL-AP26.txt with its stdio buffer (ReportSolution,    *)
(* write_cksum) and the daily trickle (handle_trickle_up).                 *)
(*                                                                         *)
(* The search of one K is the pair Report / EndOfK; WorkPool opens it up.  *)
(* A crash is the death of the process: what was handed to the operating   *)
(* system stays, what sits in memory or in a stdio buffer is gone.         *)
(***************************************************************************)
EXTENDS Checksum, Sequences, FiniteSets

CONSTANTS
  KMIN, KMAX,      \* the command line: search KMIN <= K <= KMAX
  AP,              \* the progressions of length >= 10 in that range
  KOf,             \* the K under which the search meets each of them
  Long,            \* those with a line of length >= 20 to report
  Mass,            \* what ReportSolution adds for a set of them, unreduced
  GPU,             \* TRUE: cuda/opencl main, FALSE: cpu main
  STANDALONE,      \* boinc_is_standalone()
  StartTime, MaxTime,  \* time() when the story starts, bound on its growth
  CKPT_GAP,        \* 60 seconds
  TRICKLE_GAP,     \* 86400 seconds
  TimeWord,        \* 2^64, the modulus of the uint64_t clock difference
  FaultKinds,      \* which failures this instance exercises
  MaxFaults,       \* bound: how many of them
  MaxLaunches      \* bound: how often the program is started

PRIMES == {29, 31, 37, 41, 43, 47, 53, 59}

Lower(a, b) == IF a < b THEN a ELSE b

will_search(k) == \A p \in PRIMES : k % p # 0

AllFaults == {"begin", "search", "results", "open", "write", "close",
              "cksum", "clock"}

ASSUME WorkunitAssumption ==
  /\ KMIN \in Nat /\ KMAX \in Nat /\ KMIN <= KMAX
  /\ IsFiniteSet(AP) /\ Long \subseteq AP
  /\ KOf \in [AP -> KMIN..KMAX]
  /\ \A ap \in AP : will_search(KOf[ap])
  /\ Mass \in [SUBSET AP -> Nat]
  /\ Mass[{}] = 0
  /\ \A S, T \in SUBSET AP : S \cap T = {} => Mass[S \cup T] = Mass[S] + Mass[T]
  /\ StartTime \in Nat /\ CKPT_GAP \in Nat /\ StartTime > CKPT_GAP
  /\ MaxTime \in Nat /\ TRICKLE_GAP \in Nat /\ TimeWord \in Nat \ {0}
  /\ GPU \in BOOLEAN /\ STANDALONE \in BOOLEAN
  /\ FaultKinds \subseteq AllFaults
  /\ MaxFaults \in Nat /\ MaxLaunches \in Nat

VARIABLES
  \* the process
  pc, K, cksum, totalaps, write_state_a_next, last_trickle, last_ckpt,
  force,          \* the argument of checkpoint(): is this the last one?
  reported,       \* progressions of the current K reported so far
  results_file,   \* lines written but not flushed; {} is a NULL results_file
  \* the disk and the clock
  state,          \* AP26-state.a.txt and AP26-state.b.txt
  sol_lines,      \* how often each progression's line is in SOL-AP26.txt
  sol_cksums,     \* the checksum lines in it, in order
  now,
  \* history
  launches, faults,
  acked,          \* K of the last checkpoint whose fclose returned 0
  sent            \* when, and by which launch, the last trickle was sent

mem   == <<K, cksum, totalaps, write_state_a_next, last_trickle, last_ckpt,
           force, reported, results_file>>
disk  == <<state, sol_lines, sol_cksums>>
hist  == <<launches, faults, acked, sent>>
vars  == <<pc, mem, disk, now, hist>>

Steps == {"stopped", "main", "loop", "search", "close_results", "open_state",
          "close_state", "trickle", "write_cksum", "finish", "done"}

Files == {"A", "B"}

\* parsed: fscanf finds 7 fields; mine: KMIN, KMAX and SHIFT match.
StateFile == [parsed : BOOLEAN, mine : BOOLEAN, K : Nat, cksum : Nat,
              totalaps : Nat, last_trickle : Nat]

\* A file that is absent, empty or cut off.
Unreadable == [parsed |-> FALSE, mine |-> FALSE, K |-> 0, cksum |-> 0,
               totalaps |-> 0, last_trickle |-> 0]

\* The checkpoint of another workunit, further on than any of this one.
Foreign == [parsed |-> TRUE, mine |-> FALSE, K |-> KMAX + 2, cksum |-> 0,
            totalaps |-> 0, last_trickle |-> 0]

\* Deviation: the parameters in the file are not compared.
GoodOfAnyWorkunit(f) == f.parsed

Good(f) == f.parsed /\ f.mine

\* Deviation: file A wins when both files are good.
ChosenPrefersA ==
  IF Good(state["A"]) THEN "A" ELSE IF Good(state["B"]) THEN "B" ELSE "none"

\* read_state's choice: the larger K, file B when they are equal.
Chosen ==
  LET a == Good(state["A"])
      b == Good(state["B"])
  IN  IF a /\ b THEN (IF state["A"].K > state["B"].K THEN "A" ELSE "B")
      ELSE IF a THEN "A" ELSE IF b THEN "B" ELSE "none"

\* Deviation: one state file only.
TargetAlwaysA == "A"

Target == IF write_state_a_next THEN "A" ELSE "B"

Found(k)  == {ap \in AP : KOf[ap] = k}
Before(k) == {ap \in AP : KOf[ap] < k}

Flush(lines) ==
  [ap \in AP |-> IF ap \in lines THEN sol_lines[ap] + 1 ELSE sol_lines[ap]]

-----------------------------------------------------------------------------
\* What a dead process leaves in the model's memory variables.
NoMemory ==
  /\ K' = KMIN /\ cksum' = 0 /\ totalaps' = 0 /\ write_state_a_next' = TRUE
  /\ last_trickle' = 0 /\ last_ckpt' = 0 /\ force' = FALSE
  /\ reported' = {} /\ results_file' = {}

Init ==
  /\ pc = "stopped"
  /\ K = KMIN /\ cksum = 0 /\ totalaps = 0 /\ write_state_a_next = TRUE
  /\ last_trickle = 0 /\ last_ckpt = 0 /\ force = FALSE
  /\ reported = {} /\ results_file = {}
  /\ state \in [Files -> {Unreadable, Foreign}]
  /\ sol_lines = [ap \in AP |-> 0] /\ sol_cksums = << >>
  /\ now = StartTime
  /\ launches = 0 /\ faults = 0 /\ acked = KMIN
  /\ sent = [at |-> -TRICKLE_GAP - 1, by |-> 0]

Launch ==
  /\ pc = "stopped" /\ launches < MaxLaunches
  /\ pc' = "main" /\ launches' = launches + 1
  /\ UNCHANGED <<mem, disk, now, faults, acked, sent>>

\* "trying to resume a finished workunit" starts with somebody starting it.
LaunchFinished ==
  /\ pc = "done" /\ launches < MaxLaunches
  /\ pc' = "main" /\ launches' = launches + 1
  /\ UNCHANGED <<mem, disk, now, faults, acked, sent>>

\* main, read_state returned 1.
Resume ==
  /\ pc = "main" /\ Chosen # "none"
  /\ LET f == state[Chosen] IN
       /\ K' = f.K /\ cksum' = f.cksum /\ totalaps' = f.totalaps
       /\ last_trickle' = f.last_trickle
       /\ write_state_a_next' = (Chosen = "B")
       /\ pc' = IF f.K > KMAX THEN "done" ELSE "loop"
  /\ last_ckpt' = IF GPU THEN now ELSE 0
  /\ UNCHANGED <<force, reported, results_file, disk, now, hist>>

\* main, read_state returned 0: clear the results file and start at KMIN.
Begin ==
  /\ pc = "main" /\ Chosen = "none"
  /\ K' = KMIN /\ cksum' = 0 /\ totalaps' = 0 /\ write_state_a_next' = TRUE
  /\ sol_lines' = [ap \in AP |-> 0] /\ sol_cksums' = << >>
  /\ last_trickle' = now
  /\ last_ckpt' = IF GPU THEN now ELSE 0
  /\ pc' = "loop"
  /\ UNCHANGED <<force, reported, results_file, state, now, hist>>

SkipK ==
  /\ pc = "loop" /\ K <= KMAX /\ ~will_search(K)
  /\ K' = K + 1
  /\ UNCHANGED <<pc, cksum, totalaps, write_state_a_next, last_trickle,
                 last_ckpt, force, reported, results_file, disk, now, hist>>

\* checkpoint(SHIFT, K, 0) at the top of the loop, and checkpoint(SHIFT, K, 1)
\* after it: either nothing is due, or the results file is closed next.
CheckpointDue == now - last_ckpt > CKPT_GAP

NoCheckpoint ==
  /\ pc = "loop" /\ K <= KMAX /\ will_search(K) /\ ~CheckpointDue
  /\ pc' = "search"
  /\ UNCHANGED <<mem, disk, now, hist>>

\* Deviation: the last checkpoint waits its minute like any other.
StartCheckpointNotForced ==
  /\ pc = "loop" /\ CheckpointDue
  /\ K > KMAX \/ will_search(K)
  /\ force' = (K > KMAX) /\ last_ckpt' = now
  /\ pc' = "close_results"
  /\ UNCHANGED <<K, cksum, totalaps, write_state_a_next, last_trickle,
                 reported, results_file, disk, now, hist>>

StartCheckpoint ==
  /\ pc = "loop"
  /\ \/ K <= KMAX /\ will_search(K) /\ CheckpointDue /\ force' = FALSE
     \/ K > KMAX /\ force' = TRUE
  /\ last_ckpt' = now
  /\ pc' = "close_results"
  /\ UNCHANGED <<K, cksum, totalaps, write_state_a_next, last_trickle,
                 reported, results_file, disk, now, hist>>

\* Deviation: the results file stays open across the checkpoint.
CloseResultsForgotten ==
  /\ pc = "close_results" /\ pc' = "open_state"
  /\ UNCHANGED <<mem, disk, now, hist>>

\* Deviation: results_file is flushed but its lines are written again later.
CloseResultsKeepsLines ==
  /\ pc = "close_results"
  /\ sol_lines' = Flush(results_file)
  /\ pc' = "open_state"
  /\ UNCHANGED <<mem, state, sol_cksums, now, hist>>

CloseResults ==
  /\ pc = "close_results"
  /\ sol_lines' = Flush(results_file) /\ results_file' = {}
  /\ pc' = "open_state"
  /\ UNCHANGED <<K, cksum, totalaps, write_state_a_next, last_trickle,
                 last_ckpt, force, reported, state, sol_cksums, now, hist>>

\* write_state, my_fopen(.., "w"): the file is truncated.
OpenState ==
  /\ pc = "open_state"
  /\ state' = [state EXCEPT ![Target] = Unreadable]
  /\ pc' = "close_state"
  /\ UNCHANGED <<mem, sol_lines, sol_cksums, now, hist>>

\* Deviation: the K after the one to search next.
CheckpointNextK == [parsed |-> TRUE, mine |-> TRUE, K |-> Lower(K + 1, KMAX + 1),
                    cksum |-> cksum, totalaps |-> totalaps,
                    last_trickle |-> last_trickle]

\* Deviation: KMAX instead of KMAX + 1 at the end.
CheckpointAtKMAX == [parsed |-> TRUE, mine |-> TRUE, K |-> Lower(K, KMAX),
                     cksum |-> cksum, totalaps |-> totalaps,
                     last_trickle |-> last_trickle]

Checkpoint == [parsed |-> TRUE, mine |-> TRUE, K |-> K, cksum |-> cksum,
               totalaps |-> totalaps, last_trickle |-> last_trickle]

\* The same line without its last digits: fscanf still finds seven numbers.
CutCheckpoint == [parsed |-> TRUE, mine |-> TRUE, K |-> K, cksum |-> cksum,
                  totalaps |-> totalaps, last_trickle |-> 0]

\* write_state, fprintf and an fclose that returned 0.
CloseState ==
  /\ pc = "close_state"
  /\ state' = [state EXCEPT ![Target] = Checkpoint]
  /\ write_state_a_next' = ~write_state_a_next
  /\ acked' = K
  /\ pc' = "trickle"
  /\ UNCHANGED <<K, cksum, totalaps, last_trickle, last_ckpt, force, reported,
                 results_file, sol_lines, sol_cksums, now, launches, faults, sent>>

\* handle_trickle_up, the unsigned difference of two clock readings.
\* Deviation: >= for >.
TrickleDueOnTheDay == ~STANDALONE /\ (now - last_trickle) % TimeWord >= TRICKLE_GAP

TrickleDue == ~STANDALONE /\ (now - last_trickle) % TimeWord > TRICKLE_GAP

Trickle ==
  /\ pc = "trickle"
  /\ IF TrickleDue
     THEN last_trickle' = now /\ sent' = [at |-> now, by |-> launches]
     ELSE UNCHANGED <<last_trickle, sent>>
  /\ pc' = IF force THEN "write_cksum" ELSE "search"
  /\ UNCHANGED <<K, cksum, totalaps, write_state_a_next, last_ckpt, force,
                 reported, results_file, disk, now, launches, faults, acked>>

\* ReportSolution while K is searched: the threads fix no order.
Report(ap) ==
  /\ pc = "search" /\ ap \in Found(K) \ reported
  /\ reported' = reported \cup {ap}
  /\ results_file' = IF ap \in Long THEN results_file \cup {ap} ELSE results_file
  /\ UNCHANGED <<pc, K, cksum, totalaps, write_state_a_next, last_trickle,
                 last_ckpt, force, disk, now, hist>>

\* The search of K returns: its checksum and count are in the totals.
EndOfK ==
  /\ pc = "search" /\ reported = Found(K)
  /\ cksum' = AddMod(cksum, Canon(Mass[Found(K)]))
  /\ totalaps' = totalaps + Cardinality(Found(K))
  /\ K' = K + 1 /\ reported' = {}
  /\ pc' = "loop"
  /\ UNCHANGED <<write_state_a_next, last_trickle, last_ckpt, force,
                 results_file, disk, now, hist>>

WriteCksum ==
  /\ pc = "write_cksum"
  /\ sol_cksums' = Append(sol_cksums, BChecksum(KMIN, KMAX, cksum))
  /\ pc' = "finish"
  /\ UNCHANGED <<mem, state, sol_lines, now, hist>>

BoincFinish ==
  /\ pc = "finish"
  /\ pc' = "done" /\ NoMemory
  /\ UNCHANGED <<disk, now, hist>>
-----------------------------------------------------------------------------
\* Failures.  Fault(kind) bounds them; those that end the process need a
\* launch left, so that the story can go on.
Fault(kind) ==
  /\ kind \in FaultKinds /\ faults < MaxFaults
  /\ faults' = faults + 1

Dies == launches < MaxLaunches /\ pc' = "stopped" /\ NoMemory

\* kill -9, power to the process, an operating system that goes down cleanly.
\* fclose hands the state file over in one write, which may have happened; of
\* the result lines those are written that stdio flushed to make room.
Crash ==
  /\ pc \notin {"stopped", "done"} /\ Dies
  /\ \/ UNCHANGED state
     \/ pc = "close_state" /\ state' = [state EXCEPT ![Target] = Checkpoint]
  /\ \E written \in SUBSET results_file : sol_lines' = Flush(written)
  /\ UNCHANGED <<sol_cksums, now, hist>>

\* main cannot open the results file: exit(EXIT_FAILURE).
BeginFails ==
  /\ pc = "main" /\ Chosen = "none" /\ Fault("begin") /\ Dies
  /\ UNCHANGED <<disk, now, launches, acked, sent>>

\* An error while K is searched: a line that cannot be written, an invalid
\* progression, a thread that cannot start, a full GPU array.  exit(EXIT_FAILURE)
\* flushes the stdio buffers.
SearchFails ==
  /\ pc = "search" /\ Fault("search") /\ Dies
  /\ sol_lines' = Flush(results_file)
  /\ UNCHANGED <<state, sol_cksums, now, launches, acked, sent>>

\* fclose(results_file) fails and nobody looks: some lines never arrive.
CloseResultsFails ==
  /\ pc = "close_results" /\ Fault("results")
  /\ \E written \in SUBSET results_file : sol_lines' = Flush(written)
  /\ results_file' = {}
  /\ pc' = "open_state"
  /\ UNCHANGED <<K, cksum, totalaps, write_state_a_next, last_trickle, last_ckpt,
                 force, reported, state, sol_cksums, now, launches, acked, sent>>

\* my_fopen returns NULL and fprintf(NULL, ..) is called all the same: that
\* kills the process, or a C library that checks its argument returns -1.
OpenStateFails ==
  /\ pc = "open_state" /\ Fault("open")
  /\ Dies \/ (pc' = "trickle" /\ UNCHANGED mem)
  /\ UNCHANGED <<disk, now, launches, acked, sent>>

\* fprintf returns a negative number: "Cannot write to %s !!! Continuing..."
WriteStateFails ==
  /\ pc = "close_state" /\ Fault("write")
  /\ pc' = "trickle"
  /\ UNCHANGED <<mem, disk, now, launches, acked, sent>>

\* fclose does not return 0.  The file may hold nothing that parses, all of
\* the line, or enough of it for read_state.
CloseStateFails ==
  /\ pc = "close_state" /\ Fault("close")
  /\ \E torn \in {Unreadable, Checkpoint, CutCheckpoint} :
       state' = [state EXCEPT ![Target] = torn]
  /\ pc' = "trickle"
  /\ UNCHANGED <<mem, sol_lines, sol_cksums, now, launches, acked, sent>>

\* The results file cannot be opened or written: exit(EXIT_FAILURE).  Or the
\* fclose at the end of write_cksum fails and nobody looks.
WriteCksumFails ==
  /\ pc = "write_cksum" /\ Fault("cksum")
  /\ Dies \/ (pc' = "finish" /\ UNCHANGED mem)
  /\ UNCHANGED <<disk, now, launches, acked, sent>>

ClockSetBack ==
  /\ Fault("clock")
  /\ \E t \in StartTime..now : t < now /\ now' = t
  /\ UNCHANGED <<pc, mem, disk, launches, acked, sent>>

Tick ==
  /\ now < MaxTime /\ now' = now + 1
  /\ UNCHANGED <<pc, mem, disk, hist>>

Work ==
  \/ Resume \/ Begin \/ SkipK \/ NoCheckpoint \/ StartCheckpoint
  \/ CloseResults \/ OpenState \/ CloseState \/ Trickle
  \/ \E ap \in AP : Report(ap)
  \/ EndOfK \/ WriteCksum \/ BoincFinish

Failure ==
  \/ Crash \/ BeginFails \/ SearchFails \/ CloseResultsFails
  \/ OpenStateFails \/ WriteStateFails \/ CloseStateFails \/ WriteCksumFails
  \/ ClockSetBack

\* boinc_finish returned; every other state without a successor is a deadlock.
Finished == pc = "done" /\ UNCHANGED vars

Next == Launch \/ LaunchFinished \/ Work \/ Failure \/ Tick \/ Finished

Spec == Init /\ [][Next]_vars

\* The scheduler runs the process, and a stopped workunit is launched again.
FairSpec == Spec /\ WF_vars(Work) /\ WF_vars(Launch)
-----------------------------------------------------------------------------
\* Every variable has its type; K never passes KMAX + 1, whatever a state file
\* on the disk says.
TypeOK ==
  /\ pc \in Steps /\ K \in KMIN..(KMAX + 1)
  /\ cksum \in Sums /\ totalaps \in Nat
  /\ write_state_a_next \in BOOLEAN /\ force \in BOOLEAN
  /\ last_trickle \in Nat /\ last_ckpt \in Nat
  /\ reported \in SUBSET AP /\ results_file \in SUBSET Long
  /\ state \in [Files -> StateFile]
  /\ sol_lines \in [AP -> Nat]
  /\ sol_cksums \in Seq(Nat \X Sums)
  /\ now \in Nat /\ launches \in Nat /\ faults \in Nat
  /\ acked \in KMIN..(KMAX + 1)
  /\ sent \in [at : Int, by : Nat]

\* The totals an uninterrupted run has when it reaches k.
CksumAt(k) == Canon(Mass[Before(k)])
ApsAt(k)   == Cardinality(Before(k))

\* Whatever crashes, torn writes and relaunches came before, a state file that
\* read_state accepts holds the checksum and the count an uninterrupted run
\* has at its K: a resumed search never counts a progression twice or misses it.
StateFilesExact ==
  \A f \in Files : Good(state[f]) =>
    /\ state[f].K \in KMIN..(KMAX + 1)
    /\ state[f].cksum = CksumAt(state[f].K)
    /\ state[f].totalaps = ApsAt(state[f].K)

\* Where a launch of the program would start.
DurableK == IF Chosen = "none" THEN KMIN ELSE state[Chosen].K

\* Two files, written in turn: at every moment, in the middle of a write and
\* after any failed one too, a relaunch starts no earlier than the last
\* checkpoint write_state took for good (its fclose returned 0).
AckedSurvives == DurableK >= acked

\* checkpoint() closes the results file before it writes the state: what the
\* next launch will not search again has its line in SOL-AP26.txt.
NoSolutionLost ==
  /\ \A ap \in Long : KOf[ap] < DurableK => sol_lines[ap] >= 1
  /\ pc \in {"write_cksum", "finish", "done"} =>
       \A ap \in Long : sol_lines[ap] >= 1

\* A search that is repeated after a crash repeats its lines, once per launch
\* and no more: a line is written twice only if the program was started twice.
CopiesBounded == \A ap \in AP : sol_lines[ap] <= launches

\* Every checksum line is the one of an uninterrupted run.
ChecksumRight ==
  \A i \in 1..Len(sol_cksums) :
    sol_cksums[i] = BChecksum(KMIN, KMAX, Canon(Mass[AP]))

\* The last checkpoint (K = KMAX+1) comes before write_cksum, so that a crash
\* behind it cannot lead to a second checksum line.
OneChecksumLine == faults = 0 => Len(sol_cksums) <= 1

\* Between two trickles of one launch more than a day goes by on a clock that may
\* be set back at any time and by a last_trickle that a torn file may have lost;
\* only a clock that shows less than it did at the last one, an unsigned
\* difference of almost 2^64, makes one due at once.
TrickleSpacing ==
  [][sent' # sent /\ sent'.by = sent.by
        => sent'.at - sent.at > TRICKLE_GAP \/ sent'.at < sent.at]_vars

\* With finitely many crashes and failures the workunit reaches boinc_finish.
Finishes == <>(pc = "done")
-----------------------------------------------------------------------------
\* "All search results and a result checksum will be appended to SOL-AP26.txt":
\* a workunit reported as finished has its checksum line.  A crash between the
\* last checkpoint and write_cksum refutes it.
FinishedHasChecksum == pc = "done" => sol_cksums # << >>

\* The same sentence about the results: a failing fclose(results_file), which
\* checkpoint() does not look at, refutes it.
FinishedHasResults == pc = "done" => \A ap \in Long : sol_lines[ap] >= 1

\* "Once per day", over all launches: the state file is written before the
\* trickle it should remember, so a relaunch sends it again.
OncePerDay == [][sent' # sent => sent'.at - sent.at > TRICKLE_GAP]_vars

\* What DurableSearch calls its variables.
Durable == INSTANCE DurableSearch WITH
  pos       <- acked,
  recorded  <- {ap \in Long : sol_lines[ap] > 0},
  published <- {sol_cksums[i] : i \in 1..Len(sol_cksums)},
  finished  <- pc = "done"

\* The program with its crashes implements a search that only ever advances.
ImplementsDurableSearch == Durable!Spec
=============================================================================
