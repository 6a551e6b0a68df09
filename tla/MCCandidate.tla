----------------------------- MODULE MCCandidate ------------------------------
(* A small instance of Candidate: STEP is a multiple of 30, and the inputs    *)
(* lie near 1, near the top of the word and around the pseudoprimes, of which *)
(* 2047 and 3277 meet in one progression with K = 41.                         *)
EXTENDS Candidate

MCbase == <<2, 3, 5, 7, 11, 13>>

Coprime(a, b) == {i \in a .. b : i % 2 # 0 /\ i % 3 # 0 /\ i % 5 # 0}
Around(Ks) == {<<x + j * 30 * d, d>> : x \in Pseudoprimes \cup {1}, j \in 0 - 9 .. 4, d \in Ks}

(* The candidates the CPU gets leave its walk room below the top of the word. *)
Room(input) == input[1] + 14 * 30 * input[2] < R
Positive(input) == input[1] > 0 /\ input[1] < R

CpuInputs == {i \in (Coprime(1, 1500) \X {1, 7}) \cup Around({1, 7, 13, 14, 19, 24, 41, 43, 51, 70}) :
                Positive(i) /\ Room(i)}
GpuInputs == {i \in (Coprime(63000, R - 1) \X {1, 7}) \cup Around({1, 19, 41, 43}) : Positive(i)}
MCInputs == {<<"cpu", i[1], i[2]>> : i \in CpuInputs} \cup {<<"gpu", i[1], i[2]>> : i \in GpuInputs}
=============================================================================
