----------------------------- MODULE MCWorkPool -----------------------------
(***************************************************************************)
(* WorkPool for TLC: a table whose size is no multiple of the chunk, with  *)
(* two progressions at one index and one in the last, shorter chunk.       *)
(***************************************************************************)
EXTENDS WorkPool, FiniteSetsExt

CONSTANTS a, b, c, d

MCAP == {a, b, c, d}
MCLong == {a, c}
MCWhere == [ap \in MCAP |-> CASE ap = a -> <<0, 1>>
                              [] ap = b -> <<0, 1>>
                              [] ap = c -> <<0, numn43s - 1>>
                              [] ap = d -> <<NIterations - 1, 0>>]

\* Sums that pass MAXINTV = 5, locally and in the merge.
Credit(ap) == CASE ap = a -> 2 [] ap = b -> 4 [] ap = c -> 3 [] ap = d -> 1

MCMass == [S \in SUBSET MCAP |-> MapThenSumSet(Credit, S)]
=============================================================================
