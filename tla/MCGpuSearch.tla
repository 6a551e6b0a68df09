---------------------------- MODULE MCGpuSearch ----------------------------
(***************************************************************************)
(* GpuSearch for TLC.  Tables of six words make one or two launches.       *)
(* K = 1: progressions at the first and at the last word of all.  K = 2:   *)
(* three candidates in one small launch, too many for its array, not for   *)
(* that of a large one.  K = 3: no candidate.  K = 4: more progressions    *)
(* than sol.  K = 5: one past 2^64-1.  K = 6: one progression.             *)
(***************************************************************************)
EXTENDS GpuSearch

CONSTANTS c1, c2, c3, c4, c5, c6, c7, c8, c9, c10, c11

MCCands == {c1, c2, c3, c4, c5, c6, c7, c8, c9, c10, c11}
MCAP == {c1, c2, c4, c5, c7, c8, c9, c11}
MCTooLarge == {c10}

Place(k, s, array, word) == [K |-> k, shift |-> s, array |-> array, word |-> word]

MCWhere == [c \in MCCands |->
  CASE c = c1  -> Place(1, 0, 0, 0)
    [] c = c2  -> Place(1, NShifts - 1, 1, halfn59s - 1)
    [] c = c3  -> Place(1, 0, 1, 3)
    [] c = c4  -> Place(2, 0, 0, 1)
    [] c = c5  -> Place(2, 0, 0, 2)
    [] c = c6  -> Place(2, 0, 0, 3)
    [] c = c7  -> Place(4, 0, 0, 0)
    [] c = c8  -> Place(4, 0, 1, 0)
    [] c = c9  -> Place(4, 0, 1, halfn59s - 1)
    [] c = c10 -> Place(5, 0, 1, 2)
    [] c = c11 -> Place(6, NShifts - 1, 0, 4)]
=============================================================================
