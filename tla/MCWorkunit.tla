----------------------------- MODULE MCWorkunit -----------------------------
(***************************************************************************)
(* Workunit for TLC: K runs over 28..31, of which will_search skips 29 and *)
(* 31 (a K in the middle and the last one), with one progression under     *)
(* K = 28 and two under K = 30.                                            *)
(***************************************************************************)
EXTENDS Workunit, FiniteSetsExt

CONSTANTS a28, a30, s30

MCAP == {a28, a30, s30}
MCLong == {a28, a30}
MCKOf == [ap \in MCAP |-> IF ap = a28 THEN 28 ELSE 30]

\* Sums that pass MAXINTV = 5 once, that reach it exactly, and that do not.
Credit(ap) == CASE ap = a28 -> 2 [] ap = a30 -> 4 [] ap = s30 -> 3

MCMass == [S \in SUBSET MCAP |-> MapThenSumSet(Credit, S)]
=============================================================================
