---------------------------- MODULE RangeSearch ----------------------------
(***************************************************************************)
(* What main relies on when it calls Search_sse2 (and its siblings) or     *)
(* SearchAP26: the progressions of one K after the other are reported, in  *)
(* any order, and a K is left when all of its own were, with their number  *)
(* added to totalaps.  No threads, no GPU.  The search may stop anywhere.  *)
(***************************************************************************)
EXTENDS Integers, FiniteSets

CONSTANTS NK, AP, KOf

VARIABLES
  K,          \* the K being searched
  reported,   \* those of its progressions that were reported
  totalaps

vars == <<K, reported, totalaps>>

Found(k) == {ap \in AP : KOf[ap] = k}

Init == K \in 1..NK /\ reported = {} /\ totalaps = 0

Report(ap) ==
  /\ ap \in Found(K) \ reported
  /\ reported' = reported \cup {ap}
  /\ UNCHANGED <<K, totalaps>>

EndOfK ==
  /\ K <= NK /\ reported = Found(K)
  /\ totalaps' = totalaps + Cardinality(Found(K))
  /\ K' = K + 1 /\ reported' = {}

Next == EndOfK \/ \E ap \in AP : Report(ap)

Spec == Init /\ [][Next]_vars
=============================================================================
