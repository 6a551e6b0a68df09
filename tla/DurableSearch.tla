---------------------------- MODULE DurableSearch ----------------------------
(***************************************************************************)
(* What a workunit promises, without processes, files and crashes: a       *)
(* position that only advances, result lines that are on record before the *)
(* position passes them, one checksum value, and an end.                   *)
(***************************************************************************)
EXTENDS Checksum

CONSTANTS KMIN, KMAX, AP, KOf, Long, Mass

VARIABLES
  pos,        \* everything below this K is searched for good
  recorded,   \* progressions with a line in the results file
  published,  \* the checksums in the results file
  finished    \* boinc_finish was called

vars == <<pos, recorded, published, finished>>

Total == BChecksum(KMIN, KMAX, Canon(Mass[AP]))

Init == pos = KMIN /\ recorded = {} /\ published = {} /\ finished = FALSE

Record ==
  /\ \E lines \in SUBSET Long : recorded' = recorded \cup lines
  /\ UNCHANGED <<pos, published, finished>>

Advance ==
  /\ pos' \in (pos + 1)..(KMAX + 1)
  /\ \A ap \in Long : KOf[ap] < pos' => ap \in recorded
  /\ UNCHANGED <<recorded, published, finished>>

\* Only a search that has nothing to lose is begun again.
StartOver ==
  /\ pos = KMIN
  /\ recorded' = {} /\ published' = {}
  /\ UNCHANGED <<pos, finished>>

Publish ==
  /\ recorded = Long
  /\ published' = published \cup {Total}
  /\ UNCHANGED <<pos, recorded, finished>>

Finish ==
  /\ recorded = Long /\ finished' = TRUE
  /\ UNCHANGED <<pos, recorded, published>>

Reopen ==
  /\ finished /\ finished' = FALSE
  /\ UNCHANGED <<pos, recorded, published>>

Next == Record \/ Advance \/ StartOver \/ Publish \/ Finish \/ Reopen

Spec == Init /\ [][Next]_vars
=============================================================================
