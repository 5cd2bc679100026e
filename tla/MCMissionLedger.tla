--------------------------- MODULE MCMissionLedger ---------------------------
(* Missions with different limits; two spellings of one person.            *)
EXTENDS MissionLedger, TLC

CONSTANTS m1, m2, ann, ANN, bob, t1, t2

MCCapacity == [m \in Missions |-> IF m = m1 THEN 1 ELSE 2]
MCFold == [x \in Actors |-> IF x = bob THEN "bob" ELSE "ann"]
Symmetry == {f @@ g : f \in Permutations(Promotions), g \in Permutations({ann, ANN})}
=============================================================================
