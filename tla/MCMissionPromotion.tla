-------------------------- MODULE MCMissionPromotion --------------------------
EXTENDS MissionPromotion, TLC

CONSTANTS m1, p1, p2, p3, ann, bob

MCCapacity == [m \in Missions |-> 1]
MCFold == [x \in Actors |-> x]
Symmetry == Permutations(Promotions) \cup Permutations(Actors)
=============================================================================
