---------------------------- MODULE MCMissionRuns ----------------------------
EXTENDS MissionRuns, TLC

CONSTANTS m1, w1, w2, w3

MCCapacity == [m \in Missions |-> 1]
MCFold == [x \in Actors |-> x]
=============================================================================
