------------------------- MODULE MCExperimentQueue -------------------------
(* Two runners.  Both jobs of p1 need the GPU, and ann proposed the first;  *)
(* p2 has a cpu job before its GPU job.                                     *)
EXTENDS ExperimentQueue

CONSTANTS p1, p2, ann, bob, cat

MCOwnersOf == [p \in Procs |-> IF p = p1 THEN {ann, bob} ELSE {cat}]
MCResourceOf == [p \in Procs |-> [j \in Jobs |-> IF p = p2 /\ j = 1 THEN "cpu" ELSE "gpu"]]
MCProposerOf == [p \in Procs |-> [j \in Jobs |-> IF p = p1 /\ j = 1 THEN ann ELSE NULL]]
=============================================================================
