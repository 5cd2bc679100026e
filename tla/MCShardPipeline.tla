--------------------------- MODULE MCShardPipeline ---------------------------
(* Instances of ShardPipeline: shard "a" splits into train and val          *)
(* documents, shard "b" has no train documents at all.                      *)
EXTENDS ShardPipeline, TLC

CONSTANTS a, b

MCSplitsOf == [s \in Sources |-> IF s = a THEN {"train", "val"} ELSE {"val"}]
MCShards   == Sources \cup {<<s, "val">> : s \in Sources}

Symmetry == Permutations(Curators) \cup Permutations(Trainers)
=============================================================================
