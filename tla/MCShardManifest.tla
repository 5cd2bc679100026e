--------------------------- MODULE MCShardManifest ---------------------------
(* ShardManifest on a small instance: shards, workers and tokenizers are    *)
(* interchangeable, so TLC may identify states that differ by renaming.     *)
EXTENDS ShardManifest, TLC

Symmetry == Permutations(Shards) \cup Permutations(Curators) \cup Permutations(Trainers) \cup Permutations(Tokenizers)
=============================================================================
