------------------------ MODULE MCCheckpointStorage ------------------------
(* Permutations of workers and objects for CheckpointStorage. *)
EXTENDS CheckpointStorage, TLC

WorkersAndIds == Permutations(Workers) \cup Permutations(Ids)
=============================================================================
