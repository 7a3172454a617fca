-------------------------- MODULE MCArtifactRetention --------------------------
(* Instances of ArtifactRetention: jobs with one cache key. *)
EXTENDS ArtifactRetention, TLC

OneKey == [j \in Jobs |-> 1]
Symmetry == Permutations(Cleaners) \cup Permutations(Jobs)
=============================================================================
