------------------------------- MODULE MCSpawn -------------------------------
(* Symmetry for the safety run of Spawn. *)
EXTENDS Spawn, TLC

Symmetry == Permutations(Npcs) \cup Permutations(Killers) \cup Permutations(Executors)
=============================================================================
