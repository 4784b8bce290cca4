--------------------------- MODULE MCMissionLease ---------------------------
(* Two managers over one backend, interchangeable holders. *)
EXTENDS MissionLease, TLC
Perms == Permutations(Holders) \cup Permutations(Managers)
=============================================================================
