--------------------------- MODULE MCTriggerRunner ---------------------------
(* Two processes, one stable key besides the cron keys. *)
EXTENDS TriggerRunner, TLC
CONSTANTS p1, p2, s1
Symmetry == Permutations({p1, p2})
=============================================================================
