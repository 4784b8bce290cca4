----------------------------- MODULE GraphNodes -----------------------------
(* The nodes of a graph: its steps, by their index in the pipeline. *)
EXTENDS Naturals

CONSTANT N  \* number of steps
ASSUME NodesAssumption == N \in Nat

Nodes == 1..N
=============================================================================
