--------------------------- MODULE MCVectorMemory ---------------------------
(* Agents and ids of records are interchangeable. *)
EXTENDS VectorMemory, TLC

Symmetry == Permutations(Agent) \cup Permutations(Id)
=============================================================================
