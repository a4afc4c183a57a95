----------------------------- MODULE MCMeshNode -----------------------------
(* Instances of MeshNode for TLC.  Clients and aliases are interchangeable:  *)
(* no definition orders them, and the runs that use the symmetry check only   *)
(* invariants and properties of single steps.                                 *)
EXTENDS MeshNode, TLC

Symmetry == Permutations(Client) \cup Permutations(Alias)
=============================================================================
