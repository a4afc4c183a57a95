-------------------------- MODULE MCGuestServices --------------------------
(* An instance of GuestServices for TLC.  Executions, tenants and callers are *)
(* interchangeable: no definition orders them.                                *)
EXTENDS GuestServices, TLC

Symmetry == Permutations(Exec) \cup Permutations(Tenant) \cup Permutations(Caller)
=============================================================================
