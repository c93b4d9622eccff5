---------------------------- MODULE MCHandleTable ----------------------------
(* Six allocations in five slots: an instance, a profile that is given back *)
(* for its slot, a bundle, a session, an arena and a lease; or one slot    *)
(* used five times, whose generation wraps after the second.               *)
EXTENDS HandleTable, TLC

Identities == Permutations(Identity)
=============================================================================
