------------------------- MODULE MCReplicatorRegistry -------------------------
(* Small instances of ReplicatorRegistry. *)
EXTENDS ReplicatorRegistry

=============================================================================
