-------------------------- MODULE MCReplicatorToken --------------------------
(* A small instance of ReplicatorKeys: the bounds are numbers of its .cfg. *)
EXTENDS ReplicatorKeys

=============================================================================
