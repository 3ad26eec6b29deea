---------------------------- MODULE MCStoreRegistry ----------------------------
(* Small instances of StoreRegistry. *)
EXTENDS StoreRegistry

=============================================================================
