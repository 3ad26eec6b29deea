---------------------- MODULE MCConflictResolverAndroid ----------------------
(* Small instances of ConflictResolverAndroid: the calls are model values. *)
EXTENDS ConflictResolverAndroid

CONSTANTS c1, c2, c3

=============================================================================
