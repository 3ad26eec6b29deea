------------------------ MODULE MCConflictResolverIOS ------------------------
(* Small instances of ConflictResolverIOS: the calls are model values. *)
EXTENDS ConflictResolverIOS

CONSTANTS c1, c2

=============================================================================
