----------------------- MODULE MCSyncPluginInterceptor -----------------------
(* Small instances of SyncPluginInterceptor.  One replicator has two        *)
(* request interceptors and one response interceptor, the other none for    *)
(* requests: chains of length 0, 1 and 2, answered by the same maps.        *)
EXTENDS SyncPluginInterceptor, TLC

CONSTANTS u1, u2, r1, r2

MCInstalled == (r1 :> [request |-> 2, response |-> 1])

MCInstalledTwo == (r1 :> [request |-> 2, response |-> 1]) @@
                  (r2 :> [request |-> 0, response |-> 1])

MCInstalledThree == (r1 :> [request |-> 3, response |-> 2])

=============================================================================
