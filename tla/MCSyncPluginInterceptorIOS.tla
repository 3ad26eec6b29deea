--------------------- MODULE MCSyncPluginInterceptorIOS ---------------------
(* Small instances of SyncPluginInterceptorIOS: chains of two request        *)
(* interceptors and one response interceptor.                                *)
EXTENDS SyncPluginInterceptorIOS, TLC

CONSTANTS u1, u2, r1

MCInstalled == (r1 :> [request |-> 2, response |-> 1])

=============================================================================
