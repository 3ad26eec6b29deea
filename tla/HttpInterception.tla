--------------------------- MODULE HttpInterception ---------------------------
(***************************************************************************)
(* What one HTTP interception promises the replication library, whatever   *)
(* the platform: the blocked HTTP thread is let go exactly once, and the   *)
(* request or response it carries is then either exactly as it was or what *)
(* ALL the installed interceptors, in order, made of it -- never the work  *)
(* of a part of them.                                                      *)
(***************************************************************************)
CONSTANT Uuid

VARIABLES
  status,   \* "idle", then "open" while the HTTP thread is held, then "closed"
  outcome   \* what the thread went on with, once closed

vars == <<status, outcome>>

TypeOK ==
  /\ status \in [Uuid -> {"idle", "open", "closed"}]
  /\ outcome \in [Uuid -> {"none", "original", "complete"}]

Init ==
  /\ status = [u \in Uuid |-> "idle"]
  /\ outcome = [u \in Uuid |-> "none"]

\* An HTTP thread reaches an interception point.
Open(u) ==
  /\ status[u] = "idle"
  /\ status' = [status EXCEPT ![u] = "open"]
  /\ UNCHANGED outcome

\* The thread goes on, with the untouched context or the completed one.
Close(u) ==
  /\ status[u] = "open"
  /\ status' = [status EXCEPT ![u] = "closed"]
  /\ \E o \in {"original", "complete"} : outcome' = [outcome EXCEPT ![u] = o]

Next == \E u \in Uuid : Open(u) \/ Close(u)

Safe == Init /\ [][Next]_vars

Spec == Safe /\ \A u \in Uuid : WF_vars(Close(u))

=============================================================================
