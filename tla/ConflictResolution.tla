-------------------------- MODULE ConflictResolution --------------------------
(***************************************************************************)
(* What Datastore.resolveConflictsForDocument promises, whatever the       *)
(* platform: the document changes only by a revision the application's     *)
(* conflictResolver returned to this call, at most once, and the promise   *)
(* of the call settles once, after whatever was done to the document.      *)
(***************************************************************************)
CONSTANT Call

VARIABLES
  promise,  \* the promise the caller holds
  answer,   \* what the application returned: nothing yet, or
            \* leave the document alone ("keep"), or a new winner
  effect    \* what became of the document

vars == <<promise, answer, effect>>

Init ==
  /\ promise = [c \in Call |-> "none"]
  /\ answer = [c \in Call |-> "none"]
  /\ effect = [c \in Call |-> "none"]

Begin(c) ==
  /\ promise[c] = "none"
  /\ promise' = [promise EXCEPT ![c] = "pending"]
  /\ UNCHANGED <<answer, effect>>

\* The application is asked once, while the call is pending.
Decide(c) ==
  /\ promise[c] = "pending"
  /\ answer[c] = "none"
  /\ \E a \in {"keep", "winner"} : answer' = [answer EXCEPT ![c] = a]
  /\ UNCHANGED <<promise, effect>>

\* The document is changed, found to need no change, or could not be changed.
Apply(c) ==
  /\ promise[c] = "pending"
  /\ effect[c] = "none"
  /\ \/ effect' = [effect EXCEPT ![c] = "unchanged"]
     \/ effect' = [effect EXCEPT ![c] = "failed"]
     \/ /\ answer[c] = "winner"
        /\ effect' = [effect EXCEPT ![c] = "changed"]
  /\ UNCHANGED <<promise, answer>>

Settle(c) ==
  /\ promise[c] = "pending"
  /\ effect[c] # "none"
  /\ \E p \in {"resolved", "rejected"} : promise' = [promise EXCEPT ![c] = p]
  /\ UNCHANGED <<answer, effect>>

Next == \E c \in Call : Begin(c) \/ Decide(c) \/ Apply(c) \/ Settle(c)

Safe == Init /\ [][Next]_vars

\* A call that was begun is seen through.
Fairness == \A c \in Call : WF_vars(Apply(c)) /\ WF_vars(Settle(c))

Spec == Safe /\ Fairness

=============================================================================
