---------------------------- MODULE ConflictCalls ----------------------------
(***************************************************************************)
(* The JavaScript half of conflict resolution: Datastore's                 *)
(* resolveConflictsForDocument and returnResolvedDocument                  *)
(* (www/datastoremanager.js).  One Cordova callback carries two results to *)
(* the page: first the conflicting revisions, for the application's        *)
(* conflictResolver, then the end of the resolution, for its promise; the  *)
(* flag firstCall tells them apart.  Results of one callback arrive in the *)
(* order in which they were sent; nothing orders those of different calls. *)
(***************************************************************************)
EXTENDS Sequences

CONSTANT Call   \* calls, named by their Cordova callback id

VARIABLES
  promise,    \* the deferred of each call
  firstCall,  \* whether successHandler still expects the conflicts
  answer,     \* history: what the conflictResolver did
  execs,      \* resolveConflictsForDocument calls on their way to native code
  results,    \* plugin results on their way back, per callback
  returns     \* returnResolvedDocument calls on their way to native code

scriptVars == <<promise, firstCall, answer, execs, results, returns>>

\* What the application may return, as native code will find it: nothing; one
\* of the conflicting revisions; a revision that is not one of them; one that
\* passes validateDocumentRevision but not the native conversion.
Returned == {"null", "known", "stranger", "broken"}

Result == {"conflicts", "ok", "error"}

Return == [resolver: Call, docRev: Returned]

ScriptTypeOK ==
  /\ promise \in [Call -> {"none", "pending", "resolved", "rejected"}]
  /\ firstCall \in [Call -> BOOLEAN]
  /\ answer \in [Call -> Returned \cup {"none", "threw"}]
  /\ execs \subseteq Call
  /\ results \in [Call -> Seq(Result)]
  /\ returns \subseteq Return

ScriptInit ==
  /\ promise = [c \in Call |-> "none"]
  /\ firstCall = [c \in Call |-> TRUE]
  /\ answer = [c \in Call |-> "none"]
  /\ execs = {}
  /\ results = [c \in Call |-> <<>>]
  /\ returns = {}

Arrived(c, r) == results[c] # <<>> /\ Head(results[c]) = r

Consume(c) == results' = [results EXCEPT ![c] = Tail(@)]

\* Native code sends a result of callback c.
Send(c, r) == results' = [results EXCEPT ![c] = Append(@, r)]

ResolveConflicts(c) ==
  /\ promise[c] = "none"
  /\ promise' = [promise EXCEPT ![c] = "pending"]
  /\ execs' = execs \cup {c}
  /\ UNCHANGED <<firstCall, answer, results, returns>>

\* Mutant: a resolver that leaves the document alone is not reported back.
HandleConflictsUnlessNull(c) ==
  /\ Arrived(c, "conflicts")
  /\ firstCall[c]
  /\ Consume(c)
  /\ \E d \in Returned :
       /\ answer' = [answer EXCEPT ![c] = d]
       /\ returns' = IF d = "null" THEN returns
                     ELSE returns \cup {[resolver |-> c, docRev |-> d]}
  /\ firstCall' = [firstCall EXCEPT ![c] = FALSE]
  /\ UNCHANGED <<promise, execs>>

\* Mutant: the conflicts resolve the promise as well.
HandleConflictsResolving(c) ==
  /\ Arrived(c, "conflicts")
  /\ firstCall[c]
  /\ Consume(c)
  /\ \E d \in Returned :
       /\ answer' = [answer EXCEPT ![c] = d]
       /\ returns' = returns \cup {[resolver |-> c, docRev |-> d]}
  /\ firstCall' = [firstCall EXCEPT ![c] = FALSE]
  /\ promise' = [promise EXCEPT ![c] = "resolved"]
  /\ UNCHANGED execs

\* successHandler, first call: ask the conflictResolver, send what it returns.
HandleConflicts(c) ==
  /\ Arrived(c, "conflicts")
  /\ firstCall[c]
  /\ Consume(c)
  /\ \E d \in Returned :
       /\ answer' = [answer EXCEPT ![c] = d]
       /\ returns' = returns \cup {[resolver |-> c, docRev |-> d]}
  /\ firstCall' = [firstCall EXCEPT ![c] = FALSE]
  /\ UNCHANGED <<promise, execs>>

\* successHandler, first call: the conflictResolver throws, or what it returned
\* fails validateDocumentRevision.  The exception ends the handler: nothing is
\* sent, firstCall stays set and the promise stays pending.
ResolverThrows(c) ==
  /\ Arrived(c, "conflicts")
  /\ firstCall[c]
  /\ Consume(c)
  /\ answer' = [answer EXCEPT ![c] = "threw"]
  /\ UNCHANGED <<promise, firstCall, execs, returns>>

\* successHandler with anything but the first conflicts.
HandleOk(c) ==
  /\ \E r \in {"ok", "conflicts"} : Arrived(c, r)
  /\ Arrived(c, "conflicts") => ~firstCall[c]
  /\ Consume(c)
  /\ promise' = [promise EXCEPT ![c] = IF @ = "pending" THEN "resolved" ELSE @]
  /\ UNCHANGED <<firstCall, answer, execs, returns>>

HandleError(c) ==
  /\ Arrived(c, "error")
  /\ Consume(c)
  /\ promise' = [promise EXCEPT ![c] = IF @ = "pending" THEN "rejected" ELSE @]
  /\ UNCHANGED <<firstCall, answer, execs, returns>>

\* The event loop runs the handler of every result that arrives.
Handle(c) ==
  HandleConflicts(c) \/ ResolverThrows(c) \/ HandleOk(c) \/ HandleError(c)

ScriptStep == \E c \in Call : ResolveConflicts(c) \/ Handle(c)

Settled(c) == promise[c] \in {"resolved", "rejected"}

=============================================================================
