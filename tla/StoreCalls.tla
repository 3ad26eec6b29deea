------------------------------ MODULE StoreCalls ------------------------------
(***************************************************************************)
(* The JavaScript half of datastore managers and datastores                *)
(* (www/datastoremanager.js).  A DatastoreManager stands for a directory   *)
(* and is an id that native code chose; a Datastore is no more than a      *)
(* name.  What is done with a store -- documents, indexes, queries,        *)
(* conflicts, replicators -- begins with looking it up by that name, so    *)
(* one operation, "use", stands for them all.  Stores of different names   *)
(* meet nowhere (every map is keyed by the name): one name is modelled.    *)
(***************************************************************************)
EXTENDS Naturals, FiniteSets

CONSTANTS
  Manager,  \* datastore managers, numbered as they are asked for; each has a
            \* directory of its own, which goes by the same number
  Call      \* calls of their and their stores' methods, by Cordova callback id

ASSUME ManagerAssumption ==
  Manager \in SUBSET (Nat \ {0}) /\ IsFiniteSet(Manager)

ASSUME CallAssumption == Call \in SUBSET Nat /\ IsFiniteSet(Call)

VARIABLES
  manager,    \* the deferred of each DatastoreManager
  dsmID,      \* the id each DatastoreManager was given
  responses,  \* results on their way to the callbacks of the managers
  method,     \* the method of each call
  via,        \* the manager it is made on, or that opened its datastore
  promise,    \* the deferred of each call
  execs,      \* calls on their way to native code
  result,     \* the result on its way to the callback of each call
  earlier,    \* history: the managers there were when each was asked for
  before      \* history: the calls settled when each call was made

\* What only the page changes.
pageVars == <<manager, dsmID, method, via, promise, earlier, before>>

scriptVars == <<pageVars, responses, execs, result>>

Method == {"open", "delete", "close", "use"}

Response == [manager: Manager, ok: BOOLEAN, id: Nat]

ScriptTypeOK ==
  /\ manager \in [Manager -> {"none", "pending", "resolved", "rejected"}]
  /\ dsmID \in [Manager -> Nat]
  /\ responses \subseteq Response
  /\ method \in [Call -> Method \cup {"none"}]
  /\ via \in [Call -> Manager \cup {0}]
  /\ promise \in [Call -> {"none", "pending", "resolved", "rejected"}]
  /\ execs \subseteq Call
  /\ result \in [Call -> {"none", "ok", "failed"}]
  /\ earlier \in [Manager -> SUBSET Manager]
  /\ before \in [Call -> SUBSET Call]

ScriptInit ==
  /\ manager = [m \in Manager |-> "none"]
  /\ dsmID = [m \in Manager |-> 0]
  /\ responses = {}
  /\ method = [c \in Call |-> "none"]
  /\ via = [c \in Call |-> 0]
  /\ promise = [c \in Call |-> "none"]
  /\ execs = {}
  /\ result = [c \in Call |-> "none"]
  /\ earlier = [m \in Manager |-> {}]
  /\ before = [c \in Call |-> {}]

Settled(c) == promise[c] \in {"resolved", "rejected"}

Resolved(c, k) == method[c] = k /\ promise[c] = "resolved"

NewManager(m) ==
  /\ manager[m] = "none"
  /\ \A n \in Manager : n < m => manager[n] # "none"
  /\ manager' = [manager EXCEPT ![m] = "pending"]
  /\ earlier' = [earlier EXCEPT
       ![m] = {n \in Manager : manager[n] = "resolved"}]
  /\ UNCHANGED <<dsmID, responses, method, via, promise, execs, result, before>>

\* Mutant: a manager is resolved before native code has told its id.
HandleManagerForgetsId ==
  \E r \in responses :
    /\ responses' = responses \ {r}
    /\ manager' = [manager EXCEPT
         ![r.manager] = IF r.ok THEN "resolved" ELSE "rejected"]
    /\ UNCHANGED <<dsmID, method, via, promise, execs, result, earlier, before>>

\* successHandler and errorHandler of DatastoreManager.
HandleManager ==
  \E r \in responses :
    /\ responses' = responses \ {r}
    /\ manager' = [manager EXCEPT
         ![r.manager] = IF r.ok THEN "resolved" ELSE "rejected"]
    /\ dsmID' = IF r.ok THEN [dsmID EXCEPT ![r.manager] = r.id] ELSE dsmID
    /\ UNCHANGED <<method, via, promise, execs, result, earlier, before>>

\* Whoever has a manager may open and delete.  Whoever was given a datastore
\* may use and close it, as often as he likes: the object does not change.
Offered(k, m) ==
  IF k \in {"open", "delete"}
  THEN manager[m] = "resolved"
  ELSE \E o \in Call : Resolved(o, "open") /\ via[o] = m

Invoke(c) ==
  /\ promise[c] = "none"
  /\ \A d \in Call : d < c => promise[d] # "none"
  /\ \E k \in Method, m \in Manager :
       /\ Offered(k, m)
       /\ method' = [method EXCEPT ![c] = k]
       /\ via' = [via EXCEPT ![c] = m]
  /\ promise' = [promise EXCEPT ![c] = "pending"]
  /\ execs' = execs \cup {c}
  /\ before' = [before EXCEPT ![c] = {d \in Call : Settled(d)}]
  /\ UNCHANGED <<manager, dsmID, responses, result, earlier>>

\* successHandler and errorHandler of the methods.
Settle(c) ==
  /\ result[c] # "none"
  /\ result' = [result EXCEPT ![c] = "none"]
  /\ promise' = [promise EXCEPT
       ![c] = IF result[c] = "ok" THEN "resolved" ELSE "rejected"]
  /\ UNCHANGED <<manager, dsmID, responses, method, via, execs, earlier,
                 before>>

\* The event loop runs the handler of every result that arrives.
Handle == HandleManager \/ \E c \in Call : Settle(c)

ScriptStep ==
  \/ \E m \in Manager : NewManager(m)
  \/ \E c \in Call : Invoke(c)
  \/ Handle

=============================================================================
