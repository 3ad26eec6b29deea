--------------------------- MODULE ReplicatorCalls ---------------------------
(***************************************************************************)
(* The JavaScript half of a replicator's life (www/replicator.js): its     *)
(* creation, calls of start, stop, getState and destroy, its event         *)
(* handlers.  Each call has a Cordova callback for its one result.  The    *)
(* callback of createReplicator is kept: after the result of the creation  *)
(* it carries the replication's complete and error events.  Results of one *)
(* callback arrive in the order in which they were sent; nothing orders    *)
(* those of different callbacks.  Replicators meet nowhere but in maps     *)
(* keyed by their tokens (ReplicatorToken), so one is modelled.            *)
(***************************************************************************)
EXTENDS Naturals, Sequences, FiniteSets

CONSTANT Call   \* calls of the replicator's methods, by Cordova callback id

ASSUME CallAssumption == Call \in SUBSET Nat /\ IsFiniteSet(Call)

VARIABLES
  creation,   \* the deferred of Replicator.create
  method,     \* the method of each call
  promise,    \* the deferred of each call
  status,     \* what getState's promises were resolved with
  handlers,   \* the events that `on` has registered a handler for
  destroyed,  \* the property destroyed of the Replicator object
  execs,      \* calls on their way to native code
  created,    \* results on their way to the callback of createReplicator
  result,     \* the result on its way to the callback of each call
  heard,      \* history: the events that were given to handlers
  unheard,    \* history: the number of events that found no handler
  before,     \* history: the calls settled when each call was made
  ready       \* history: the calls made with both handlers registered

\* What only the page changes, and the traffic between it and native code.
pageVars == <<creation, method, promise, status, handlers, destroyed, heard,
              unheard, before, ready>>

scriptVars == <<pageVars, execs, created, result>>

Method == {"start", "stop", "getState", "destroy"}

Event == {"complete", "error"}

State == {"Pending", "Started", "Stopping", "Stopped", "Complete", "Error"}

ScriptTypeOK ==
  /\ creation \in {"none", "pending", "resolved", "rejected"}
  /\ method \in [Call -> Method \cup {"none"}]
  /\ promise \in [Call -> {"none", "pending", "resolved", "rejected"}]
  /\ status \in [Call -> State \cup {"none"}]
  /\ handlers \subseteq Event
  /\ destroyed \in BOOLEAN
  /\ execs \subseteq Call
  /\ created \in Seq(Event \cup {"ok", "failed"})
  /\ result \in [Call -> State \cup {"none", "ok", "failed"}]
  /\ heard \in Seq(Event)
  /\ unheard \in Nat
  /\ before \in [Call -> SUBSET Call]
  /\ ready \subseteq Call

ScriptInit ==
  /\ creation = "none"
  /\ method = [c \in Call |-> "none"]
  /\ promise = [c \in Call |-> "none"]
  /\ status = [c \in Call |-> "none"]
  /\ handlers = {}
  /\ destroyed = FALSE
  /\ execs = {}
  /\ created = <<>>
  /\ result = [c \in Call |-> "none"]
  /\ heard = <<>>
  /\ unheard = 0
  /\ before = [c \in Call |-> {}]
  /\ ready = {}

Settled(c) == promise[c] \in {"resolved", "rejected"}

\* Native code sends a result to the callback of createReplicator.
SendCreated(r) == created' = Append(created, r)

\* Native code sends the result of call c.
SendResult(c, r) == result' = [result EXCEPT ![c] = r]

Create ==
  /\ creation = "none"
  /\ creation' = "pending"
  /\ UNCHANGED <<method, promise, status, handlers, destroyed, execs, created,
                 result, heard, unheard, before, ready>>

\* The application has the Replicator once its creation has been resolved.
\* That it was destroyed does not keep its methods from being called.  Cordova
\* numbers callbacks in the order of the calls.
Invoke(c) ==
  /\ creation = "resolved"
  /\ promise[c] = "none"
  /\ \A d \in Call : d < c => promise[d] # "none"
  /\ \E m \in Method : method' = [method EXCEPT ![c] = m]
  /\ promise' = [promise EXCEPT ![c] = "pending"]
  /\ execs' = execs \cup {c}
  /\ before' = [before EXCEPT ![c] = {d \in Call : Settled(d)}]
  /\ ready' = IF handlers = Event THEN ready \cup {c} ELSE ready
  /\ UNCHANGED <<creation, status, handlers, destroyed, created, result, heard,
                 unheard>>

On(e) ==
  /\ creation = "resolved"
  /\ e \notin handlers
  /\ handlers' = handlers \cup {e}
  /\ UNCHANGED <<creation, method, promise, status, destroyed, execs, created,
                 result, heard, unheard, before, ready>>

\* successHandler without an array, and errorHandler.
HandleCreated ==
  /\ created # <<>>
  /\ Head(created) \in {"ok", "failed"}
  /\ creation' = IF Head(created) = "ok" THEN "resolved" ELSE "rejected"
  /\ created' = Tail(created)
  /\ UNCHANGED <<method, promise, status, handlers, destroyed, execs, result,
                 heard, unheard, before, ready>>

\* Mutant: emit gives the event to one kind of handler only.
EmitCompleteOnly ==
  /\ created # <<>>
  /\ Head(created) \in Event
  /\ created' = Tail(created)
  /\ IF Head(created) \in handlers \cap {"complete"}
     THEN heard' = Append(heard, Head(created)) /\ UNCHANGED unheard
     ELSE unheard' = unheard + 1 /\ UNCHANGED heard
  /\ UNCHANGED <<creation, method, promise, status, handlers, destroyed, execs,
                 result, before, ready>>

\* successHandler with an array: emit runs the handlers of the event, if any.
Emit ==
  /\ created # <<>>
  /\ Head(created) \in Event
  /\ created' = Tail(created)
  /\ IF Head(created) \in handlers
     THEN heard' = Append(heard, Head(created)) /\ UNCHANGED unheard
     ELSE unheard' = unheard + 1 /\ UNCHANGED heard
  /\ UNCHANGED <<creation, method, promise, status, handlers, destroyed, execs,
                 result, before, ready>>

\* successHandler and errorHandler of the four methods.  destroy marks the
\* Replicator; getState resolves with the state; start and stop resolve with
\* nothing, whatever the result carries.
Settle(c) ==
  /\ result[c] # "none"
  /\ result' = [result EXCEPT ![c] = "none"]
  /\ promise' = [promise EXCEPT
       ![c] = IF result[c] = "failed" THEN "rejected" ELSE "resolved"]
  /\ destroyed' = (destroyed \/ (method[c] = "destroy" /\ result[c] # "failed"))
  /\ status' = IF method[c] = "getState" /\ result[c] # "failed"
               THEN [status EXCEPT ![c] = result[c]] ELSE status
  /\ UNCHANGED <<creation, method, handlers, execs, created, heard, unheard,
                 before, ready>>

\* The event loop runs the handler of every result that arrives.
Handle == HandleCreated \/ Emit \/ \E c \in Call : Settle(c)

ScriptStep ==
  \/ Create
  \/ \E c \in Call : Invoke(c)
  \/ \E e \in Event : On(e)
  \/ Handle

-----------------------------------------------------------------------------
(* Properties of both platforms *)

Resolved(c, m) == method[c] = m /\ promise[c] = "resolved"

\* Once a destroy has been reported, no call made later succeeds -- however
\* many calls were under way on other threads when it happened.
DestroyIsFinal ==
  \A c, d \in Call :
    Resolved(d, "destroy") /\ d \in before[c] => promise[c] # "resolved"

\* A call is refused by a live replicator only for a reason: a destroy has
\* been made, unless the platform itself refuses the method.
RefusedOnlyDestroyed(excused) ==
  \A c \in Call : promise[c] = "rejected" /\ method[c] \notin excused =>
    \E d \in Call \ {c} : method[d] = "destroy" /\ c \notin before[d]
                          /\ promise[d] # "rejected"

\* getState does not contradict what the application already knows: a
\* replication whose start or stop was reported is not Pending.
NotPendingAgain ==
  \A c, d \in Call :
    (Resolved(d, "start") \/ Resolved(d, "stop")) /\ d \in before[c] =>
      status[c] # "Pending"

\* A replication that was stopped is not Started, unless a start was made that
\* had not been answered when the stop was made.
StopIsSeen ==
  \A c, d \in Call :
    Resolved(d, "stop") /\ d \in before[c] /\ status[c] = "Started" =>
      \E s \in Call : method[s] = "start" /\ s \notin before[d]

\* The places in a queue that hold events.
Events(q) == {i \in DOMAIN q : q[i] \in Event}

\* Every event stands for a replication that somebody started, or for a stop
\* of one that nobody had started: none is sent twice, whatever calls overlap
\* with the end of the replication.
EventsAskedFor ==
  Len(heard) + unheard + Cardinality(Events(created)) <=
    Cardinality({c \in Call : method[c] = "start"})
      + (IF \E c \in Call : method[c] = "stop" THEN 1 ELSE 0)

Pending == creation = "pending" \/ \E c \in Call : promise[c] = "pending"

\* "A q style promise which returns successfully or with Error": whatever
\* overlaps, there is an end to every promise (www/replicator.js).
EveryPromiseSettles == []<>~Pending

=============================================================================
