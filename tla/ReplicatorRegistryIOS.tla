------------------------ MODULE ReplicatorRegistryIOS ------------------------
(***************************************************************************)
(* A replicator's life on iOS: the operations of CDTSyncPlugin and the     *)
(* events of CDTSyncPluginDelegate.  createReplicator:, startReplication:  *)
(* and destroyReplicator: run in the background; getReplicationStatus: and *)
(* stopReplication: run at once on the main thread, in the order of the    *)
(* calls.  CDTReplicator is a library's: it can be started only while      *)
(* Pending, holds its delegate weakly, and tells it when it is over.       *)
(***************************************************************************)
EXTENDS ReplicatorCalls

VARIABLES
  replicatorMap,  \* whether replicatorMap holds the replicator
  delegateMap,    \* whether delegateMap holds its delegate
  delegate,       \* whether the replicator's delegate was set to that one
  creator,        \* the background block of createReplicator:
  thread,         \* the background block of each call
  state,          \* the state of the CDTReplicator
  news            \* an event the CDTReplicator is about to tell its delegate

nativeVars ==
  <<replicatorMap, delegateMap, delegate, creator, thread, state, news>>

vars == <<scriptVars, nativeVars>>

OnMainThread == {"getState", "stop"}

TypeOK ==
  /\ ScriptTypeOK
  /\ replicatorMap \in BOOLEAN
  /\ delegateMap \in BOOLEAN
  /\ delegate \in BOOLEAN
  /\ creator \in {"queued", "ended"}
  /\ thread \in [Call -> {"idle", "found", "halfway", "ended"}]
  /\ state \in State
  /\ news \in Event \cup {"none"}

Init ==
  /\ ScriptInit
  /\ replicatorMap = FALSE
  /\ delegateMap = FALSE
  /\ delegate = FALSE
  /\ creator = "queued"
  /\ thread = [c \in Call |-> "idle"]
  /\ state = "Pending"
  /\ news = "none"

-----------------------------------------------------------------------------
(* createReplicator: *)

\* No such store, an unknown type, or the factory fails.
CreateRefused ==
  /\ creation = "pending"
  /\ creator = "queued"
  /\ creator' = "ended"
  /\ SendCreated("failed")
  /\ UNCHANGED <<pageVars, execs, result, replicatorMap, delegateMap, delegate,
                 thread, state, news>>

\* Mutant: the delegate is set, but not cached for a strong reference.
CreateUncached ==
  /\ creation = "pending"
  /\ creator = "queued"
  /\ creator' = "ended"
  /\ replicatorMap' = TRUE
  /\ delegate' = TRUE
  /\ SendCreated("ok")
  /\ UNCHANGED <<pageVars, execs, result, delegateMap, thread, state, news>>

\* Mutant: a pull replicator is not put into replicatorMap.
CreatePushOnly ==
  /\ creation = "pending"
  /\ creator = "queued"
  /\ creator' = "ended"
  /\ delegateMap' = TRUE
  /\ replicatorMap' \in BOOLEAN
  /\ SendCreated("ok")
  /\ UNCHANGED <<pageVars, execs, result, delegate, thread, state, news>>

\* Nobody knows the token yet: the three maps are filled in one step.
CreateReplicator ==
  /\ creation = "pending"
  /\ creator = "queued"
  /\ creator' = "ended"
  /\ delegateMap' = TRUE
  /\ replicatorMap' = TRUE
  /\ SendCreated("ok")
  /\ UNCHANGED <<pageVars, execs, result, delegate, thread, state, news>>

-----------------------------------------------------------------------------
(* The other four operations *)

\* The main thread has come to call c: those made before it have been handed
\* to the background, where they may still wait, or are done.
Reached(c) ==
  c \in execs /\ \A d \in execs : d < c => method[d] \notin OnMainThread

Answer(c, r) ==
  /\ execs' = execs \ {c}
  /\ thread' = [thread EXCEPT ![c] = "ended"]
  /\ SendResult(c, r)
  /\ UNCHANGED <<pageVars, created, creator>>

\* No entry in replicatorMap: all four refuse.
NotFound(c) ==
  /\ Reached(c)
  /\ ~replicatorMap
  /\ Answer(c, "failed")
  /\ UNCHANGED <<replicatorMap, delegateMap, delegate, state, news>>

\* startReplication: and destroyReplicator: look the replicator up first.
FindReplicator(c) ==
  /\ Reached(c)
  /\ method[c] \notin OnMainThread
  /\ replicatorMap
  /\ execs' = execs \ {c}
  /\ thread' = [thread EXCEPT ![c] = "found"]
  /\ UNCHANGED <<pageVars, created, result, creator, replicatorMap,
                 delegateMap, delegate, state, news>>

\* startReplication: points the replicator to the delegate the map has now,
\* which is none if a destroy came first ...
SetDelegate(c) ==
  /\ thread[c] = "found"
  /\ method[c] = "start"
  /\ thread' = [thread EXCEPT ![c] = "halfway"]
  /\ delegate' = delegateMap
  /\ UNCHANGED <<scriptVars, replicatorMap, delegateMap, creator, state, news>>

\* Mutant: the error of startWithError: is not looked at.
StartIgnoringError(c) ==
  /\ thread[c] = "halfway"
  /\ method[c] = "start"
  /\ state' = IF state = "Pending" THEN "Started" ELSE state
  /\ Answer(c, "ok")
  /\ UNCHANGED <<replicatorMap, delegateMap, delegate, news>>

\* Mutant: an error ends the block without a result.
StartErrorSilent(c) ==
  /\ thread[c] = "halfway"
  /\ method[c] = "start"
  /\ state = "Pending"
  /\ state' = "Started"
  /\ Answer(c, "ok")
  /\ UNCHANGED <<replicatorMap, delegateMap, delegate, news>>

\* ... and starts it, which gives an error unless it is Pending.
StartWithError(c) ==
  /\ thread[c] = "halfway"
  /\ method[c] = "start"
  /\ state' = IF state = "Pending" THEN "Started" ELSE state
  /\ Answer(c, IF state = "Pending" THEN "ok" ELSE "failed")
  /\ UNCHANGED <<replicatorMap, delegateMap, delegate, news>>

\* Mutant: replicatorStateToString: misses a state.
GetReplicationStatusUnknown(c) ==
  /\ Reached(c)
  /\ method[c] = "getState"
  /\ replicatorMap
  /\ Answer(c, IF state = "Stopping" THEN "Unknown" ELSE state)
  /\ UNCHANGED <<replicatorMap, delegateMap, delegate, state, news>>

GetReplicationStatus(c) ==
  /\ Reached(c)
  /\ method[c] = "getState"
  /\ replicatorMap
  /\ Answer(c, state)
  /\ UNCHANGED <<replicatorMap, delegateMap, delegate, state, news>>

\* Mutant: only a replication under way is stopped.
StopIfStarted(c) ==
  /\ Reached(c)
  /\ method[c] = "stop"
  /\ replicatorMap
  /\ state' = IF state = "Started" THEN "Stopping" ELSE state
  /\ Answer(c, "ok")
  /\ UNCHANGED <<replicatorMap, delegateMap, delegate, news>>

\* stop may refuse while the replication waits for its thread; what it returns
\* is not looked at.  One that was never started is Stopped at once.
StopReplication(c) ==
  /\ Reached(c)
  /\ method[c] = "stop"
  /\ replicatorMap
  /\ \/ /\ state = "Pending"
        /\ state' = "Stopped"
        /\ news' = "complete"
     \/ /\ state = "Started"
        /\ state' \in {"Started", "Stopping"}
        /\ UNCHANGED news
     \/ /\ state \notin {"Pending", "Started"}
        /\ UNCHANGED <<state, news>>
  /\ Answer(c, "ok")
  /\ UNCHANGED <<replicatorMap, delegateMap, delegate>>

\* destroyReplicator: drops the only strong reference to the delegate ...
RemoveDelegate(c) ==
  /\ thread[c] = "found"
  /\ method[c] = "destroy"
  /\ thread' = [thread EXCEPT ![c] = "halfway"]
  /\ delegateMap' = FALSE
  /\ UNCHANGED <<scriptVars, replicatorMap, delegate, creator, state, news>>

\* Mutant: only the delegate's entry is removed.
RemoveReplicatorNot(c) ==
  /\ thread[c] = "halfway"
  /\ method[c] = "destroy"
  /\ Answer(c, "ok")
  /\ UNCHANGED <<replicatorMap, delegateMap, delegate, state, news>>

\* ... and then the replicator, whether or not another destroy did so too.
RemoveReplicator(c) ==
  /\ thread[c] = "halfway"
  /\ method[c] = "destroy"
  /\ replicatorMap' = FALSE
  /\ Answer(c, "ok")
  /\ UNCHANGED <<delegateMap, delegate, state, news>>

-----------------------------------------------------------------------------
(* The replication and its delegate *)

ReplicationEnds ==
  /\ \/ state = "Started" /\ state' \in {"Complete", "Error"}
     \/ state = "Stopping" /\ state' \in {"Stopped", "Error"}
  /\ news' = IF state' = "Error" THEN "error" ELSE "complete"
  /\ UNCHANGED <<scriptVars, replicatorMap, delegateMap, delegate, creator,
                 thread>>

\* replicatorDidComplete: or replicatorDidError:info:, if the replicator was
\* given a delegate and the map still keeps it alive.
TellDelegate ==
  /\ news # "none"
  /\ news' = "none"
  /\ IF delegate /\ delegateMap THEN SendCreated(news) ELSE UNCHANGED created
  /\ UNCHANGED <<pageVars, execs, result, replicatorMap, delegateMap, delegate,
                 creator, thread, state>>

-----------------------------------------------------------------------------
CallStep(c) ==
  \/ NotFound(c) \/ FindReplicator(c)
  \/ SetDelegate(c) \/ StartWithError(c)
  \/ GetReplicationStatus(c) \/ StopReplication(c)
  \/ RemoveDelegate(c) \/ RemoveReplicator(c)

NativeStep ==
  \/ CreateRefused \/ CreateReplicator
  \/ \E c \in Call : CallStep(c)
  \/ ReplicationEnds \/ TellDelegate

Next == (ScriptStep /\ UNCHANGED nativeVars) \/ NativeStep

Safe == Init /\ [][Next]_vars

\* As on Android: the event loop, the main thread, the background queue and
\* the library go on while they have something to do; calls are not fair.
Fairness == WF_vars((Handle /\ UNCHANGED nativeVars) \/ NativeStep)

Spec == Safe /\ Fairness

-----------------------------------------------------------------------------
(* Properties *)

\* Only a start can be refused by a replicator that nobody destroyed.
RefusedAfterDestroy == RefusedOnlyDestroyed({"start"})

\* "A given CDTReplicator instance cannot be reused", and the application is
\* told so: of all starts at most one succeeds, and none made after a stop was
\* reported, though start and stop run on different threads.
SingleStart ==
  \A c, d \in Call : Resolved(c, "start") =>
    /\ Resolved(d, "start") => c = d
    /\ Resolved(d, "stop") => d \notin before[c]

\* The outcomes of overlapping calls make sense as those of some order of the
\* calls, except that overlapping destroys all succeed and that a stop may have
\* been refused by the library without anybody knowing.
OutcomesAgree ==
  /\ DestroyIsFinal
  /\ RefusedAfterDestroy
  /\ NotPendingAgain
  /\ SingleStart

Destroying == \E c \in Call : method[c] = "destroy"

\* The outcome of a replication has reached the application that had
\* registered its handlers when it called start, unless somebody calls destroy.
OutcomeHeard ==
  \A c \in ready : Resolved(c, "start") => heard # <<>> \/ Destroying

\* A stop was followed by an event, unless one came before there were handlers
\* or somebody destroys.
StopHeard ==
  \A c \in ready :
    Resolved(c, "stop") => heard # <<>> \/ unheard > 0 \/ Destroying

=============================================================================
