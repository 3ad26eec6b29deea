---------------------- MODULE ReplicatorRegistryAndroid ----------------------
(***************************************************************************)
(* A replicator's life on Android: createReplicator, startReplication,     *)
(* stopReplication, getReplicationStatus and destroyReplicator of          *)
(* CloudantSyncPlugin, each on a pool thread, and SyncPluginListener,      *)
(* which sends the events of the replication library's Replicator.  The    *)
(* Replicator itself is outside the repository: its states are those of    *)
(* convertReplicationStateToString, start and stop change them, and when a *)
(* replication is over or a stop finds none it posts one event.            *)
(***************************************************************************)
EXTENDS ReplicatorCalls

VARIABLES
  replicators,  \* whether the map replicators holds the replicator
  creator,      \* the thread of createReplicator
  thread,       \* the thread of each call
  state,        \* the state of the library's Replicator
  due           \* history: how many events the application is due: one for each
                \* replication begun, one for a stop that found none begun

nativeVars == <<replicators, creator, thread, state, due>>

vars == <<scriptVars, nativeVars>>

TypeOK ==
  /\ ScriptTypeOK
  /\ replicators \in BOOLEAN
  /\ creator \in {"queued", "ended"}
  /\ thread \in [Call -> {"idle", "found", "ended"}]
  /\ state \in State
  /\ due \in Nat

Init ==
  /\ ScriptInit
  /\ replicators = FALSE
  /\ creator = "queued"
  /\ thread = [c \in Call |-> "idle"]
  /\ state = "Pending"
  /\ due = 0

-----------------------------------------------------------------------------
(* SyncPluginListener, which runs in the thread that posts the event *)

\* Mutant: the library and the listener each send the event.
ListenerTwice(e) == created' = created \o <<e, e>>

\* Mutant: the listener is silent once the replicator was destroyed.
ListenerUnlessDestroyed(e) ==
  IF replicators THEN SendCreated(e) ELSE UNCHANGED created

\* complete and error go to the callback of the creation, which stays open.
Listener(e) == SendCreated(e)

-----------------------------------------------------------------------------
(* createReplicator *)

\* The store is missing, the URI or the type is refused, or the builder fails.
CreateRefused ==
  /\ creation = "pending"
  /\ creator = "queued"
  /\ creator' = "ended"
  /\ SendCreated("failed")
  /\ UNCHANGED <<pageVars, execs, result, replicators, thread, state, due>>

\* Mutant: the result is sent before the replicator is put into the map.
CreateAnswersFirst ==
  /\ creation # "none"
  /\ \/ /\ creator = "queued"
        /\ creator' = "answered"
        /\ SendCreated("ok")
        /\ UNCHANGED replicators
     \/ /\ creator = "answered"
        /\ creator' = "ended"
        /\ replicators' = TRUE
        /\ UNCHANGED created
  /\ UNCHANGED <<pageVars, execs, result, thread, state, due>>

\* Nobody knows the token before the result is delivered, so the puts into the
\* two maps and the registration of the listener are one step.
CreateReplicator ==
  /\ creation = "pending"
  /\ creator = "queued"
  /\ creator' = "ended"
  /\ replicators' = TRUE
  /\ SendCreated("ok")
  /\ UNCHANGED <<pageVars, execs, result, thread, state, due>>

-----------------------------------------------------------------------------
(* The other four operations *)

\* `execute` has given the operation of c to a pool thread, which ends with
\* a result.
Answer(c, r) ==
  /\ execs' = execs \ {c}
  /\ thread' = [thread EXCEPT ![c] = "ended"]
  /\ SendResult(c, r)
  /\ UNCHANGED <<pageVars, creator>>

\* replicators.get in the operations that use the replicator.
GetReplicator(c) ==
  /\ c \in execs
  /\ method[c] # "destroy"
  /\ replicators
  /\ execs' = execs \ {c}
  /\ thread' = [thread EXCEPT ![c] = "found"]
  /\ UNCHANGED <<pageVars, created, result, replicators, creator, state, due>>

\* Mutant: an operation without a replicator returns without a result.
GetNullSilent(c) ==
  /\ c \in execs
  /\ method[c] # "destroy"
  /\ ~replicators
  /\ execs' = execs \ {c}
  /\ thread' = [thread EXCEPT ![c] = "ended"]
  /\ UNCHANGED <<pageVars, created, result, replicators, creator, state, due>>

GetNull(c) ==
  /\ c \in execs
  /\ method[c] # "destroy"
  /\ ~replicators
  /\ Answer(c, "failed")
  /\ UNCHANGED <<created, replicators, state, due>>

\* replicator.start(): a replication that is over may be started again; one
\* that is under way goes on.
StartReplication(c) ==
  /\ thread[c] = "found"
  /\ method[c] = "start"
  /\ IF state \in {"Started", "Stopping"}
     THEN UNCHANGED <<state, due>>
     ELSE state' = "Started" /\ due' = due + 1
  /\ Answer(c, "ok")
  /\ UNCHANGED <<created, replicators>>

\* Mutant: the replicator is asked to stop only if it has been started.
StopIfStarted(c) ==
  /\ thread[c] = "found"
  /\ method[c] = "stop"
  /\ state' = IF state = "Started" THEN "Stopping" ELSE state
  /\ Answer(c, "ok")
  /\ UNCHANGED <<created, replicators, due>>

\* Mutant: the thread answers "Stopping" and leaves the stop to the library.
StopUnasked(c) ==
  /\ thread[c] = "found"
  /\ method[c] = "stop"
  /\ Answer(c, "Stopping")
  /\ UNCHANGED <<created, replicators, state, due>>

\* replicator.stop(); the result carries a state that stop's promise ignores.
StopReplication(c) ==
  /\ thread[c] = "found"
  /\ method[c] = "stop"
  /\ state' = CASE state = "Pending" -> "Stopped"
                [] state = "Started" -> "Stopping"
                [] OTHER -> state
  /\ IF state = "Pending"
     THEN Listener("complete") /\ due' = due + 1
     ELSE UNCHANGED <<created, due>>
  /\ Answer(c, "Stopping")
  /\ UNCHANGED replicators

\* Mutant: convertReplicationStateToString misses a state.
GetReplicationStatusUnknown(c) ==
  /\ thread[c] = "found"
  /\ method[c] = "getState"
  /\ Answer(c, IF state = "Stopping" THEN "Unknown" ELSE state)
  /\ UNCHANGED <<created, replicators, state, due>>

\* replicator.getState() by its name in convertReplicationStateToString.
GetReplicationStatus(c) ==
  /\ thread[c] = "found"
  /\ method[c] = "getState"
  /\ Answer(c, state)
  /\ UNCHANGED <<created, replicators, state, due>>

\* Mutant: get, then remove.
DestroyInTwoSteps(c) ==
  /\ method[c] = "destroy"
  /\ \/ /\ c \in execs /\ replicators
        /\ execs' = execs \ {c}
        /\ thread' = [thread EXCEPT ![c] = "found"]
        /\ UNCHANGED <<pageVars, created, result, replicators, creator, state,
                       due>>
     \/ /\ c \in execs /\ ~replicators
        /\ Answer(c, "failed")
        /\ UNCHANGED <<created, replicators, state, due>>
     \/ /\ thread[c] = "found"
        /\ replicators' = FALSE
        /\ Answer(c, "ok")
        /\ UNCHANGED <<created, state, due>>

\* Mutant: only the interceptor is taken out of its map.
DestroyKeepsReplicator(c) ==
  /\ c \in execs
  /\ method[c] = "destroy"
  /\ Answer(c, IF replicators THEN "ok" ELSE "failed")
  /\ UNCHANGED <<created, replicators, state, due>>

\* replicators.remove tells this call whether it was the one that removed it.
\* The replication, if one is under way, is not stopped.
DestroyReplicator(c) ==
  /\ c \in execs
  /\ method[c] = "destroy"
  /\ replicators' = FALSE
  /\ Answer(c, IF replicators THEN "ok" ELSE "failed")
  /\ UNCHANGED <<created, state, due>>

-----------------------------------------------------------------------------
(* The replication *)

\* The replication is over: caught up, stopped, or failed.
ReplicationEnds ==
  /\ \/ /\ state = "Started"
        /\ state' \in {"Complete", "Error"}
     \/ /\ state = "Stopping"
        /\ state' \in {"Stopped", "Error"}
  /\ Listener(IF state' = "Error" THEN "error" ELSE "complete")
  /\ UNCHANGED <<pageVars, execs, result, replicators, creator, thread, due>>

-----------------------------------------------------------------------------
ThreadStep(c) ==
  \/ GetReplicator(c) \/ GetNull(c)
  \/ StartReplication(c) \/ StopReplication(c) \/ GetReplicationStatus(c)
  \/ DestroyReplicator(c)

NativeStep ==
  \/ CreateRefused \/ CreateReplicator
  \/ \E c \in Call : ThreadStep(c)
  \/ ReplicationEnds

Next == (ScriptStep /\ UNCHANGED nativeVars) \/ NativeStep

Safe == Init /\ [][Next]_vars

\* The event loop, the pool and the library's thread do not all rest while
\* there is something to do.  Calls are finitely many and each of these steps
\* uses something up, so this is as good as fairness to each of them.  What the
\* application does is not fair.  Replications are one-shot: they end.
Fairness == WF_vars((Handle /\ UNCHANGED nativeVars) \/ NativeStep)

Spec == Safe /\ Fairness

-----------------------------------------------------------------------------
(* Properties *)

\* Of all destroys of a replicator one succeeds, however they overlap: it is
\* the return value of replicators.remove that decides.
SingleDestroy ==
  \A c, d \in Call :
    Resolved(c, "destroy") /\ Resolved(d, "destroy") => c = d

\* No call of a replicator that nobody destroyed is refused.
RefusedAfterDestroy == RefusedOnlyDestroyed({})

\* The outcomes of overlapping calls make sense as those of some order of the
\* calls: one destroy, nothing after it, nothing refused before it, and states
\* that fit what had been reported.
OutcomesAgree ==
  /\ DestroyIsFinal
  /\ SingleDestroy
  /\ RefusedAfterDestroy
  /\ NotPendingAgain
  /\ StopIsSeen

\* Every replication is reported to the page, one that goes on after its
\* replicator was destroyed included: the listener outlives the map entry.
RunsReported == due <= Len(heard) + unheard

\* "All 'complete' event handlers are executed when replication state reaches
\* 'Completed' or 'Stopped'" (www/replicator.js): an application that had
\* registered its handlers when it called start or stop has heard an event,
\* unless the only one came before there were handlers (a stop after the end).
OutcomeHeard ==
  \A c \in ready :
    /\ Resolved(c, "start") => heard # <<>>
    /\ Resolved(c, "stop") => heard # <<>> \/ unheard > 0

=============================================================================
