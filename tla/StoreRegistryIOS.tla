--------------------------- MODULE StoreRegistryIOS ---------------------------
(***************************************************************************)
(* Datastores on iOS: createDatastoreManager:, openDatastore:,             *)
(* closeDatastore:, deleteDatastore: of CDTSyncPlugin and the lookup in    *)
(* datastoreMap with which every operation on a store begins.  All but     *)
(* closeDatastore: run in the background, concurrently.  The maps are      *)
(* thread-safe one access at a time.  Unlike Android, open asks the map    *)
(* before the library, close does nothing, and delete goes to the manager  *)
(* that it was called on.                                                  *)
(***************************************************************************)
EXTENDS StoreMaps

creatorVars == <<managers, creator, count, responses>>

-----------------------------------------------------------------------------
(* createDatastoreManager: *)

\* initWithDirectory:error: fails.
NoManager(m) ==
  /\ manager[m] = "pending"
  /\ creator[m] = "queued"
  /\ creator' = [creator EXCEPT ![m] = "ended"]
  /\ Respond(m, FALSE, 0)
  /\ UNCHANGED <<pageVars, execs, result, managers, stores, count, thread,
                 held, libraryVars, reached>>

\* self.datastoreManagers.count
CountManagers(m) ==
  /\ manager[m] = "pending"
  /\ creator[m] = "queued"
  /\ creator' = [creator EXCEPT ![m] = "counted"]
  /\ count' = [count EXCEPT ![m] = Cardinality(DOMAIN managers)]
  /\ UNCHANGED <<pageVars, responses, execs, result, managers, stores, thread,
                 held, libraryVars, reached>>

SetManager(m) ==
  /\ creator[m] = "counted"
  /\ creator' = [creator EXCEPT ![m] = "ended"]
  /\ managers' = Put(managers, count[m], m)
  /\ Respond(m, TRUE, count[m])
  /\ count' = [count EXCEPT ![m] = 0]
  /\ UNCHANGED <<pageVars, execs, result, stores, thread, held, libraryVars,
                 reached>>

-----------------------------------------------------------------------------
(* openDatastore: *)

\* The map has a store under the name: whichever it is, it is the answer.
OpenCached(c) ==
  /\ c \in execs
  /\ method[c] = "open"
  /\ stores # NoStore
  /\ Answer(c, "ok")
  /\ Reach(c, stores.directory)
  /\ UNCHANGED <<pageVars, creatorVars, stores, libraryVars>>

OpenMissed(c) ==
  /\ c \in execs
  /\ method[c] = "open"
  /\ stores = NoStore
  /\ Begin(c, "missed")
  /\ UNCHANGED <<pageVars, creatorVars, stores, held, libraryVars, reached>>

\* datastoreNamed:error: fails.
NoDatastore(c) ==
  /\ thread[c] = "missed"
  /\ Answer(c, "failed")
  /\ UNCHANGED <<pageVars, creatorVars, stores, libraryVars, reached>>

DatastoreNamed(c) ==
  /\ thread[c] = "missed"
  /\ LET m == managers[dsmID[via[c]]]
     IN Hold(c, Opening(m)) /\ LibraryOpen(m) /\ Reach(c, m)
  /\ Continue(c, "opened")
  /\ UNCHANGED <<pageVars, creatorVars, stores>>

\* Mutant: the store is not cached.
SetDatastoreNot(c) ==
  /\ thread[c] = "opened"
  /\ Answer(c, "ok")
  /\ UNCHANGED <<pageVars, creatorVars, stores, libraryVars, reached>>

\* The store goes into the map, whatever has become of it since it was opened.
SetDatastore(c) ==
  /\ thread[c] = "opened"
  /\ stores' = held[c]
  /\ Answer(c, "ok")
  /\ UNCHANGED <<pageVars, creatorVars, libraryVars, reached>>

-----------------------------------------------------------------------------
(* closeDatastore: "doesn't have a close method, so just return success" *)

CloseDatastore(c) ==
  /\ c \in execs
  /\ method[c] = "close"
  /\ Answer(c, "ok")
  /\ UNCHANGED <<pageVars, creatorVars, stores, libraryVars, reached>>

-----------------------------------------------------------------------------
(* deleteDatastore: *)

\* Mutant: the store under the name is deleted, whosever it is.
DeleteNamedCached(c) ==
  /\ c \in execs
  /\ method[c] = "delete"
  /\ LET m == IF stores = NoStore THEN managers[dsmID[via[c]]]
              ELSE stores.directory
     IN LibraryDelete([directory |-> m, opening |-> opened[m]]) /\ Reach(c, m)
  /\ Begin(c, "deleted")
  /\ UNCHANGED <<pageVars, creatorVars, stores, held>>

\* deleteDatastoreNamed:error: of the manager under the id.
DeleteNamed(c) ==
  /\ c \in execs
  /\ method[c] = "delete"
  /\ LET m == managers[dsmID[via[c]]]
     IN LibraryDelete([directory |-> m, opening |-> opened[m]]) /\ Reach(c, m)
  /\ Begin(c, "deleted")
  /\ UNCHANGED <<pageVars, creatorVars, stores, held>>

\* It fails, for want of files or otherwise.
DeleteFails(c) ==
  /\ c \in execs
  /\ method[c] = "delete"
  /\ Begin(c, "undeleted")
  /\ UNCHANGED <<pageVars, creatorVars, stores, held, libraryVars, reached>>

\* The name is taken out of the map, whosever store it is; then the outcome of
\* the deletion is reported.
RemoveDatastore(c) ==
  /\ thread[c] \in {"deleted", "undeleted"}
  /\ stores' = NoStore
  /\ Answer(c, IF thread[c] = "deleted" THEN "ok" ELSE "failed")
  /\ UNCHANGED <<pageVars, creatorVars, libraryVars, reached>>

-----------------------------------------------------------------------------
(* The operations on a store *)

\* No cached store: "the store must first be created".
NoStoreFound(c) ==
  /\ c \in execs
  /\ method[c] = "use"
  /\ stores = NoStore
  /\ Answer(c, "failed")
  /\ UNCHANGED <<pageVars, creatorVars, stores, libraryVars, reached>>

FindStore(c) ==
  /\ c \in execs
  /\ method[c] = "use"
  /\ stores # NoStore
  /\ Begin(c, "found")
  /\ Hold(c, stores)
  /\ UNCHANGED <<pageVars, creatorVars, stores, libraryVars, reached>>

UseStore(c) ==
  /\ thread[c] = "found"
  /\ Live(held[c])
  /\ Answer(c, "ok")
  /\ Reach(c, held[c].directory)
  /\ UNCHANGED <<pageVars, creatorVars, stores, libraryVars>>

\* The store was deleted: the library fails, or makes the files again.
UseDeleted(c) ==
  /\ thread[c] = "found"
  /\ ~Live(held[c])
  /\ \/ Answer(c, "failed") /\ UNCHANGED <<libraryVars, reached>>
     \/ LET m == held[c].directory
        IN /\ Answer(c, "ok")
           /\ Reach(c, m)
           /\ LibraryOpen(m)
  /\ UNCHANGED <<pageVars, creatorVars, stores>>

-----------------------------------------------------------------------------
NativeStep ==
  \/ \E m \in Manager : NoManager(m) \/ CountManagers(m) \/ SetManager(m)
  \/ \E c \in Call :
       \/ OpenCached(c) \/ OpenMissed(c) \/ NoDatastore(c)
       \/ DatastoreNamed(c) \/ SetDatastore(c)
       \/ CloseDatastore(c)
       \/ DeleteNamed(c) \/ DeleteFails(c) \/ RemoveDatastore(c)
       \/ NoStoreFound(c) \/ FindStore(c) \/ UseStore(c) \/ UseDeleted(c)

Next == (ScriptStep /\ UNCHANGED nativeVars) \/ NativeStep

Safe == Init /\ [][Next]_<<scriptVars, nativeVars>>

-----------------------------------------------------------------------------
(* Properties *)

\* A delete goes to its own directory.  An open or a use may end up in that of
\* whichever manager opened the name first.
StaysInPlace ==
  \A c \in Call :
    \/ InPlace(c)
    \/ method[c] # "delete" /\ \E d \in Call : OpenedElsewhere(c, d)

\* A delete that was not over when o was made -- or one that once overlapped
\* with an open, however long ago: that open may have cached a deleted store,
\* which every later open then finds.
Disturbed(o, e) ==
  \/ e \notin before[o]
  \/ \E d \in Call : method[d] = "open" /\ Overlap(d, e)

\* An open that was reported has left an open store under the name, unless it
\* was disturbed.
OpenedLives ==
  \A o \in Call : Resolved(o, "open") =>
    Live(stores) \/ \E e \in Call : method[e] = "delete" /\ Disturbed(o, e)

\* A Datastore is refused only if it was deleted: close is no reason.
RefusedOnlyEnded ==
  \A c, o \in Call :
    /\ promise[c] = "rejected" /\ method[c] \in {"use", "close"}
    /\ o \in before[c] /\ Resolved(o, "open")
    => method[c] = "use" /\
       \E e \in Call : method[e] = "delete" /\ Disturbed(o, e)

\* The outcomes of overlapping calls, and what they leave behind.
StoresAgree ==
  /\ OpenedLives
  /\ RefusedOnlyEnded
  /\ EndedStaysEnded({"delete"}, {"open", "use"})

=============================================================================
