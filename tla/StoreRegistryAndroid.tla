------------------------- MODULE StoreRegistryAndroid -------------------------
(***************************************************************************)
(* Datastores on Android: setDocumentStorePath, openDocumentStore,         *)
(* closeDocumentStore, deleteDocumentStore and getDocumentStore of         *)
(* CloudantSyncPlugin.  Every operation runs on a pool thread.  The maps   *)
(* are synchronized, so each access is atomic; nothing holds two accesses, *)
(* or an access and the library, together.                                 *)
(***************************************************************************)
EXTENDS StoreMaps

creatorVars == <<managers, creator, count, responses>>

-----------------------------------------------------------------------------
(* setDocumentStorePath *)

\* documentStorePaths.size()
CountPaths(m) ==
  /\ manager[m] = "pending"
  /\ creator[m] = "queued"
  /\ creator' = [creator EXCEPT ![m] = "counted"]
  /\ count' = [count EXCEPT ![m] = Cardinality(DOMAIN managers)]
  /\ UNCHANGED <<pageVars, responses, execs, result, managers, stores, thread,
                 held, libraryVars, reached>>

\* documentStorePaths.put(id, path), which replaces the path of another manager
\* that counted the same.
PutPath(m) ==
  /\ creator[m] = "counted"
  /\ creator' = [creator EXCEPT ![m] = "ended"]
  /\ managers' = Put(managers, count[m], m)
  /\ Respond(m, TRUE, count[m])
  /\ count' = [count EXCEPT ![m] = 0]
  /\ UNCHANGED <<pageVars, execs, result, stores, thread, held, libraryVars,
                 reached>>

-----------------------------------------------------------------------------
(* openDocumentStore *)

\* DocumentStore.getInstance may throw.
GetInstanceThrows(c) ==
  /\ c \in execs
  /\ method[c] = "open"
  /\ Answer(c, "failed")
  /\ UNCHANGED <<pageVars, creatorVars, stores, libraryVars, reached>>

\* The path is looked up and the instance got in one step: a path that is
\* replaced in between has been looked up before.
GetInstance(c) ==
  /\ c \in execs
  /\ method[c] = "open"
  /\ LET m == managers[dsmID[via[c]]]
     IN Hold(c, Opening(m)) /\ LibraryOpen(m) /\ Reach(c, m)
  /\ Begin(c, "opened")
  /\ UNCHANGED <<pageVars, creatorVars, stores>>

\* Mutant: a name that is in the map keeps its store (putIfAbsent).
PutStoreIfAbsent(c) ==
  /\ thread[c] = "opened"
  /\ stores' = IF stores = NoStore THEN held[c] ELSE stores
  /\ Answer(c, "ok")
  /\ UNCHANGED <<pageVars, creatorVars, libraryVars, reached>>

\* documentStores.put, whatever has been there and has become of the instance.
PutStore(c) ==
  /\ thread[c] = "opened"
  /\ stores' = held[c]
  /\ Answer(c, "ok")
  /\ UNCHANGED <<pageVars, creatorVars, libraryVars, reached>>

-----------------------------------------------------------------------------
(* closeDocumentStore *)

\* Mutant: the store is looked up, not removed.
RemoveStoreLeft(c) ==
  /\ c \in execs
  /\ method[c] = "close"
  /\ IF stores = NoStore
     THEN Answer(c, "failed")
     ELSE Begin(c, "removed") /\ Hold(c, stores)
  /\ UNCHANGED <<pageVars, creatorVars, stores, libraryVars, reached>>

\* documentStores.remove
RemoveStore(c) ==
  /\ c \in execs
  /\ method[c] = "close"
  /\ IF stores = NoStore
     THEN Answer(c, "failed")
     ELSE Begin(c, "removed") /\ Hold(c, stores)
  /\ stores' = NoStore
  /\ UNCHANGED <<pageVars, creatorVars, libraryVars, reached>>

\* Mutant: the store is taken out of the map and not closed.
CloseStoreNot(c) ==
  /\ thread[c] = "removed"
  /\ Answer(c, "ok")
  /\ UNCHANGED <<pageVars, creatorVars, stores, libraryVars, reached>>

\* ds.close() of a store that a delete has closed meanwhile may throw.
CloseStore(c) ==
  /\ thread[c] = "removed"
  /\ \/ Answer(c, "ok")
     \/ ~Live(held[c]) /\ Answer(c, "failed")
  /\ LibraryClose(held[c])
  /\ Reach(c, held[c].directory)
  /\ UNCHANGED <<pageVars, creatorVars, stores>>

-----------------------------------------------------------------------------
(* getDocumentStore, which throws if there is no store under the name *)

\* Mutant: the lookup takes the store out of the map.
GetDocumentStoreRemoves(c) ==
  /\ c \in execs
  /\ method[c] \in {"delete", "use"}
  /\ stores # NoStore
  /\ stores' = NoStore
  /\ Begin(c, "found")
  /\ Hold(c, stores)
  /\ UNCHANGED <<pageVars, creatorVars, libraryVars, reached>>

GetDocumentStore(c) ==
  /\ c \in execs
  /\ method[c] \in {"delete", "use"}
  /\ stores # NoStore
  /\ Begin(c, "found")
  /\ Hold(c, stores)
  /\ UNCHANGED <<pageVars, creatorVars, stores, libraryVars, reached>>

\* Mutant: an operation without a store returns without a result.
NoDocumentStoreSilent(c) ==
  /\ c \in execs
  /\ method[c] \in {"delete", "use"}
  /\ stores = NoStore
  /\ Begin(c, IF method[c] = "delete" THEN "undeleted" ELSE "ended")
  /\ UNCHANGED <<pageVars, creatorVars, stores, held, libraryVars, reached>>

\* An operation without a store fails; a delete logs that and goes on.
NoDocumentStore(c) ==
  /\ c \in execs
  /\ method[c] \in {"delete", "use"}
  /\ stores = NoStore
  /\ IF method[c] = "delete"
     THEN Begin(c, "undeleted") /\ UNCHANGED held
     ELSE Answer(c, "failed")
  /\ UNCHANGED <<pageVars, creatorVars, stores, libraryVars, reached>>

\* An operation on a store that was closed meanwhile throws.
UseStore(c) ==
  /\ thread[c] = "found"
  /\ method[c] = "use"
  /\ IF Live(held[c])
     THEN Answer(c, "ok") /\ Reach(c, held[c].directory)
     ELSE Answer(c, "failed") /\ UNCHANGED reached
  /\ UNCHANGED <<pageVars, creatorVars, stores, libraryVars>>

-----------------------------------------------------------------------------
(* deleteDocumentStore: the manager it is called on is not looked at *)

\* Mutant: the exception leaves the operation.
DeleteThrowsOut(c) ==
  /\ thread[c] = "found"
  /\ method[c] = "delete"
  /\ Continue(c, "thrown")
  /\ UNCHANGED <<pageVars, creatorVars, stores, held, libraryVars, reached>>

\* ds.delete() throws: that is logged.
DeleteThrows(c) ==
  /\ thread[c] = "found"
  /\ method[c] = "delete"
  /\ Continue(c, "undeleted")
  /\ UNCHANGED <<pageVars, creatorVars, stores, held, libraryVars, reached>>

DeleteStore(c) ==
  /\ thread[c] = "found"
  /\ method[c] = "delete"
  /\ Continue(c, "deleted")
  /\ LibraryDelete(held[c])
  /\ Reach(c, held[c].directory)
  /\ UNCHANGED <<pageVars, creatorVars, stores, held>>

\* Mutant: the deleted store stays in the map.
RemoveDeletedNot(c) ==
  /\ thread[c] \in {"deleted", "undeleted"}
  /\ Answer(c, "ok")
  /\ UNCHANGED <<pageVars, creatorVars, stores, libraryVars, reached>>

\* documentStores.remove, whatever is there by now; the call succeeds.
RemoveDeleted(c) ==
  /\ thread[c] \in {"deleted", "undeleted"}
  /\ stores' = NoStore
  /\ Answer(c, "ok")
  /\ UNCHANGED <<pageVars, creatorVars, libraryVars, reached>>

-----------------------------------------------------------------------------
NativeStep ==
  \/ \E m \in Manager : CountPaths(m) \/ PutPath(m)
  \/ \E c \in Call :
       \/ GetInstanceThrows(c) \/ GetInstance(c) \/ PutStore(c)
       \/ RemoveStore(c) \/ CloseStore(c)
       \/ GetDocumentStore(c) \/ NoDocumentStore(c) \/ UseStore(c)
       \/ DeleteThrows(c) \/ DeleteStore(c) \/ RemoveDeleted(c)

Next == (ScriptStep /\ UNCHANGED nativeVars) \/ NativeStep

Safe == Init /\ [][Next]_<<scriptVars, nativeVars>>

-----------------------------------------------------------------------------
(* Properties *)

Ends(c) == method[c] \in {"close", "delete"}

\* An open always goes to its own directory.  What is done with the store goes
\* to the directory of the last open of the name: a delete or a use may hit
\* another manager's store unless its own manager opened the name after that.
StaysInPlace ==
  \A c \in Call :
    \/ InPlace(c)
    \/ /\ method[c] # "open"
       /\ \E d \in Call : OpenedElsewhere(c, d) /\
            ~ \E o \in before[c] :
                Resolved(o, "open") /\ via[o] = via[c] /\ d \in before[o]

\* A close or delete that was not over when o was made, or an open under way
\* with both, which may put back a store that has been closed.
Disturbed(o, e) ==
  \/ e \notin before[o]
  \/ \E d \in Call : method[d] = "open" /\ Overlap(d, e) /\ d \notin before[o]

\* An open that was reported has left an open store under the name, unless it
\* was disturbed.
OpenedLives ==
  \A o \in Call : Resolved(o, "open") =>
    Live(stores) \/ \E e \in Call : Ends(e) /\ Disturbed(o, e)

\* A Datastore is refused only if somebody else closed or deleted it: calls
\* that merely overlap do not take it away.
RefusedOnlyEnded ==
  \A c, o \in Call :
    /\ method[c] \in {"use", "close"} /\ promise[c] = "rejected"
    /\ o \in before[c] /\ Resolved(o, "open")
    => \E e \in Call \ {c} : Ends(e) /\ Disturbed(o, e)

\* "Fails to close an already closed datastore" (tests/DatastoreTests.js), also
\* when the closes overlap: each close that succeeds has an open of its own.
CloseOnce ==
  Cardinality({c \in Call : Resolved(c, "close")})
    <= Cardinality({c \in Call : method[c] = "open"})

\* When all is quiet, an instance the library keeps open can be reached by its
\* name, so that somebody can close it -- unless the name was opened for two
\* directories, an open overlapped with a close or delete, or a delete failed.
NoOrphan ==
  Pending \/ \A m \in Manager :
    \/ opened[m] = 0
    \/ stores = [directory |-> m, opening |-> opened[m]]
    \/ \E c, d \in Call : method[c] = "open" /\
         \/ method[d] = "open" /\ reached[d] # reached[c]
         \/ Ends(d) /\ Overlap(c, d)
         \/ Resolved(d, "delete") /\ reached[d] = 0

\* The outcomes of overlapping calls, and what they leave behind.
StoresAgree ==
  /\ OpenedLives
  /\ RefusedOnlyEnded
  /\ EndedStaysEnded({"close", "delete"}, {"open"})
  /\ CloseOnce
  /\ NoOrphan

=============================================================================
