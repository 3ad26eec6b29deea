------------------------------- MODULE StoreMaps -------------------------------
(***************************************************************************)
(* What both native halves keep for datastores: the map of the managers'   *)
(* directories by id, the map of the open stores by name (one name, see    *)
(* StoreCalls) and the threads that run the calls.  Behind them is the     *)
(* library, which is not in the repository.  It has the files of a         *)
(* directory's store and at most one open instance of it: it opens one,    *)
(* making the files if there are none, gives the open one to everybody who *)
(* asks, and closes it or deletes it with its files.                       *)
(***************************************************************************)
EXTENDS StoreCalls

CONSTANT OnDisk  \* the directories with a store's files as the program starts

ASSUME OnDiskAssumption == OnDisk \subseteq Manager

VARIABLES
  managers,  \* the directory of each id: documentStorePaths, datastoreManagers
  stores,    \* the store under the name: documentStores, datastoreMap
  creator,   \* the thread that creates each manager
  count,     \* the size of `managers` it read
  thread,    \* the thread of each call
  held,      \* the store it has in its hands
  opened,    \* library: which opening of its store is open in a directory
  openings,  \* library: how often the store of each directory was opened
  disk,      \* library: the directories that have the store's files
  reached    \* history: the directory in which a call opened, used, closed or
             \* deleted a store

libraryVars == <<opened, openings, disk>>

nativeVars == <<managers, stores, creator, count, thread, held, libraryVars,
                reached>>

\* A store is one opening of the files of a directory.  No store: NoStore.
Store == [directory: Manager, opening: Nat]

NoStore == [directory |-> 0, opening |-> 0]

NativeTypeOK ==
  /\ DOMAIN managers \subseteq Nat
  /\ \A id \in DOMAIN managers : managers[id] \in Manager
  /\ stores \in Store \cup {NoStore}
  /\ creator \in [Manager -> {"queued", "counted", "ended"}]
  /\ count \in [Manager -> Nat]
  /\ thread \in [Call -> {"idle", "missed", "found", "opened", "removed",
                          "deleted", "undeleted", "ended"}]
  /\ held \in [Call -> Store \cup {NoStore}]
  /\ opened \in [Manager -> Nat]
  /\ openings \in [Manager -> Nat]
  /\ disk \in SUBSET Manager
  /\ reached \in [Call -> Manager \cup {0}]

TypeOK == ScriptTypeOK /\ NativeTypeOK

\* The application starts with empty maps and the files earlier runs left.
NativeInit ==
  /\ managers = [id \in {} |-> 0]
  /\ stores = NoStore
  /\ creator = [m \in Manager |-> "queued"]
  /\ count = [m \in Manager |-> 0]
  /\ thread = [c \in Call |-> "idle"]
  /\ held = [c \in Call |-> NoStore]
  /\ opened = [m \in Manager |-> 0]
  /\ openings = [m \in Manager |-> 0]
  /\ disk = OnDisk
  /\ reached = [c \in Call |-> 0]

Init == ScriptInit /\ NativeInit

-----------------------------------------------------------------------------
(* Steps of the native threads *)

\* The map with one more entry, or with one replaced.
Put(map, id, m) ==
  [i \in DOMAIN map \cup {id} |-> IF i = id THEN m ELSE map[i]]

Respond(m, ok, id) ==
  responses' = responses \cup {[manager |-> m, ok |-> ok, id |-> id]}

\* Call c is off the page and at the given step of its thread.
Begin(c, step) ==
  /\ execs' = execs \ {c}
  /\ thread' = [thread EXCEPT ![c] = step]
  /\ UNCHANGED result

Continue(c, step) ==
  /\ thread' = [thread EXCEPT ![c] = step]
  /\ UNCHANGED <<execs, result>>

Hold(c, s) == held' = [held EXCEPT ![c] = s]

\* The thread of call c ends with a result, and lets go of its store.
Answer(c, r) ==
  /\ execs' = execs \ {c}
  /\ thread' = [thread EXCEPT ![c] = "ended"]
  /\ result' = [result EXCEPT ![c] = r]
  /\ Hold(c, NoStore)

Reach(c, m) == reached' = [reached EXCEPT ![c] = m]

-----------------------------------------------------------------------------
(* The library *)

Live(s) == s # NoStore /\ opened[s.directory] = s.opening

\* The store a thread gets that opens the one in m.
Opening(m) ==
  [directory |-> m,
   opening |-> IF opened[m] # 0 THEN opened[m] ELSE openings[m] + 1]

LibraryOpen(m) ==
  /\ opened' = [opened EXCEPT ![m] = Opening(m).opening]
  /\ openings' = [openings EXCEPT
       ![m] = IF opened[m] # 0 THEN @ ELSE @ + 1]
  /\ disk' = disk \cup {m}

LibraryClose(s) ==
  /\ opened' = IF Live(s) THEN [opened EXCEPT ![s.directory] = 0] ELSE opened
  /\ UNCHANGED <<openings, disk>>

LibraryDelete(s) ==
  /\ opened' = IF Live(s) THEN [opened EXCEPT ![s.directory] = 0] ELSE opened
  /\ disk' = disk \ {s.directory}
  /\ UNCHANGED openings

-----------------------------------------------------------------------------
(* Properties of both platforms *)

\* Neither had been answered when the other was made.
Overlap(c, d) == c \notin before[d] /\ d \notin before[c]

\* Both were being created at the same time.
BornTogether(m, n) ==
  m \notin earlier[n] /\ n \notin earlier[m] /\ manager[n] # "none"

\* Two managers have one id only if the application asked for the second
\* without waiting for the first: then both read the same size of the map.
ManagersApart ==
  \A m, n \in Manager :
    /\ m # n /\ manager[m] = "resolved" /\ manager[n] = "resolved"
    /\ dsmID[m] = dsmID[n]
    => BornTogether(m, n)

\* The store lands, and stays, in the directory of the manager a call was made
\* for, but for the reasons given: an id that two managers share, or a store
\* that another manager opened under the name.
InPlace(c) ==
  \/ reached[c] \in {0, via[c]}
  \/ \E m \in Manager \ {via[c]} : BornTogether(via[c], m)

OpenedElsewhere(c, d) == method[d] = "open" /\ via[d] # via[c]

\* What was ended stays ended until somebody opens again: no other thread
\* brings an entry or its files back.  `wakes` are the methods that may.
EndedStaysEnded(ends, wakes) ==
  \A c \in Call : method[c] \in ends /\ promise[c] = "resolved" =>
    \/ \E d \in Call : method[d] \in wakes /\ d \notin before[c]
    \/ stores = NoStore /\ (method[c] = "delete" => reached[c] \notin disk)

Pending ==
  \/ \E m \in Manager : manager[m] = "pending"
  \/ \E c \in Call : promise[c] = "pending"

\* "A q style promise returning either a Datastore or an Error": whatever
\* overlaps, every promise of a manager and of a store settles.
EveryPromiseSettles == []<>~Pending

-----------------------------------------------------------------------------
(* The inductive invariant behind ManagersApart *)

Size == Cardinality(DOMAIN managers)

\* The ids are those below Size: an id once given out stays in the map.
IdsFilled == Size \in Nat /\ DOMAIN managers = 0..(Size - 1)

\* The thread that creates a manager counts once and responds once.
CreatorInv ==
  /\ \A m \in Manager :
       /\ manager[m] = "none" => creator[m] = "queued"
       /\ creator[m] = "counted" => manager[m] = "pending" /\ count[m] <= Size
       /\ manager[m] = "resolved" => dsmID[m] < Size
  /\ \A r \in responses :
       /\ manager[r.manager] = "pending" /\ creator[r.manager] = "ended"
       /\ r.ok => r.id < Size
       /\ \A s \in responses : s.manager = r.manager => s = r

\* Whatever id a manager has counted, is sent or has, it is beyond the ids of
\* the managers there were when it was asked for.
BeyondEarlier ==
  \A m \in Manager : \A n \in earlier[m] :
    /\ manager[n] = "resolved"
    /\ creator[m] = "counted" => dsmID[n] < count[m]
    /\ manager[m] = "resolved" => dsmID[n] < dsmID[m]
    /\ \A r \in responses : r.manager = m /\ r.ok => dsmID[n] < r.id

\* What the above says nothing about.
IdsTyped ==
  /\ manager \in [Manager -> {"none", "pending", "resolved", "rejected"}]
  /\ dsmID \in [Manager -> Nat]
  /\ responses \subseteq Response
  /\ creator \in [Manager -> {"queued", "counted", "ended"}]
  /\ count \in [Manager -> Nat]
  /\ earlier \in [Manager -> SUBSET Manager]

ManagersInv == IdsTyped /\ IdsFilled /\ CreatorInv /\ BeyondEarlier

=============================================================================
