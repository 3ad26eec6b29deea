-------------------------- MODULE StoreRegistryProofs --------------------------
(* Proofs about StoreRegistry, for any number of managers and of calls, on   *)
(* either platform.                                                          *)
EXTENDS StoreRegistry, FiniteSetTheorems, TLAPS

\* What the ids of managers depend on.
idVars == <<manager, dsmID, responses, creator, count, managers, earlier>>

LEMMA InitManagers == Init => ManagersInv
<1> SUFFICES ASSUME Init
             PROVE  ManagersInv
  OBVIOUS
<1>1. DOMAIN managers = {} /\ Size = 0
  BY FS_EmptySet DEF Init, NativeInit, Size
<1>2. IdsFilled
  BY <1>1 DEF IdsFilled
<1>3. IdsTyped
  BY DEF Init, ScriptInit, NativeInit, IdsTyped
<1>4. CreatorInv /\ BeyondEarlier
  BY DEF Init, ScriptInit, NativeInit, CreatorInv, BeyondEarlier
<1> QED
  BY <1>2, <1>3, <1>4 DEF ManagersInv

LEMMA OtherKeeps == ManagersInv /\ UNCHANGED idVars => ManagersInv'
BY DEF idVars, ManagersInv, IdsTyped, IdsFilled, CreatorInv, BeyondEarlier, Size

-----------------------------------------------------------------------------
(* Steps of the page *)

\* A manager that is asked for is beyond none yet: it has no id.
LEMMA NewManagerKeeps ==
  ASSUME ManagersInv, NEW m \in Manager, NewManager(m),
         UNCHANGED <<creator, count, managers>>
  PROVE  ManagersInv'
<1>1. /\ manager[m] = "none" /\ creator[m] = "queued"
      /\ manager' = [manager EXCEPT ![m] = "pending"]
      /\ earlier' = [earlier EXCEPT
           ![m] = {n \in Manager : manager[n] = "resolved"}]
      /\ UNCHANGED <<dsmID, responses>> /\ Size' = Size
  BY DEF NewManager, ManagersInv, CreatorInv, Size
<1>2. IdsTyped' /\ IdsFilled'
  BY <1>1 DEF ManagersInv, IdsTyped, IdsFilled
<1>3. CreatorInv'
  BY <1>1 DEF ManagersInv, CreatorInv, IdsTyped, Response
<1>4. BeyondEarlier'
  <2> SUFFICES ASSUME NEW x \in Manager, NEW n \in earlier'[x]
               PROVE  /\ manager'[n] = "resolved"
                      /\ creator[x] = "counted" => dsmID[n] < count[x]
                      /\ manager'[x] = "resolved" => dsmID[n] < dsmID[x]
                      /\ \A r \in responses :
                           r.manager = x /\ r.ok => dsmID[n] < r.id
    BY <1>1 DEF BeyondEarlier
  <2>1. CASE x = m
    <3>1. n \in Manager /\ manager[n] = "resolved" /\ manager'[m] = "pending"
      BY <1>1, <2>1 DEF ManagersInv, IdsTyped
    <3>2. \A r \in responses : r.manager # m
      BY <1>1 DEF ManagersInv, CreatorInv
    <3> QED
      BY <1>1, <2>1, <3>1, <3>2 DEF ManagersInv, IdsTyped
  <2>2. CASE x # m
    <3>1. n \in earlier[x] /\ n \in Manager /\ manager'[x] = manager[x]
      BY <1>1, <2>2 DEF ManagersInv, IdsTyped
    <3> QED
      BY <1>1, <3>1 DEF ManagersInv, BeyondEarlier, IdsTyped
  <2> QED
    BY <2>1, <2>2
<1> QED
  BY <1>2, <1>3, <1>4 DEF ManagersInv

\* The id that arrives is the one the thread responded with.
LEMMA HandleManagerKeeps ==
  ASSUME ManagersInv, HandleManager, UNCHANGED <<creator, count, managers>>
  PROVE  ManagersInv'
<1>1. PICK r \in responses :
        /\ responses' = responses \ {r}
        /\ manager' = [manager EXCEPT
             ![r.manager] = IF r.ok THEN "resolved" ELSE "rejected"]
        /\ dsmID' = IF r.ok THEN [dsmID EXCEPT ![r.manager] = r.id] ELSE dsmID
  BY DEF HandleManager
<1>2. /\ r.manager \in Manager /\ r.id \in Nat /\ r.ok \in BOOLEAN
      /\ manager[r.manager] = "pending" /\ creator[r.manager] = "ended"
      /\ earlier' = earlier /\ Size' = Size
  BY DEF HandleManager, ManagersInv, IdsTyped, CreatorInv, Response, Size
<1>3. IdsTyped' /\ IdsFilled'
  BY <1>1, <1>2 DEF ManagersInv, IdsTyped, IdsFilled
<1>4. \A s \in responses' : s.manager \in Manager /\ s.manager # r.manager
  BY <1>1 DEF ManagersInv, CreatorInv, IdsTyped, Response
<1>5. CreatorInv'
  <2>1. \A x \in Manager :
          /\ manager'[x] = "none" => creator'[x] = "queued"
          /\ creator'[x] = "counted" =>
               manager'[x] = "pending" /\ count'[x] <= Size'
          /\ manager'[x] = "resolved" => dsmID'[x] < Size'
    BY <1>1, <1>2 DEF ManagersInv, CreatorInv, IdsTyped
  <2>2. \A s \in responses' :
          /\ manager'[s.manager] = "pending" /\ creator'[s.manager] = "ended"
          /\ s.ok => s.id < Size'
          /\ \A t \in responses' : t.manager = s.manager => t = s
    BY <1>1, <1>2, <1>4 DEF ManagersInv, CreatorInv, IdsTyped
  <2> QED
    BY <2>1, <2>2 DEF CreatorInv
<1>6. BeyondEarlier'
  <2> SUFFICES ASSUME NEW x \in Manager, NEW n \in earlier[x]
               PROVE  /\ manager'[n] = "resolved"
                      /\ creator[x] = "counted" => dsmID'[n] < count[x]
                      /\ manager'[x] = "resolved" => dsmID'[n] < dsmID'[x]
                      /\ \A s \in responses' :
                           s.manager = x /\ s.ok => dsmID'[n] < s.id
    BY <1>2 DEF BeyondEarlier
  <2>1. n \in Manager /\ manager[n] = "resolved" /\ n # r.manager
    BY <1>2 DEF ManagersInv, BeyondEarlier, IdsTyped
  <2>2. manager'[n] = "resolved" /\ dsmID'[n] = dsmID[n]
    BY <1>1, <1>2, <2>1 DEF ManagersInv, IdsTyped
  <2>3. manager'[x] = "resolved" => dsmID[n] < dsmID'[x]
    BY <1>1, <1>2, <2>1 DEF ManagersInv, BeyondEarlier, IdsTyped
  <2> QED
    BY <1>1, <2>2, <2>3 DEF ManagersInv, BeyondEarlier
<1> QED
  BY <1>3, <1>5, <1>6 DEF ManagersInv

-----------------------------------------------------------------------------
(* Steps of the thread that creates a manager *)

\* What is counted is beyond every id that is out: those are all in the map.
LEMMA CountKeeps ==
  ASSUME ManagersInv, NEW m \in Manager,
         manager[m] = "pending", creator[m] = "queued",
         creator' = [creator EXCEPT ![m] = "counted"],
         count' = [count EXCEPT ![m] = Size],
         UNCHANGED <<manager, dsmID, responses, managers, earlier>>
  PROVE  ManagersInv'
<1>1. Size' = Size /\ Size \in Nat
  BY DEF ManagersInv, IdsFilled, Size
<1>2. IdsTyped' /\ IdsFilled'
  BY <1>1 DEF ManagersInv, IdsTyped, IdsFilled
<1>3. CreatorInv'
  BY <1>1 DEF ManagersInv, CreatorInv, IdsTyped, Response
<1>4. \A x \in Manager : \A n \in earlier[x] :
        n \in Manager /\ manager[n] = "resolved" /\ dsmID[n] < Size
  BY DEF ManagersInv, BeyondEarlier, CreatorInv, IdsTyped
<1>5. BeyondEarlier'
  BY <1>1, <1>4 DEF ManagersInv, BeyondEarlier, IdsTyped
<1> QED
  BY <1>2, <1>3, <1>5 DEF ManagersInv

LEMMA FilledCardinality ==
  ASSUME NEW k \in Nat
  PROVE  Cardinality(0..(k - 1)) = k
<1>1. CASE k = 0
  BY <1>1, FS_EmptySet
<1>2. CASE k > 0
  BY <1>2, FS_Interval
<1> QED
  BY <1>1, <1>2

\* An entry goes to the end of the map, or replaces one that was put since.
LEMMA PutFills ==
  ASSUME NEW k \in Nat, NEW id \in Nat, id <= k
  PROVE  \E n \in Nat :
           n >= k /\ id < n /\ (0..(k - 1)) \cup {id} = 0..(n - 1)
<1>1. CASE id < k
  <2>1. (0..(k - 1)) \cup {id} = 0..(k - 1)
    BY <1>1
  <2> QED
    BY <1>1, <2>1
<1>2. CASE id = k
  <2>1. (0..(k - 1)) \cup {id} = 0..((k + 1) - 1)
    BY <1>2
  <2>2. k + 1 \in Nat /\ k + 1 >= k /\ id < k + 1
    BY <1>2
  <2> QED
    BY <2>1, <2>2
<1> QED
  BY <1>1, <1>2

LEMMA PutKeeps ==
  ASSUME ManagersInv, NEW m \in Manager, creator[m] = "counted",
         creator' = [creator EXCEPT ![m] = "ended"],
         managers' = Put(managers, count[m], m),
         Respond(m, TRUE, count[m]),
         count' = [count EXCEPT ![m] = 0],
         UNCHANGED <<manager, dsmID, earlier>>
  PROVE  ManagersInv'
<1> DEFINE r == [manager |-> m, ok |-> TRUE, id |-> count[m]]
<1>1. /\ manager[m] = "pending" /\ count[m] <= Size /\ count[m] \in Nat
      /\ Size \in Nat /\ responses' = responses \cup {r} /\ r \in Response
  BY DEF ManagersInv, CreatorInv, IdsTyped, IdsFilled, Respond, Response
<1>2. IdsFilled' /\ Size' >= Size /\ count[m] < Size' /\ Size' \in Nat
  <2>1. DOMAIN managers' = (0..(Size - 1)) \cup {count[m]}
    BY DEF Put, ManagersInv, IdsFilled
  <2>2. PICK n \in Nat :
          n >= Size /\ count[m] < n /\ DOMAIN managers' = 0..(n - 1)
    BY <1>1, <2>1, PutFills
  <2>3. Size' = n
    BY <2>2, FilledCardinality DEF Size
  <2> QED
    BY <2>2, <2>3 DEF IdsFilled
<1>3. \A s \in responses : s.manager \in Manager /\ s.manager # m
  BY DEF ManagersInv, CreatorInv, IdsTyped, Response
<1>4. IdsTyped'
  BY <1>1 DEF ManagersInv, IdsTyped
<1>5. CreatorInv'
  <2>1. \A x \in Manager :
          /\ manager'[x] = "none" => creator'[x] = "queued"
          /\ creator'[x] = "counted" =>
               manager'[x] = "pending" /\ count'[x] <= Size'
          /\ manager'[x] = "resolved" => dsmID'[x] < Size'
    BY <1>1, <1>2 DEF ManagersInv, CreatorInv, IdsTyped
  <2>2. \A s \in responses :
          /\ manager'[s.manager] = "pending" /\ creator'[s.manager] = "ended"
          /\ s.ok => s.id < Size'
    BY <1>1, <1>2, <1>3 DEF ManagersInv, CreatorInv, IdsTyped, Response
  <2>3. manager'[r.manager] = "pending" /\ creator'[r.manager] = "ended"
        /\ r.id < Size'
    BY <1>1, <1>2 DEF ManagersInv, IdsTyped
  <2>4. \A s, t \in responses' : t.manager = s.manager => t = s
    <3>1. \A s, t \in responses : t.manager = s.manager => t = s
      BY DEF ManagersInv, CreatorInv
    <3>2. r.manager = m
      OBVIOUS
    <3> QED
      BY <1>1, <1>3, <3>1, <3>2
  <2> QED
    BY <1>1, <2>1, <2>2, <2>3, <2>4 DEF CreatorInv
<1>6. BeyondEarlier'
  <2> SUFFICES ASSUME NEW x \in Manager, NEW n \in earlier[x]
               PROVE  /\ manager[n] = "resolved"
                      /\ creator'[x] = "counted" => dsmID[n] < count'[x]
                      /\ manager[x] = "resolved" => dsmID[n] < dsmID[x]
                      /\ \A s \in responses' :
                           s.manager = x /\ s.ok => dsmID[n] < s.id
    BY DEF BeyondEarlier
  <2>1. /\ manager[n] = "resolved"
        /\ creator[x] = "counted" => dsmID[n] < count[x]
        /\ manager[x] = "resolved" => dsmID[n] < dsmID[x]
        /\ \A s \in responses : s.manager = x /\ s.ok => dsmID[n] < s.id
    BY DEF ManagersInv, BeyondEarlier
  <2>2. creator'[x] = "counted" => dsmID[n] < count'[x]
    BY <2>1 DEF ManagersInv, IdsTyped
  <2> QED
    BY <1>1, <2>1, <2>2
<1> QED
  BY <1>2, <1>4, <1>5, <1>6 DEF ManagersInv

LEMMA RefuseKeeps ==
  ASSUME ManagersInv, NEW m \in Manager,
         manager[m] = "pending", creator[m] = "queued",
         creator' = [creator EXCEPT ![m] = "ended"],
         Respond(m, FALSE, 0),
         UNCHANGED <<manager, dsmID, count, managers, earlier>>
  PROVE  ManagersInv'
<1> DEFINE r == [manager |-> m, ok |-> FALSE, id |-> 0]
<1>1. responses' = responses \cup {r} /\ r \in Response /\ Size' = Size
  BY DEF Respond, Response, Size
<1>2. \A s \in responses : s.manager \in Manager /\ s.manager # m
  BY DEF ManagersInv, CreatorInv, IdsTyped, Response
<1>3. IdsTyped' /\ IdsFilled'
  BY <1>1 DEF ManagersInv, IdsTyped, IdsFilled
<1>4. CreatorInv'
  <2>1. \A x \in Manager :
          /\ manager[x] = "none" => creator'[x] = "queued"
          /\ creator'[x] = "counted" =>
               manager[x] = "pending" /\ count[x] <= Size
          /\ manager[x] = "resolved" => dsmID[x] < Size
    BY DEF ManagersInv, CreatorInv, IdsTyped
  <2>2. \A s \in responses :
          /\ manager[s.manager] = "pending" /\ creator'[s.manager] = "ended"
          /\ s.ok => s.id < Size
    BY <1>2 DEF ManagersInv, CreatorInv, IdsTyped
  <2>3. manager[r.manager] = "pending" /\ creator'[r.manager] = "ended" /\ ~r.ok
    BY DEF ManagersInv, IdsTyped
  <2>4. \A s, t \in responses' : t.manager = s.manager => t = s
    <3>1. \A s, t \in responses : t.manager = s.manager => t = s
      BY DEF ManagersInv, CreatorInv
    <3>2. r.manager = m
      OBVIOUS
    <3> QED
      BY <1>1, <1>2, <3>1, <3>2
  <2> QED
    BY <1>1, <2>1, <2>2, <2>3, <2>4 DEF CreatorInv
<1>5. BeyondEarlier'
  BY <1>1 DEF ManagersInv, BeyondEarlier, IdsTyped
<1> QED
  BY <1>3, <1>4, <1>5 DEF ManagersInv

-----------------------------------------------------------------------------
(* The two platforms *)

LEMMA AndroidCounts == Android!Cardinality(DOMAIN managers) = Size
BY DEF Android!Cardinality, Cardinality, Size

LEMMA IOSCounts == IOS!Cardinality(DOMAIN managers) = Size
BY DEF IOS!Cardinality, Cardinality, Size

LEMMA AndroidKeeps ==
  ASSUME ManagersInv, Android!NativeStep
  PROVE  ManagersInv'
<1>1. ASSUME NEW m \in Manager, Android!CountPaths(m)
      PROVE  ManagersInv'
  BY <1>1, CountKeeps, AndroidCounts DEF Android!CountPaths, Android!pageVars
<1>2. ASSUME NEW m \in Manager, Android!PutPath(m)
      PROVE  ManagersInv'
  BY <1>2, PutKeeps DEF Android!PutPath, Android!pageVars, Android!Put, Put,
     Android!Respond, Respond
<1>3. ASSUME NEW c \in Call,
             \/ Android!GetInstanceThrows(c) \/ Android!GetInstance(c)
             \/ Android!PutStore(c) \/ Android!RemoveStore(c)
             \/ Android!CloseStore(c) \/ Android!GetDocumentStore(c)
             \/ Android!NoDocumentStore(c) \/ Android!UseStore(c)
             \/ Android!DeleteThrows(c) \/ Android!DeleteStore(c)
             \/ Android!RemoveDeleted(c)
      PROVE  ManagersInv'
  <2>1. UNCHANGED idVars
    BY <1>3 DEF Android!GetInstanceThrows, Android!GetInstance,
       Android!PutStore, Android!RemoveStore, Android!CloseStore,
       Android!GetDocumentStore, Android!NoDocumentStore, Android!UseStore,
       Android!DeleteThrows, Android!DeleteStore, Android!RemoveDeleted,
       Android!creatorVars, Android!pageVars, idVars
  <2> QED
    BY <2>1, OtherKeeps
<1> QED
  BY <1>1, <1>2, <1>3 DEF Android!NativeStep

LEMMA IOSKeeps ==
  ASSUME ManagersInv, IOS!NativeStep
  PROVE  ManagersInv'
<1>1. ASSUME NEW m \in Manager, IOS!NoManager(m)
      PROVE  ManagersInv'
  BY <1>1, RefuseKeeps DEF IOS!NoManager, IOS!pageVars, IOS!Respond, Respond
<1>2. ASSUME NEW m \in Manager, IOS!CountManagers(m)
      PROVE  ManagersInv'
  BY <1>2, CountKeeps, IOSCounts DEF IOS!CountManagers, IOS!pageVars
<1>3. ASSUME NEW m \in Manager, IOS!SetManager(m)
      PROVE  ManagersInv'
  BY <1>3, PutKeeps DEF IOS!SetManager, IOS!pageVars, IOS!Put, Put,
     IOS!Respond, Respond
<1>4. ASSUME NEW c \in Call,
             \/ IOS!OpenCached(c) \/ IOS!OpenMissed(c) \/ IOS!NoDatastore(c)
             \/ IOS!DatastoreNamed(c) \/ IOS!SetDatastore(c)
             \/ IOS!CloseDatastore(c)
             \/ IOS!DeleteNamed(c) \/ IOS!DeleteFails(c)
             \/ IOS!RemoveDatastore(c)
             \/ IOS!NoStoreFound(c) \/ IOS!FindStore(c) \/ IOS!UseStore(c)
             \/ IOS!UseDeleted(c)
      PROVE  ManagersInv'
  <2>1. UNCHANGED idVars
    BY <1>4 DEF IOS!OpenCached, IOS!OpenMissed, IOS!NoDatastore,
       IOS!DatastoreNamed, IOS!SetDatastore, IOS!CloseDatastore,
       IOS!DeleteNamed, IOS!DeleteFails, IOS!RemoveDatastore,
       IOS!NoStoreFound, IOS!FindStore, IOS!UseStore, IOS!UseDeleted,
       IOS!creatorVars, IOS!pageVars, idVars
  <2> QED
    BY <2>1, OtherKeeps
<1> QED
  BY <1>1, <1>2, <1>3, <1>4 DEF IOS!NativeStep

LEMMA NextManagers == ManagersInv /\ [Next]_vars => ManagersInv'
<1> SUFFICES ASSUME ManagersInv, [Next]_vars
             PROVE  ManagersInv'
  OBVIOUS
<1>1. CASE ScriptStep /\ UNCHANGED <<nativeVars, platform>>
  <2>1. UNCHANGED <<creator, count, managers>>
    BY <1>1 DEF nativeVars
  <2>2. ASSUME NEW m \in Manager, NewManager(m)
        PROVE  ManagersInv'
    BY <2>1, <2>2, NewManagerKeeps
  <2>3. CASE HandleManager
    BY <2>1, <2>3, HandleManagerKeeps
  <2>4. ASSUME NEW c \in Call, Invoke(c) \/ Settle(c)
        PROVE  ManagersInv'
    BY <2>1, <2>4, OtherKeeps DEF Invoke, Settle, idVars
  <2> QED
    BY <1>1, <2>2, <2>3, <2>4 DEF ScriptStep, Handle
<1>2. CASE NativeStep
  BY <1>2, AndroidKeeps, IOSKeeps DEF NativeStep
<1>3. CASE UNCHANGED vars
  BY <1>3, OtherKeeps DEF vars, scriptVars, pageVars, nativeVars, idVars
<1> QED
  BY <1>1, <1>2, <1>3 DEF Next

\* Two managers share an id only if neither had been resolved when the other
\* was asked for: an id is the number of entries in the map, entries are never
\* removed, and an id that is out is in the map.
THEOREM ManagersApartCorrect == Spec => []ManagersApart
<1>1. ManagersInv => ManagersApart
  <2> SUFFICES ASSUME ManagersInv, NEW m \in Manager, NEW n \in Manager,
                      manager[m] = "resolved", manager[n] = "resolved",
                      dsmID[m] = dsmID[n]
               PROVE  BornTogether(m, n)
    BY DEF ManagersApart
  <2>1. dsmID[m] \in Nat /\ dsmID[n] \in Nat
    BY DEF ManagersInv, IdsTyped
  <2>2. m \notin earlier[n] /\ n \notin earlier[m]
    BY <2>1 DEF ManagersInv, BeyondEarlier
  <2> QED
    BY <2>2 DEF BornTogether
<1>2. PlatformInit => ManagersInv
  BY InitManagers DEF PlatformInit
<1> QED
  BY <1>1, <1>2, NextManagers, PTL DEF Spec, Safe

-----------------------------------------------------------------------------
(* Steps of a call *)

InThread(c) == thread[c] \notin {"idle", "ended"}

\* What a step of call c does to it; what a thread finds in the map, and in
\* which directory it gets its work done.
Moves(c) ==
  /\ c \in execs \/ InThread(c)
  /\ execs' = execs \ {c}
  /\ \A d \in Call \ {c} : /\ thread'[d] = thread[d] /\ result'[d] = result[d]
                           /\ held'[d] = held[d] /\ reached'[d] = reached[d]
  /\ thread'[c] # "idle"
  /\ thread'[c] # "ended" => result'[c] = result[c]
  /\ thread'[c] \in {"missed", "opened"} => method[c] = "open"
  /\ thread'[c] \in {"found", "removed", "deleted", "undeleted"} =>
       method[c] # "open"
  /\ thread'[c] = "opened" => PlaceOf(via[c], held'[c].directory)
  /\ thread'[c] \in {"found", "removed"} =>
       method[c] # Direct /\ stores # NoStore /\ held'[c] = stores
  /\ thread'[c] \in {"found", "removed", "opened"} => held'[c] \in Store
  /\ \/ reached'[c] = reached[c]
     \/ PlaceOf(via[c], reached'[c])
     \/ /\ method[c] # Direct
        /\ \/ /\ thread[c] \in {"found", "removed"}
              /\ reached'[c] = held[c].directory
           \/ stores # NoStore /\ reached'[c] = stores.directory
  /\ \/ stores' = stores \/ stores' = NoStore
     \/ thread[c] = "opened" /\ stores' = held[c]
  /\ platform = "android" /\ method[c] = "open" /\ result'[c] = "ok" =>
       thread[c] = "opened" /\ stores' = held[c]
  /\ UNCHANGED <<pageVars, managers, responses, platform>>

\* What a step of call c does to the map of the open stores, ...
MapActs(c) ==
  /\ \/ stores' = stores
     \/ stores' = NoStore /\ Ends(c)
     \/ thread[c] = "opened" /\ stores' = held[c]
  /\ thread[c] = "opened" => stores' = held[c]
  /\ thread[c] = "deleted" => stores' = NoStore
  /\ Ends(c) /\ thread'[c] \in {"removed", "ended"} =>
       stores' = NoStore \/ (thread[c] = "removed" /\ stores' = stores)
  /\ thread'[c] \in {"found", "removed"} => thread[c] = "idle"
  /\ thread'[c] = "found" => stores' = stores /\ method[c] \in {"use", "delete"}
  /\ thread'[c] = "removed" => method[c] = "close" /\ platform = "android"
  /\ thread'[c] \in {"deleted", "undeleted"} => method[c] = "delete"

\* ... to the library's stores, ...
LibraryActs(c) ==
  /\ \/ \A m \in Manager : opened[m] # 0 => opened'[m] = opened[m]
     \/ Ends(c) /\ (thread'[c] = "deleted" \/ thread[c] = "removed")
  /\ thread'[c] \in {"found", "removed"} => opened' = opened
  /\ thread'[c] = "opened" =>
       /\ opened'[held'[c].directory] = held'[c].opening
       /\ held'[c].opening # 0 /\ reached'[c] = held'[c].directory
  /\ disk' \subseteq disk \/ Wakes(c)
  /\ method[c] = "delete" => reached'[c] = reached[c] \/ reached'[c] \notin disk'

\* ... and to its own outcome.
OutcomeActs(c) ==
  /\ result'[c] = "ok" /\ method[c] = "open" =>
       \/ thread[c] = "opened"
       \/ /\ platform # "android" /\ stores # NoStore
          /\ stores' = stores /\ opened' = opened
  /\ result'[c] = "failed" /\ method[c] \in {"use", "close"} =>
       /\ method[c] = "close" => platform = "android"
       /\ \/ thread[c] = "idle" /\ stores = NoStore
          \/ thread[c] \in {"found", "removed"} /\ ~Live(held[c])

\* What holds on Android only.
AndroidActs(c) ==
  /\ thread'[c] \in {"opened", "found", "removed"} => thread[c] = "idle"
  /\ thread'[c] = "opened" =>
       \A m \in Manager : m # reached'[c] => opened'[m] = opened[m]
  /\ thread'[c] = "deleted" \/ thread[c] = "removed" =>
       /\ thread[c] \in {"found", "removed"}
       /\ thread'[c] \in {"deleted", "ended"}
       /\ reached'[c] = held[c].directory
       /\ \A m \in Manager : opened'[m] =
            IF Live(held[c]) /\ m = held[c].directory THEN 0 ELSE opened[m]
  /\ ~(thread'[c] \in {"opened", "deleted"} \/ thread[c] = "removed") =>
       opened' = opened
  /\ method[c] = "open" => reached'[c] = reached[c] \/ thread'[c] = "opened"
  /\ method[c] = "delete" =>
       /\ reached'[c] = reached[c] \/ thread'[c] = "deleted"
       /\ result'[c] # "failed"
  /\ thread[c] = "found" =>
       thread'[c] \in {"deleted", "undeleted"} \/ method[c] = "use"
  /\ thread'[c] = "removed" => stores # NoStore /\ stores' = NoStore
  /\ method[c] = "close" /\ result'[c] = "ok" => thread[c] = "removed"
  /\ thread[c] = "opened" => result'[c] = "ok"
  /\ thread'[c] = "undeleted" => thread[c] \in {"idle", "found"}
  /\ thread'[c] = "removed" \/ stores' = stores
     \/ thread[c] \in {"opened", "deleted", "undeleted"}

Acts(c) ==
  /\ MapActs(c) /\ LibraryActs(c) /\ OutcomeActs(c)
  /\ platform = "android" => AndroidActs(c)

CallsFit == \A c \in Call : CallFits(c)

LEMMA MovesCallFits ==
  ASSUME TypeOK, CallsFit, NEW c \in Call, Moves(c), NEW d \in Call
  PROVE  CallFits(d)'
<1> USE DEF TypeOK, ScriptTypeOK
<1>1. /\ CallFits(c) /\ CallFits(d) /\ before[d] \subseteq Call
      /\ UNCHANGED <<manager, method, via, promise, before>>
  BY DEF CallsFit, Moves, pageVars
<1>2. promise[c] = "pending" /\ result[c] = "none"
  BY <1>1 DEF Moves, InThread, CallFits
<1>3. \A e \in before'[d] : Settled(e)'
  BY <1>1 DEF CallFits, Settled
<1>4. CASE d = c
  BY <1>1, <1>2, <1>3, <1>4 DEF Moves, CallFits, Settled
<1>5. CASE d # c
  BY <1>1, <1>3, <1>5 DEF Moves, CallFits, Settled
<1> QED
  BY <1>4, <1>5

\* Managers that were born together stay so.
LEMMA PlaceKept ==
  ASSUME NEW m, NEW dir, UNCHANGED <<manager, earlier>>, PlaceOf(m, dir)
  PROVE  PlaceOf(m, dir)'
  BY DEF PlaceOf, BornTogether

LEMMA MovesPlace ==
  ASSUME TypeOK, CallsFit, PlaceInv, NEW c \in Call, Moves(c)
  PROVE  PlaceInv'
<1> USE DEF TypeOK, ScriptTypeOK
<1>1. /\ UNCHANGED <<manager, earlier, method, via, promise, before, platform>>
      /\ CallFits(c)
  BY DEF CallsFit, Moves, pageVars
<1>2. promise[c] = "pending" /\ result[c] = "none"
  BY <1>1 DEF Moves, InThread, CallFits
<1>3. \A d \in Call : c \notin before[d]
  BY <1>2 DEF CallsFit, CallFits, Settled
<1>4. \A d \in Call \ {c} : Stored(d)' <=> Stored(d)
  BY <1>1 DEF Moves, Stored
<1>5. Direct' = Direct
  BY <1>1 DEF Direct
<1>6. ASSUME NEW d \in Call, NEW dir, LastOpened(dir, before[d])
      PROVE  LastOpened(dir, before[d])'
  <2>1. before'[d] = before[d] /\ c \notin before[d] /\ before[d] \subseteq Call
    BY <1>1, <1>3
  <2> QED
    BY <1>1, <1>4, <1>6, <2>1, PlaceKept DEF LastOpened
<1>7. ASSUME NEW dir, LastOpened(dir, Call), NEW d \in Call
      PROVE  LastOpened(dir, before[d])'
  <2>1. before'[d] = before[d] /\ c \notin before[d] /\ before[d] \subseteq Call
    BY <1>1, <1>3
  <2> QED
    BY <1>1, <1>4, <1>7, <2>1, PlaceKept DEF LastOpened
<1>8. ASSUME stores' # NoStore
      PROVE  LastOpened(stores.directory, Call)'
  <2>1. CASE stores' = held[c] /\ thread[c] = "opened"
    <3>1. method[c] = "open" /\ PlaceOf(via[c], held[c].directory)
      BY <1>1, <2>1 DEF PlaceInv, PlaceFits, CallFits
    <3> QED
      BY <1>1, <1>3, <2>1, <3>1, PlaceKept DEF LastOpened
  <2>2. CASE stores' = stores /\ ~(thread[c] = "opened" /\ stores' = held[c])
    <3>1. PICK d \in Call :
            /\ method[d] = "open" /\ PlaceOf(via[d], stores.directory)
            /\ platform = "android" =>
                 \A o \in Call : Stored(o) => d \notin before[o]
      BY <1>8, <2>2 DEF PlaceInv, LastOpened
    <3>2. platform = "android" => ~Stored(c)'
      BY <1>1, <1>2, <2>2 DEF Moves, Stored
    <3> QED
      BY <1>1, <1>4, <2>2, <3>1, <3>2, PlaceKept DEF LastOpened
  <2> QED
    BY <1>8, <2>1, <2>2 DEF Moves
<1>9. ASSUME NEW d \in Call
      PROVE  PlaceFits(d)'
  <2>1. CASE d # c
    <3>1. /\ UNCHANGED <<thread[d], held[d], reached[d], via[d], method[d]>>
      BY <1>1, <2>1 DEF Moves
    <3> QED
      BY <1>1, <1>5, <1>6, <3>1, PlaceKept DEF PlaceInv, PlaceFits
  <2>2. CASE d = c
    <3>1. thread'[c] = "opened" => PlaceOf(via[c], held[c].directory)'
      BY <1>1, PlaceKept DEF Moves
    <3>2. thread'[c] \in {"found", "removed"} =>
            method'[c] # Direct' /\ LastOpened(held[c].directory, before[c])'
      BY <1>1, <1>5, <1>7 DEF Moves, PlaceInv
    <3>3. reached'[c] # 0 =>
            \/ PlaceOf(via[c], reached[c])'
            \/ method'[c] # Direct' /\ LastOpened(reached[c], before[c])'
      <4>1. CASE reached'[c] = reached[c]
        BY <1>1, <1>5, <1>6, <4>1, PlaceKept DEF PlaceInv, PlaceFits
      <4>2. CASE PlaceOf(via[c], reached'[c])
        BY <1>1, <4>2, PlaceKept
      <4>3. CASE /\ method[c] # Direct /\ thread[c] \in {"found", "removed"}
                 /\ reached'[c] = held[c].directory
        BY <1>1, <1>5, <1>6, <4>3 DEF PlaceInv, PlaceFits
      <4>4. CASE /\ method[c] # Direct /\ stores # NoStore
                 /\ reached'[c] = stores.directory
        BY <1>1, <1>5, <1>7, <4>4 DEF PlaceInv
      <4> QED
        BY <4>1, <4>2, <4>3, <4>4 DEF Moves
    <3> QED
      BY <2>2, <3>1, <3>2, <3>3 DEF PlaceFits
  <2> QED
    BY <2>1, <2>2
<1> QED
  BY <1>8, <1>9 DEF PlaceInv


-----------------------------------------------------------------------------
(* Every action of a call is such a step *)

\* What an answer and a beginning do, on either platform.
Answered(c, r) ==
  /\ execs' = execs \ {c}
  /\ thread' = [thread EXCEPT ![c] = "ended"]
  /\ result' = [result EXCEPT ![c] = r]
  /\ held' = [held EXCEPT ![c] = NoStore]

Begun(c, step) ==
  /\ execs' = execs \ {c}
  /\ thread' = [thread EXCEPT ![c] = step]
  /\ UNCHANGED result

LEMMA AndroidNames ==
  /\ (UNCHANGED Android!pageVars) <=> UNCHANGED pageVars
  /\ (UNCHANGED Android!libraryVars) <=> UNCHANGED libraryVars
  /\ \A c, r : Android!Answer(c, r) <=> Answered(c, r)
  /\ \A c, s : Android!Begin(c, s) <=> Begun(c, s)
  /\ \A c, s : Android!Hold(c, s) <=> held' = [held EXCEPT ![c] = s]
  /\ \A c, m : Android!Reach(c, m) <=> reached' = [reached EXCEPT ![c] = m]
  /\ \A m : Android!LibraryOpen(m) <=> LibraryOpen(m)
  /\ \A s : Android!LibraryClose(s) <=> LibraryClose(s)
  /\ \A s : Android!LibraryDelete(s) <=> LibraryDelete(s)
  /\ \A m : Android!Opening(m) = Opening(m)
  /\ \A s : Android!Live(s) <=> Live(s)
  /\ Android!NoStore = NoStore
  BY DEF pageVars, libraryVars, Answered, Begun, LibraryOpen, LibraryClose,
     LibraryDelete, Opening, Live, NoStore, Android!pageVars,
     Android!libraryVars, Android!Answer, Android!Begin, Android!Hold,
     Android!Reach, Android!LibraryOpen, Android!LibraryClose,
     Android!LibraryDelete, Android!Opening, Android!Live, Android!NoStore

LEMMA IOSNames ==
  /\ (UNCHANGED IOS!pageVars) <=> UNCHANGED pageVars
  /\ (UNCHANGED IOS!libraryVars) <=> UNCHANGED libraryVars
  /\ \A c, r : IOS!Answer(c, r) <=> Answered(c, r)
  /\ \A c, s : IOS!Begin(c, s) <=> Begun(c, s)
  /\ \A c, s : IOS!Hold(c, s) <=> held' = [held EXCEPT ![c] = s]
  /\ \A c, m : IOS!Reach(c, m) <=> reached' = [reached EXCEPT ![c] = m]
  /\ \A m : IOS!LibraryOpen(m) <=> LibraryOpen(m)
  /\ \A s : IOS!LibraryClose(s) <=> LibraryClose(s)
  /\ \A s : IOS!LibraryDelete(s) <=> LibraryDelete(s)
  /\ \A m : IOS!Opening(m) = Opening(m)
  /\ \A s : IOS!Live(s) <=> Live(s)
  /\ IOS!NoStore = NoStore
  BY DEF pageVars, libraryVars, Answered, Begun, LibraryOpen, LibraryClose,
     LibraryDelete, Opening, Live, NoStore, IOS!pageVars,
     IOS!libraryVars, IOS!Answer, IOS!Begin, IOS!Hold,
     IOS!Reach, IOS!LibraryOpen, IOS!LibraryClose,
     IOS!LibraryDelete, IOS!Opening, IOS!Live, IOS!NoStore

\* Where the id of the manager leads that a call is made on.
LEMMA CallPath ==
  ASSUME RegistryInv, NEW c \in Call, c \in execs \/ InThread(c)
  PROVE  /\ via[c] \in Manager
         /\ managers[dsmID[via[c]]] \in Manager
         /\ PlaceOf(via[c], managers[dsmID[via[c]]])
<1>1. via[c] \in Manager /\ manager[via[c]] = "resolved"
  BY DEF RegistryInv, CallFits, InThread
<1>2. dsmID[via[c]] \in DOMAIN managers
  <2>1. /\ dsmID[via[c]] \in Nat /\ Size \in Nat /\ dsmID[via[c]] < Size
        /\ DOMAIN managers = 0..(Size - 1)
    BY <1>1 DEF RegistryInv, ManagersInv, IdsTyped, IdsFilled, CreatorInv
  <2> QED
    BY <2>1
<1> QED
  BY <1>1, <1>2 DEF RegistryInv, TypeOK, NativeTypeOK, PathsInv

\* The library's variables have their types.
LibraryTyped ==
  /\ opened \in [Manager -> Nat]
  /\ openings \in [Manager -> Nat]
  /\ disk \in SUBSET Manager

LEMMA LibraryOpenTyped ==
  ASSUME LibraryTyped, NEW m \in Manager, LibraryOpen(m)
  PROVE  /\ LibraryTyped'
         /\ Opening(m) \in Store
         /\ Opening(m).directory = m /\ Opening(m).opening # 0
         /\ opened'[m] = Opening(m).opening
         /\ \A n \in Manager : n # m \/ opened[n] # 0 => opened'[n] = opened[n]
BY DEF LibraryTyped, LibraryOpen, Opening, Store

LEMMA LibraryEndTyped ==
  ASSUME LibraryTyped, NEW s, LibraryClose(s) \/ LibraryDelete(s)
  PROVE  LibraryTyped'
BY DEF LibraryTyped, LibraryClose, LibraryDelete

LEMMA LibraryEnds ==
  ASSUME LibraryTyped, NEW s \in Store, LibraryClose(s) \/ LibraryDelete(s)
  PROVE  \A m \in Manager :
           opened'[m] = IF Live(s) /\ m = s.directory THEN 0 ELSE opened[m]
BY DEF LibraryTyped, LibraryClose, LibraryDelete, Store

LEMMA AndroidCallStep ==
  ASSUME RegistryInv, platform = "android", UNCHANGED platform, NEW c \in Call,
         \/ Android!GetInstanceThrows(c) \/ Android!GetInstance(c)
         \/ Android!PutStore(c) \/ Android!RemoveStore(c)
         \/ Android!CloseStore(c) \/ Android!GetDocumentStore(c)
         \/ Android!NoDocumentStore(c) \/ Android!UseStore(c)
         \/ Android!DeleteThrows(c) \/ Android!DeleteStore(c)
         \/ Android!RemoveDeleted(c)
  PROVE  /\ Moves(c) /\ NativeTypeOK' /\ UNCHANGED <<creator, count>>
         /\ ThreadInv => Acts(c)
<1>1. /\ NativeTypeOK /\ LibraryTyped /\ CallFits(c) /\ Direct = "open"
      /\ thread \in [Call -> {"idle", "missed", "found", "opened", "removed",
                              "deleted", "undeleted", "ended"}]
      /\ held \in [Call -> Store \cup {NoStore}]
      /\ reached \in [Call -> Manager \cup {0}]
      /\ result \in [Call -> {"none", "ok", "failed"}]
      /\ stores \in Store \cup {NoStore}
      /\ NoStore \notin Store /\ NoStore \in Store \cup {NoStore}
      /\ \A s \in Store : s.directory \in Manager
  <2>1. \A s \in Store : s.directory \in Manager
    BY DEF Store
  <2>2. NoStore \notin Store
    BY <2>1, ManagerAssumption DEF NoStore
  <2> QED
    BY <2>1, <2>2 DEF RegistryInv, TypeOK, NativeTypeOK, ScriptTypeOK,
       LibraryTyped, Direct
<1>2. PlaceFits(c)
  BY DEF RegistryInv, PlaceInv
<1>3. CASE Android!GetInstanceThrows(c)
  <2>1. /\ c \in execs /\ method[c] = "open" /\ Answered(c, "failed")
        /\ UNCHANGED <<pageVars, managers, creator, count, responses, stores,
                       libraryVars, reached>>
    BY <1>3, AndroidNames DEF Android!GetInstanceThrows, Android!creatorVars
  <2>2. LibraryTyped' /\ reached' = [reached EXCEPT ![c] = reached[c]]
    BY <1>1, <2>1 DEF LibraryTyped, libraryVars
  <2>3. NativeTypeOK'
    BY <1>1, <2>1, <2>2 DEF NativeTypeOK, LibraryTyped, Answered
  <2>4. ThreadInv => Acts(c)
    BY <1>1, <2>1
    DEF Acts, MapActs, LibraryActs, OutcomeActs, AndroidActs, Ends,
        libraryVars, CallFits, Answered
  <2> QED
    BY <1>1, <2>1, <2>3, <2>4 DEF Moves, Answered
<1>4. CASE Android!GetInstance(c)
  <2> DEFINE m == managers[dsmID[via[c]]]
  <2>1. /\ c \in execs /\ method[c] = "open" /\ Begun(c, "opened")
        /\ held' = [held EXCEPT ![c] = Opening(m)] /\ LibraryOpen(m)
        /\ reached' = [reached EXCEPT ![c] = m]
        /\ UNCHANGED <<pageVars, managers, creator, count, responses, stores>>
    BY <1>4, AndroidNames DEF Android!GetInstance, Android!creatorVars
  <2>2. m \in Manager /\ PlaceOf(via[c], m)
    BY <2>1, CallPath
  <2> HIDE DEF m
  <2>3. /\ LibraryTyped' /\ Opening(m) \in Store /\ Opening(m).directory = m
        /\ Opening(m).opening # 0 /\ opened'[m] = Opening(m).opening
        /\ \A n \in Manager : n # m \/ opened[n] # 0 => opened'[n] = opened[n]
    BY <1>1, <2>1, <2>2, LibraryOpenTyped
  <2>4. NativeTypeOK'
    BY <1>1, <2>1, <2>2, <2>3 DEF NativeTypeOK, LibraryTyped, Begun
  <2>5. /\ PlaceOf(via[c], reached'[c])
        /\ PlaceOf(via[c], held'[c].directory) /\ held'[c] \in Store
    <3>1. reached'[c] = m /\ held'[c] = Opening(m)
      BY <1>1, <2>1
    <3> QED
      BY <2>2, <2>3, <3>1
  <2>6. /\ execs' = execs \ {c} /\ thread'[c] = "opened" /\ stores' = stores
        /\ UNCHANGED <<pageVars, managers, responses, platform, result>>
        /\ \A d \in Call \ {c} :
             /\ thread'[d] = thread[d] /\ result'[d] = result[d]
             /\ held'[d] = held[d] /\ reached'[d] = reached[d]
    BY <1>1, <2>1 DEF Begun
  <2>7. result'[c] # "ok"
    BY <1>1, <2>1, <2>6 DEF CallFits
  <2>8. ThreadInv => Acts(c)
    <3> SUFFICES ASSUME ThreadInv
                 PROVE  Acts(c)
      OBVIOUS
    <3>1. MapActs(c)
      BY <1>1, <2>1, <2>6 DEF MapActs, CallFits
    <3>2. LibraryActs(c)
      <4>1. reached'[c] = m /\ held'[c] = Opening(m) /\ thread'[c] = "opened"
        BY <1>1, <2>1 DEF Begun
      <4>2. disk' \subseteq disk \/ Wakes(c)
        BY <2>1 DEF Wakes
      <4> QED
        BY <2>1, <2>3, <4>1, <4>2 DEF LibraryActs
    <3>3. OutcomeActs(c)
      BY <2>1, <2>7 DEF OutcomeActs
    <3>4. AndroidActs(c)
      BY <1>1, <2>1, <2>3, <2>6 DEF AndroidActs, CallFits
    <3> QED
      BY <3>1, <3>2, <3>3, <3>4 DEF Acts
  <2> QED
    BY <2>1, <2>4, <2>5, <2>6, <2>7, <2>8 DEF Moves
<1>5. CASE Android!PutStore(c)
  <2>1. /\ thread[c] = "opened" /\ stores' = held[c] /\ Answered(c, "ok")
        /\ UNCHANGED <<pageVars, managers, creator, count, responses,
                       libraryVars, reached>>
    BY <1>5, AndroidNames DEF Android!PutStore, Android!creatorVars
  <2>2. LibraryTyped' /\ reached' = [reached EXCEPT ![c] = reached[c]]
    BY <1>1, <2>1 DEF LibraryTyped, libraryVars
  <2>3. NativeTypeOK'
    BY <1>1, <2>1, <2>2 DEF NativeTypeOK, LibraryTyped, Answered
  <2>4. ThreadInv => Acts(c)
    BY <1>1, <2>1
    DEF Acts, MapActs, LibraryActs, OutcomeActs, AndroidActs, Ends,
        libraryVars, CallFits, Answered
  <2> QED
    BY <1>1, <2>1, <2>3, <2>4 DEF Moves, Answered, InThread
<1>6. CASE Android!RemoveStore(c) /\ stores = NoStore
  <2>1. /\ c \in execs /\ method[c] = "close" /\ stores' = NoStore
        /\ Answered(c, "failed")
        /\ UNCHANGED <<pageVars, managers, creator, count, responses,
                       libraryVars, reached>>
    BY <1>6, AndroidNames DEF Android!RemoveStore, Android!creatorVars
  <2>2. LibraryTyped' /\ reached' = [reached EXCEPT ![c] = reached[c]]
    BY <1>1, <2>1 DEF LibraryTyped, libraryVars
  <2>3. NativeTypeOK'
    BY <1>1, <2>1, <2>2 DEF NativeTypeOK, LibraryTyped, Answered
  <2>4. ThreadInv => Acts(c)
    BY <1>1, <1>6, <2>1
    DEF Acts, MapActs, LibraryActs, OutcomeActs, AndroidActs, libraryVars,
        CallFits, Answered
  <2> QED
    BY <1>1, <2>1, <2>3, <2>4 DEF Moves, Answered
<1>7. CASE Android!RemoveStore(c) /\ stores # NoStore
  <2>1. /\ c \in execs /\ method[c] = "close" /\ stores' = NoStore
        /\ Begun(c, "removed") /\ held' = [held EXCEPT ![c] = stores]
        /\ UNCHANGED <<pageVars, managers, creator, count, responses,
                       libraryVars, reached>>
    BY <1>7, AndroidNames DEF Android!RemoveStore, Android!creatorVars
  <2>2. LibraryTyped' /\ reached' = [reached EXCEPT ![c] = reached[c]]
    BY <1>1, <2>1 DEF LibraryTyped, libraryVars
  <2>3. NativeTypeOK'
    BY <1>1, <2>1, <2>2 DEF NativeTypeOK, LibraryTyped, Begun
  <2>4. ThreadInv => Acts(c)
    <3> SUFFICES ASSUME ThreadInv
                 PROVE  Acts(c)
      OBVIOUS
    <3>1. Ends(c)
      BY <2>1 DEF Ends
    <3>2. thread[c] = "idle" /\ thread'[c] = "removed" /\ stores' = NoStore
      BY <1>1, <2>1 DEF CallFits, Begun
    <3>3. MapActs(c)
      BY <2>1, <3>1, <3>2 DEF MapActs
    <3>4. LibraryActs(c)
      BY <1>1, <2>1 DEF LibraryActs, libraryVars, Begun
    <3>5. OutcomeActs(c)
      BY <1>1, <2>1 DEF OutcomeActs, CallFits, Begun
    <3>6. AndroidActs(c)
      BY <1>1, <1>7, <2>1 DEF AndroidActs, libraryVars, CallFits, Begun
    <3> QED
      BY <3>3, <3>4, <3>5, <3>6 DEF Acts
  <2> QED
    BY <1>1, <1>7, <2>1, <2>3, <2>4 DEF Moves, Begun
<1>8. CASE Android!CloseStore(c)
  <2>1. PICK r \in {"ok", "failed"} :
          /\ thread[c] = "removed" /\ Answered(c, r) /\ LibraryClose(held[c])
          /\ r = "failed" => ~Live(held[c])
          /\ reached' = [reached EXCEPT ![c] = held[c].directory]
          /\ UNCHANGED <<pageVars, managers, creator, count, responses, stores>>
    BY <1>8, AndroidNames DEF Android!CloseStore, Android!creatorVars
  <2>2. method[c] # "open" /\ held[c] \in Store /\ held[c].directory \in Manager
    BY <1>1, <2>1 DEF CallFits
  <2>3. LibraryTyped'
    BY <1>1, <2>1, LibraryEndTyped
  <2>4. NativeTypeOK'
    BY <1>1, <2>1, <2>2, <2>3 DEF NativeTypeOK, LibraryTyped, Answered
  <2>5. ThreadInv => Acts(c)
    <3> SUFFICES ASSUME ThreadInv
                 PROVE  Acts(c)
      OBVIOUS
    <3>1. MapActs(c)
      BY <1>1, <2>1 DEF MapActs, Answered
    <3>2. LibraryActs(c)
      BY <1>1, <2>1 DEF LibraryActs, Ends, ThreadInv, Answered, LibraryClose
    <3>3. OutcomeActs(c)
      BY <1>1, <2>1, <2>2 DEF OutcomeActs, Answered
    <3>4. \A m \in Manager : opened'[m] =
            IF Live(held[c]) /\ m = held[c].directory THEN 0 ELSE opened[m]
      BY <1>1, <2>1, <2>2, LibraryEnds
    <3>5. AndroidActs(c)
      BY <3>4, <1>1, <2>1 DEF AndroidActs, ThreadInv, Answered
    <3> QED
      BY <3>1, <3>2, <3>3, <3>5 DEF Acts
  <2> QED
    BY <1>1, <2>1, <2>2, <2>4, <2>5 DEF Moves, Answered, InThread
<1>9. CASE Android!GetDocumentStore(c)
  <2>1. /\ c \in execs /\ method[c] \in {"delete", "use"} /\ stores # NoStore
        /\ Begun(c, "found") /\ held' = [held EXCEPT ![c] = stores]
        /\ UNCHANGED <<pageVars, managers, creator, count, responses, stores,
                       libraryVars, reached>>
    BY <1>9, AndroidNames DEF Android!GetDocumentStore, Android!creatorVars
  <2>2. LibraryTyped' /\ reached' = [reached EXCEPT ![c] = reached[c]]
    BY <1>1, <2>1 DEF LibraryTyped, libraryVars
  <2>3. NativeTypeOK'
    BY <1>1, <2>1, <2>2 DEF NativeTypeOK, LibraryTyped, Begun
  <2>4. ThreadInv => Acts(c)
    BY <1>1, <2>1
    DEF Acts, MapActs, LibraryActs, OutcomeActs, AndroidActs, libraryVars,
        CallFits, Begun
  <2> QED
    BY <1>1, <2>1, <2>3, <2>4 DEF Moves, Begun
<1>10. CASE Android!NoDocumentStore(c) /\ method[c] = "delete"
  <2>1. /\ c \in execs /\ method[c] = "delete" /\ Begun(c, "undeleted")
        /\ UNCHANGED <<pageVars, managers, creator, count, responses, stores,
                       libraryVars, held, reached>>
    BY <1>10, AndroidNames DEF Android!NoDocumentStore, Android!creatorVars
  <2>2. /\ LibraryTyped' /\ reached' = [reached EXCEPT ![c] = reached[c]]
        /\ held' = [held EXCEPT ![c] = held[c]]
    BY <1>1, <2>1 DEF LibraryTyped, libraryVars
  <2>3. NativeTypeOK'
    BY <1>1, <2>1, <2>2 DEF NativeTypeOK, LibraryTyped, Begun
  <2>4. ThreadInv => Acts(c)
    BY <1>1, <2>1
    DEF Acts, MapActs, LibraryActs, OutcomeActs, AndroidActs, libraryVars,
        CallFits, Begun
  <2> QED
    BY <1>1, <2>1, <2>3, <2>4 DEF Moves, Begun
<1>11. CASE Android!NoDocumentStore(c) /\ method[c] # "delete"
  <2>1. /\ c \in execs /\ method[c] = "use" /\ stores = NoStore
         /\ Answered(c, "failed")
        /\ UNCHANGED <<pageVars, managers, creator, count, responses, stores,
                       libraryVars, reached>>
    BY <1>11, AndroidNames DEF Android!NoDocumentStore, Android!creatorVars
  <2>2. LibraryTyped' /\ reached' = [reached EXCEPT ![c] = reached[c]]
    BY <1>1, <2>1 DEF LibraryTyped, libraryVars
  <2>3. NativeTypeOK'
    BY <1>1, <2>1, <2>2 DEF NativeTypeOK, LibraryTyped, Answered
  <2>4. ThreadInv => Acts(c)
    BY <1>1, <2>1
    DEF Acts, MapActs, LibraryActs, OutcomeActs, AndroidActs, libraryVars,
        CallFits, Answered
  <2> QED
    BY <1>1, <2>1, <2>3, <2>4 DEF Moves, Answered
<1>12. CASE Android!UseStore(c)
  <2>1. PICK r \in {"ok", "failed"}, m \in {held[c].directory, reached[c]} :
          /\ thread[c] = "found" /\ method[c] = "use" /\ Answered(c, r)
          /\ r = "failed" => ~Live(held[c])
          /\ reached' = [reached EXCEPT ![c] = m]
          /\ UNCHANGED <<pageVars, managers, creator, count, responses, stores,
                         libraryVars>>
    <3>1. reached = [reached EXCEPT ![c] = reached[c]]
      BY <1>1
    <3> QED
      BY <1>12, <3>1, AndroidNames DEF Android!UseStore, Android!creatorVars
  <2>2. held[c] \in Store /\ held[c].directory \in Manager
    BY <1>1, <2>1 DEF CallFits
  <2>3. LibraryTyped'
    BY <1>1, <2>1 DEF LibraryTyped, libraryVars
  <2>4. NativeTypeOK'
    BY <1>1, <2>1, <2>2, <2>3 DEF NativeTypeOK, LibraryTyped, Answered
  <2>5. ThreadInv => Acts(c)
    BY <1>1, <2>1
    DEF Acts, MapActs, LibraryActs, OutcomeActs, AndroidActs, Ends,
        libraryVars, Answered
  <2> QED
    BY <1>1, <2>1, <2>2, <2>4, <2>5 DEF Moves, Answered, InThread
<1>13. CASE Android!DeleteThrows(c)
  <2>1. /\ thread[c] = "found" /\ method[c] = "delete"
        /\ thread' = [thread EXCEPT ![c] = "undeleted"]
        /\ UNCHANGED <<pageVars, execs, result, managers, creator, count,
                       responses, stores, held, libraryVars, reached>>
    BY <1>13, AndroidNames
       DEF Android!DeleteThrows, Android!Continue, Android!creatorVars
  <2>2. /\ LibraryTyped' /\ reached' = [reached EXCEPT ![c] = reached[c]]
        /\ held' = [held EXCEPT ![c] = held[c]]
    BY <1>1, <2>1 DEF LibraryTyped, libraryVars
  <2>3. NativeTypeOK'
    BY <1>1, <2>1, <2>2 DEF NativeTypeOK, LibraryTyped
  <2>4. execs' = execs \ {c}
    BY <1>1, <2>1 DEF CallFits
  <2>5. ThreadInv => Acts(c)
    BY <1>1, <2>1
    DEF Acts, MapActs, LibraryActs, OutcomeActs, AndroidActs, libraryVars,
        CallFits
  <2> QED
    BY <1>1, <2>1, <2>3, <2>4, <2>5 DEF Moves, InThread
<1>14. CASE Android!DeleteStore(c)
  <2>1. /\ thread[c] = "found" /\ method[c] = "delete"
        /\ thread' = [thread EXCEPT ![c] = "deleted"]
        /\ LibraryDelete(held[c])
        /\ reached' = [reached EXCEPT ![c] = held[c].directory]
        /\ UNCHANGED <<pageVars, execs, result, managers, creator, count,
                       responses, stores, held>>
    BY <1>14, AndroidNames
       DEF Android!DeleteStore, Android!Continue, Android!creatorVars
  <2>2. held[c] \in Store /\ held[c].directory \in Manager
    BY <1>1, <2>1 DEF CallFits
  <2>3. LibraryTyped' /\ held' = [held EXCEPT ![c] = held[c]]
    BY <1>1, <2>1, LibraryEndTyped
  <2>4. NativeTypeOK'
    BY <1>1, <2>1, <2>2, <2>3 DEF NativeTypeOK, LibraryTyped
  <2>5. execs' = execs \ {c}
    BY <1>1, <2>1 DEF CallFits
  <2>6. ThreadInv => Acts(c)
    <3> SUFFICES ASSUME ThreadInv
                 PROVE  Acts(c)
      OBVIOUS
    <3>1. MapActs(c)
      BY <1>1, <2>1 DEF MapActs
    <3>2. LibraryActs(c)
      BY <1>1, <2>1 DEF LibraryActs, Ends, LibraryDelete
    <3>3. OutcomeActs(c)
      BY <2>1 DEF OutcomeActs
    <3>4. \A m \in Manager : opened'[m] =
            IF Live(held[c]) /\ m = held[c].directory THEN 0 ELSE opened[m]
      BY <1>1, <2>1, <2>2, LibraryEnds
    <3>5. AndroidActs(c)
      BY <3>4, <1>1, <2>1 DEF AndroidActs, CallFits
    <3> QED
      BY <3>1, <3>2, <3>3, <3>5 DEF Acts
  <2> QED
    BY <1>1, <2>1, <2>2, <2>4, <2>5, <2>6 DEF Moves, InThread
<1>15. CASE Android!RemoveDeleted(c)
  <2>1. /\ thread[c] \in {"deleted", "undeleted"} /\ stores' = NoStore
        /\ Answered(c, "ok")
        /\ UNCHANGED <<pageVars, managers, creator, count, responses,
                       libraryVars, reached>>
    BY <1>15, AndroidNames DEF Android!RemoveDeleted, Android!creatorVars
  <2>2. LibraryTyped' /\ reached' = [reached EXCEPT ![c] = reached[c]]
    BY <1>1, <2>1 DEF LibraryTyped, libraryVars
  <2>3. method[c] # "open"
    BY <1>1, <2>1 DEF CallFits
  <2>4. NativeTypeOK'
    BY <1>1, <2>1, <2>2 DEF NativeTypeOK, LibraryTyped, Answered
  <2>5. ThreadInv => Acts(c)
    <3> SUFFICES ASSUME ThreadInv
                 PROVE  Acts(c)
      OBVIOUS
    <3>1. Ends(c)
      BY <2>1 DEF Ends, ThreadInv
    <3>2. /\ thread[c] \in {"deleted", "undeleted"} /\ thread'[c] = "ended"
          /\ stores' = NoStore
      BY <1>1, <2>1 DEF Answered
    <3>3. MapActs(c)
      BY <3>1, <3>2 DEF MapActs
    <3>4. LibraryActs(c)
      BY <2>1 DEF LibraryActs, libraryVars, Answered
    <3>5. OutcomeActs(c)
      BY <2>1 DEF OutcomeActs, ThreadInv
    <3>6. AndroidActs(c)
      BY <1>1, <2>1 DEF AndroidActs, libraryVars, ThreadInv, Answered
    <3> QED
      BY <3>3, <3>4, <3>5, <3>6 DEF Acts
  <2> QED
    BY <1>1, <2>1, <2>3, <2>4, <2>5 DEF Moves, Answered, InThread
<1> QED
  BY <1>3, <1>4, <1>5, <1>6, <1>7, <1>8, <1>9, <1>10, <1>11, <1>12, <1>13,
     <1>14, <1>15

LEMMA IOSCallStep ==
  ASSUME RegistryInv, platform # "android", UNCHANGED platform, NEW c \in Call,
         \/ IOS!OpenCached(c) \/ IOS!OpenMissed(c) \/ IOS!NoDatastore(c)
         \/ IOS!DatastoreNamed(c) \/ IOS!SetDatastore(c)
         \/ IOS!CloseDatastore(c)
         \/ IOS!DeleteNamed(c) \/ IOS!DeleteFails(c) \/ IOS!RemoveDatastore(c)
         \/ IOS!NoStoreFound(c) \/ IOS!FindStore(c) \/ IOS!UseStore(c)
         \/ IOS!UseDeleted(c)
  PROVE  /\ Moves(c) /\ NativeTypeOK' /\ UNCHANGED <<creator, count>>
         /\ ThreadInv => Acts(c)
<1>1. /\ NativeTypeOK /\ LibraryTyped /\ CallFits(c) /\ Direct = "delete"
      /\ thread \in [Call -> {"idle", "missed", "found", "opened", "removed",
                              "deleted", "undeleted", "ended"}]
      /\ held \in [Call -> Store \cup {NoStore}]
      /\ reached \in [Call -> Manager \cup {0}]
      /\ result \in [Call -> {"none", "ok", "failed"}]
      /\ stores \in Store \cup {NoStore}
      /\ NoStore \notin Store /\ NoStore \in Store \cup {NoStore}
      /\ \A s \in Store : s.directory \in Manager
  <2>1. \A s \in Store : s.directory \in Manager
    BY DEF Store
  <2>2. NoStore \notin Store
    BY <2>1, ManagerAssumption DEF NoStore
  <2> QED
    BY <2>1, <2>2 DEF RegistryInv, TypeOK, NativeTypeOK, ScriptTypeOK,
       LibraryTyped, Direct
<1>2. PlaceFits(c)
  BY DEF RegistryInv, PlaceInv
<1>3. CASE IOS!OpenCached(c)
  <2>1. /\ c \in execs /\ method[c] = "open" /\ stores # NoStore
        /\ Answered(c, "ok")
        /\ reached' = [reached EXCEPT ![c] = stores.directory]
        /\ UNCHANGED <<pageVars, managers, creator, count, responses, stores,
                       libraryVars>>
    BY <1>3, IOSNames DEF IOS!OpenCached, IOS!creatorVars
  <2>2. LibraryTyped' /\ stores.directory \in Manager
    BY <1>1, <2>1 DEF LibraryTyped, libraryVars
  <2>3. NativeTypeOK'
    BY <1>1, <2>1, <2>2 DEF NativeTypeOK, LibraryTyped, Answered
  <2>4. ThreadInv => Acts(c)
    BY <1>1, <2>1
    DEF Acts, MapActs, LibraryActs, OutcomeActs, AndroidActs, Ends,
        libraryVars, CallFits, Answered
  <2> QED
    BY <1>1, <2>1, <2>2, <2>3, <2>4 DEF Moves, Answered
<1>4. CASE IOS!OpenMissed(c)
  <2>1. /\ c \in execs /\ method[c] = "open" /\ Begun(c, "missed")
        /\ UNCHANGED <<pageVars, managers, creator, count, responses, stores,
                       held, libraryVars, reached>>
    BY <1>4, IOSNames DEF IOS!OpenMissed, IOS!creatorVars
  <2>2. LibraryTyped'
    BY <1>1, <2>1 DEF LibraryTyped, libraryVars
  <2>3. NativeTypeOK'
    BY <1>1, <2>1, <2>2 DEF NativeTypeOK, LibraryTyped, Begun
  <2>4. ThreadInv => Acts(c)
    BY <1>1, <2>1
    DEF Acts, MapActs, LibraryActs, OutcomeActs, AndroidActs, libraryVars,
        CallFits, Begun
  <2> QED
    BY <1>1, <2>1, <2>3, <2>4 DEF Moves, Begun
<1>5. CASE IOS!NoDatastore(c)
  <2>1. /\ thread[c] = "missed" /\ Answered(c, "failed")
        /\ UNCHANGED <<pageVars, managers, creator, count, responses, stores,
                       libraryVars, reached>>
    BY <1>5, IOSNames DEF IOS!NoDatastore, IOS!creatorVars
  <2>2. LibraryTyped'
    BY <1>1, <2>1 DEF LibraryTyped, libraryVars
  <2>3. NativeTypeOK'
    BY <1>1, <2>1, <2>2 DEF NativeTypeOK, LibraryTyped, Answered
  <2>4. ThreadInv => Acts(c)
    BY <1>1, <2>1
    DEF Acts, MapActs, LibraryActs, OutcomeActs, AndroidActs, Ends,
        libraryVars, CallFits, Answered
  <2> QED
    BY <1>1, <2>1, <2>3, <2>4 DEF Moves, Answered, InThread
<1>6. CASE IOS!DatastoreNamed(c)
  <2> DEFINE m == managers[dsmID[via[c]]]
  <2>1. /\ thread[c] = "missed" /\ thread' = [thread EXCEPT ![c] = "opened"]
        /\ held' = [held EXCEPT ![c] = Opening(m)] /\ LibraryOpen(m)
        /\ reached' = [reached EXCEPT ![c] = m]
        /\ UNCHANGED <<pageVars, execs, result, managers, creator, count,
                       responses, stores>>
    BY <1>6, IOSNames DEF IOS!DatastoreNamed, IOS!Continue, IOS!creatorVars
  <2>2. m \in Manager /\ PlaceOf(via[c], m)
    BY <2>1, CallPath DEF InThread
  <2> HIDE DEF m
  <2>3. /\ LibraryTyped' /\ Opening(m) \in Store /\ Opening(m).directory = m
        /\ Opening(m).opening # 0 /\ opened'[m] = Opening(m).opening
        /\ \A n \in Manager : n # m \/ opened[n] # 0 => opened'[n] = opened[n]
    BY <1>1, <2>1, <2>2, LibraryOpenTyped
  <2>4. NativeTypeOK'
    BY <1>1, <2>1, <2>2, <2>3 DEF NativeTypeOK, LibraryTyped
  <2>5. execs' = execs \ {c} /\ method[c] = "open"
    BY <1>1, <2>1 DEF CallFits
  <2>6. /\ PlaceOf(via[c], reached'[c])
        /\ PlaceOf(via[c], held'[c].directory) /\ held'[c] \in Store
    <3>1. reached'[c] = m /\ held'[c] = Opening(m)
      BY <1>1, <2>1
    <3> QED
      BY <2>2, <2>3, <3>1
  <2>7. ThreadInv => Acts(c)
    <3> SUFFICES ASSUME ThreadInv
                 PROVE  Acts(c)
      OBVIOUS
    <3>1. MapActs(c)
      BY <2>1 DEF MapActs
    <3>2. LibraryActs(c)
      <4>1. reached'[c] = m /\ held'[c] = Opening(m) /\ thread'[c] = "opened"
        BY <1>1, <2>1 DEF Begun
      <4>2. disk' \subseteq disk \/ Wakes(c)
        BY <2>5 DEF Wakes
      <4> QED
        BY <2>5, <2>3, <4>1, <4>2 DEF LibraryActs
    <3>3. OutcomeActs(c)
      BY <1>1, <2>1 DEF OutcomeActs, CallFits
    <3> QED
      BY <3>1, <3>2, <3>3 DEF Acts
  <2> QED
    BY <1>1, <2>1, <2>4, <2>5, <2>6, <2>7 DEF Moves, InThread
<1>7. CASE IOS!SetDatastore(c)
  <2>1. /\ thread[c] = "opened" /\ stores' = held[c] /\ Answered(c, "ok")
        /\ UNCHANGED <<pageVars, managers, creator, count, responses,
                       libraryVars, reached>>
    BY <1>7, IOSNames DEF IOS!SetDatastore, IOS!creatorVars
  <2>2. LibraryTyped'
    BY <1>1, <2>1 DEF LibraryTyped, libraryVars
  <2>3. NativeTypeOK'
    BY <1>1, <2>1, <2>2 DEF NativeTypeOK, LibraryTyped, Answered
  <2>4. ThreadInv => Acts(c)
    BY <1>1, <2>1
    DEF Acts, MapActs, LibraryActs, OutcomeActs, AndroidActs, Ends,
        libraryVars, CallFits, Answered
  <2> QED
    BY <1>1, <2>1, <2>3, <2>4 DEF Moves, Answered, InThread
<1>8. CASE IOS!CloseDatastore(c) \/ IOS!NoStoreFound(c)
  <2>1. PICK r \in {"ok", "failed"} :
          /\ c \in execs /\ method[c] \in {"close", "use"} /\ Answered(c, r)
          /\ r = "failed" => method[c] = "use" /\ stores = NoStore
          /\ UNCHANGED <<pageVars, managers, creator, count, responses, stores,
                         libraryVars, reached>>
    BY <1>8, IOSNames
       DEF IOS!CloseDatastore, IOS!NoStoreFound, IOS!creatorVars
  <2>2. LibraryTyped'
    BY <1>1, <2>1 DEF LibraryTyped, libraryVars
  <2>3. NativeTypeOK'
    BY <1>1, <2>1, <2>2 DEF NativeTypeOK, LibraryTyped, Answered
  <2>4. ThreadInv => Acts(c)
    BY <1>1, <2>1
    DEF Acts, MapActs, LibraryActs, OutcomeActs, AndroidActs, Ends,
        libraryVars, CallFits, Answered
  <2> QED
    BY <1>1, <2>1, <2>3, <2>4 DEF Moves, Answered
<1>9. CASE IOS!DeleteNamed(c)
  <2> DEFINE m == managers[dsmID[via[c]]]
  <2>1. /\ c \in execs /\ method[c] = "delete" /\ Begun(c, "deleted")
        /\ LibraryDelete([directory |-> m, opening |-> opened[m]])
        /\ reached' = [reached EXCEPT ![c] = m]
        /\ UNCHANGED <<pageVars, managers, creator, count, responses, stores,
                       held>>
    BY <1>9, IOSNames DEF IOS!DeleteNamed, IOS!creatorVars
  <2>2. m \in Manager /\ PlaceOf(via[c], m)
    BY <2>1, CallPath
  <2> HIDE DEF m
  <2>3. LibraryTyped'
    BY <1>1, <2>1, LibraryEndTyped
  <2>4. NativeTypeOK'
    BY <1>1, <2>1, <2>2, <2>3 DEF NativeTypeOK, LibraryTyped, Begun
  <2>5. ThreadInv => Acts(c)
    BY <1>1, <2>1
    DEF LibraryDelete, Acts, MapActs, LibraryActs, OutcomeActs, AndroidActs,
        Ends, CallFits, Begun
  <2> QED
    BY <1>1, <2>1, <2>2, <2>4, <2>5 DEF Moves, Begun
<1>10. CASE IOS!DeleteFails(c)
  <2>1. /\ c \in execs /\ method[c] = "delete" /\ Begun(c, "undeleted")
        /\ UNCHANGED <<pageVars, managers, creator, count, responses, stores,
                       held, libraryVars, reached>>
    BY <1>10, IOSNames DEF IOS!DeleteFails, IOS!creatorVars
  <2>2. LibraryTyped'
    BY <1>1, <2>1 DEF LibraryTyped, libraryVars
  <2>3. NativeTypeOK'
    BY <1>1, <2>1, <2>2 DEF NativeTypeOK, LibraryTyped, Begun
  <2>4. ThreadInv => Acts(c)
    BY <1>1, <2>1
    DEF Acts, MapActs, LibraryActs, OutcomeActs, AndroidActs, libraryVars,
        CallFits, Begun
  <2> QED
    BY <1>1, <2>1, <2>3, <2>4 DEF Moves, Begun
<1>11. CASE IOS!RemoveDatastore(c)
  <2>1. PICK r \in {"ok", "failed"} :
          /\ thread[c] \in {"deleted", "undeleted"} /\ stores' = NoStore
          /\ Answered(c, r)
          /\ UNCHANGED <<pageVars, managers, creator, count, responses,
                         libraryVars, reached>>
    BY <1>11, IOSNames DEF IOS!RemoveDatastore, IOS!creatorVars
  <2>2. LibraryTyped'
    BY <1>1, <2>1 DEF LibraryTyped, libraryVars
  <2>3. NativeTypeOK'
    BY <1>1, <2>1, <2>2 DEF NativeTypeOK, LibraryTyped, Answered
  <2>4. ThreadInv => Acts(c)
    <3> SUFFICES ASSUME ThreadInv
                 PROVE  Acts(c)
      OBVIOUS
    <3>1. Ends(c)
      BY <2>1 DEF Ends, ThreadInv
    <3>2. /\ thread[c] \in {"deleted", "undeleted"} /\ thread'[c] = "ended"
          /\ stores' = NoStore
      BY <1>1, <2>1 DEF Answered
    <3>3. MapActs(c)
      BY <3>1, <3>2 DEF MapActs
    <3>4. LibraryActs(c)
      BY <2>1 DEF LibraryActs, libraryVars, Answered
    <3>5. OutcomeActs(c)
      BY <2>1 DEF OutcomeActs, ThreadInv
    <3> QED
      BY <3>3, <3>4, <3>5 DEF Acts
  <2> QED
    BY <1>1, <2>1, <2>3, <2>4 DEF Moves, Answered, InThread
<1>12. CASE IOS!FindStore(c)
  <2>1. /\ c \in execs /\ method[c] = "use" /\ stores # NoStore
        /\ Begun(c, "found") /\ held' = [held EXCEPT ![c] = stores]
        /\ UNCHANGED <<pageVars, managers, creator, count, responses, stores,
                       libraryVars, reached>>
    BY <1>12, IOSNames DEF IOS!FindStore, IOS!creatorVars
  <2>2. LibraryTyped'
    BY <1>1, <2>1 DEF LibraryTyped, libraryVars
  <2>3. NativeTypeOK'
    BY <1>1, <2>1, <2>2 DEF NativeTypeOK, LibraryTyped, Begun
  <2>4. ThreadInv => Acts(c)
    BY <1>1, <2>1
    DEF Acts, MapActs, LibraryActs, OutcomeActs, AndroidActs, libraryVars,
        CallFits, Begun
  <2> QED
    BY <1>1, <2>1, <2>3, <2>4 DEF Moves, Begun
<1>13. CASE IOS!UseStore(c)
  <2>1. /\ thread[c] = "found" /\ Answered(c, "ok")
        /\ reached' = [reached EXCEPT ![c] = held[c].directory]
        /\ UNCHANGED <<pageVars, managers, creator, count, responses, stores,
                       libraryVars>>
    BY <1>13, IOSNames DEF IOS!UseStore, IOS!creatorVars
  <2>2. LibraryTyped' /\ held[c] \in Store /\ held[c].directory \in Manager
    BY <1>1, <2>1 DEF LibraryTyped, libraryVars, CallFits, ThreadInv
  <2>3. NativeTypeOK'
    BY <1>1, <2>1, <2>2 DEF NativeTypeOK, LibraryTyped, Answered
  <2>4. method[c] # "delete" /\ method[c] # "open"
    BY <1>1, <1>2, <2>1 DEF PlaceFits, CallFits
  <2>5. ThreadInv => Acts(c)
    BY <1>1, <2>1, <2>4
    DEF Acts, MapActs, LibraryActs, OutcomeActs, AndroidActs, Ends,
        libraryVars, Answered
  <2> QED
    BY <1>1, <2>1, <2>2, <2>3, <2>4, <2>5 DEF Moves, Answered, InThread
<1>14. CASE IOS!UseDeleted(c)
  <2>1. /\ thread[c] = "found" /\ held[c] \in Store
        /\ held[c].directory \in Manager
        /\ method[c] # "delete" /\ method[c] # "open" /\ ~Live(held[c])
    BY <1>1, <1>2, <1>14, IOSNames DEF IOS!UseDeleted, PlaceFits, CallFits
  <2>2. CASE /\ Answered(c, "failed")
             /\ UNCHANGED <<pageVars, managers, creator, count, responses,
                            stores, libraryVars, reached>>
    <3>1. LibraryTyped'
      BY <1>1, <2>2 DEF LibraryTyped, libraryVars
    <3>2. NativeTypeOK'
      BY <1>1, <2>1, <2>2, <3>1 DEF NativeTypeOK, LibraryTyped, Answered
    <3>3. ThreadInv => Acts(c)
      BY <1>1, <2>1, <2>2
      DEF Acts, MapActs, LibraryActs, OutcomeActs, AndroidActs, Ends,
          libraryVars, ThreadInv, Answered
    <3> QED
      BY <1>1, <2>1, <2>2, <3>2, <3>3 DEF Moves, Answered, InThread
  <2>3. CASE /\ Answered(c, "ok") /\ LibraryOpen(held[c].directory)
             /\ reached' = [reached EXCEPT ![c] = held[c].directory]
             /\ UNCHANGED <<pageVars, managers, creator, count, responses,
                            stores>>
    <3>1. LibraryTyped'
      BY <1>1, <2>1, <2>3, LibraryOpenTyped
    <3>2. NativeTypeOK'
      BY <1>1, <2>1, <2>3, <3>1 DEF NativeTypeOK, LibraryTyped, Answered
    <3>3. ThreadInv => Acts(c)
      BY <1>1, <2>1, <2>3
      DEF LibraryOpen, Opening, Acts, MapActs, LibraryActs, OutcomeActs,
          AndroidActs, Ends, Wakes, ThreadInv, Answered
    <3> QED
      BY <1>1, <2>1, <2>3, <3>2, <3>3 DEF Moves, Answered, InThread
  <2> QED
    BY <1>14, <2>2, <2>3, IOSNames DEF IOS!UseDeleted, IOS!creatorVars
<1> QED
  BY <1>3, <1>4, <1>5, <1>6, <1>7, <1>8, <1>9, <1>10, <1>11, <1>12, <1>13,
     <1>14


\* A call gets no other result than these.
Results(c) ==
  \/ UNCHANGED result
  \/ \E r \in {"ok", "failed"} : result' = [result EXCEPT ![c] = r]

LEMMA AndroidResults ==
  ASSUME NEW c \in Call,
         \/ Android!GetInstanceThrows(c) \/ Android!GetInstance(c)
         \/ Android!PutStore(c) \/ Android!RemoveStore(c)
         \/ Android!CloseStore(c) \/ Android!GetDocumentStore(c)
         \/ Android!NoDocumentStore(c) \/ Android!UseStore(c)
         \/ Android!DeleteThrows(c) \/ Android!DeleteStore(c)
         \/ Android!RemoveDeleted(c)
  PROVE  Results(c)
  BY DEF Results, Android!GetInstanceThrows, Android!GetInstance,
     Android!PutStore, Android!RemoveStore, Android!CloseStore,
     Android!GetDocumentStore, Android!NoDocumentStore, Android!UseStore,
     Android!DeleteThrows, Android!DeleteStore, Android!RemoveDeleted,
     Android!Answer, Android!Begin, Android!Continue

LEMMA IOSResults ==
  ASSUME NEW c \in Call,
         \/ IOS!OpenCached(c) \/ IOS!OpenMissed(c) \/ IOS!NoDatastore(c)
         \/ IOS!DatastoreNamed(c) \/ IOS!SetDatastore(c)
         \/ IOS!CloseDatastore(c)
         \/ IOS!DeleteNamed(c) \/ IOS!DeleteFails(c) \/ IOS!RemoveDatastore(c)
         \/ IOS!NoStoreFound(c) \/ IOS!FindStore(c) \/ IOS!UseStore(c)
         \/ IOS!UseDeleted(c)
  PROVE  Results(c)
  BY DEF Results, IOS!OpenCached, IOS!OpenMissed, IOS!NoDatastore,
     IOS!DatastoreNamed, IOS!SetDatastore, IOS!CloseDatastore,
     IOS!DeleteNamed, IOS!DeleteFails, IOS!RemoveDatastore,
     IOS!NoStoreFound, IOS!FindStore, IOS!UseStore, IOS!UseDeleted,
     IOS!Answer, IOS!Begin, IOS!Continue

LEMMA PathsKept ==
  ASSUME PathsInv, UNCHANGED <<manager, managers, dsmID, earlier>>,
         \A r \in responses' : r.ok => r \in responses
  PROVE  PathsInv'
  BY PlaceKept DEF PathsInv

\* A call's step keeps the whole of the invariant.
LEMMA CallStepKeeps ==
  ASSUME RegistryInv, ManagersInv', NEW c \in Call, Moves(c), NativeTypeOK',
         Results(c)
  PROVE  RegistryInv'
<1>1. ScriptTypeOK'
  BY DEF RegistryInv, TypeOK, ScriptTypeOK, Moves, Results, pageVars
<1>2. \A d \in Call : CallFits(d)'
  BY MovesCallFits DEF RegistryInv, CallsFit
<1>3. PathsInv'
  BY PathsKept DEF RegistryInv, Moves, pageVars
<1>4. PlaceInv'
  BY MovesPlace DEF RegistryInv, CallsFit
<1> QED
  BY <1>1, <1>2, <1>3, <1>4 DEF RegistryInv, TypeOK

-----------------------------------------------------------------------------
(* What else happens: the threads that create managers *)

\* The calls do not notice.
LEMMA QuietKeeps ==
  ASSUME RegistryInv,
         UNCHANGED <<pageVars, execs, result, stores, thread, held, reached,
                     platform>>
  PROVE  (\A c \in Call : CallFits(c)') /\ PlaceInv'
<1>1. UNCHANGED <<manager, dsmID, method, via, promise, earlier, before>>
  BY DEF pageVars
<1>2. \A c \in Call : CallFits(c)'
  BY <1>1 DEF RegistryInv, CallFits, Settled
<1>3. ASSUME NEW dir, NEW calls, LastOpened(dir, calls)
      PROVE  LastOpened(dir, calls)'
  BY <1>1, <1>3, PlaceKept DEF LastOpened, Stored
<1>4. Direct' = Direct
  BY DEF Direct
<1>5. \A c \in Call : PlaceFits(c)'
  BY <1>1, <1>3, <1>4, PlaceKept DEF RegistryInv, PlaceInv, PlaceFits
<1>6. stores' # NoStore => LastOpened(stores.directory, Call)'
  BY <1>3 DEF RegistryInv, PlaceInv
<1> QED
  BY <1>2, <1>5, <1>6 DEF PlaceInv

\* The map keeps the type of its entries.
LEMMA PutTyped ==
  ASSUME NativeTypeOK, NEW m \in Manager,
         managers' = Put(managers, count[m], m),
         creator' = [creator EXCEPT ![m] = "ended"],
         count' = [count EXCEPT ![m] = 0],
         UNCHANGED <<stores, thread, held, libraryVars, reached>>
  PROVE  NativeTypeOK'
<1>1. count[m] \in Nat
  BY DEF NativeTypeOK
<1>2. DOMAIN managers' = DOMAIN managers \cup {count[m]}
  BY DEF Put
<1>3. \A id \in DOMAIN managers' :
        managers'[id] = IF id = count[m] THEN m ELSE managers[id]
  BY DEF Put
<1>4. DOMAIN managers' \subseteq Nat
  BY <1>1, <1>2 DEF NativeTypeOK
<1>5. \A id \in DOMAIN managers' : managers'[id] \in Manager
  BY <1>2, <1>3 DEF NativeTypeOK
<1> QED
  BY <1>4, <1>5 DEF NativeTypeOK, libraryVars

\* Whoever has the id already, or will be given it, was being created when m
\* was, for the ids of those that were created before are smaller.
LEMMA PutPaths ==
  ASSUME ManagersInv, PathsInv, NEW m \in Manager, creator[m] = "counted",
         managers' = Put(managers, count[m], m),
         Respond(m, TRUE, count[m]),
         UNCHANGED <<manager, dsmID, earlier>>
  PROVE  PathsInv'
<1>1. manager[m] = "pending" /\ count[m] \in Nat /\ count[m] <= Size
  BY DEF ManagersInv, CreatorInv, IdsTyped
<1>2. \A n \in Manager : m \notin earlier[n]
  BY <1>1 DEF ManagersInv, BeyondEarlier
<1>3. ASSUME NEW id \in DOMAIN managers
      PROVE  managers'[id] = IF id = count[m] THEN m ELSE managers[id]
  BY DEF Put
<1>4. managers'[count[m]] = m
  BY DEF Put
<1>5. \A id \in Nat : id < Size => id \in DOMAIN managers
  BY DEF ManagersInv, IdsFilled
<1>6. ASSUME NEW n \in Manager, manager[n] = "resolved"
      PROVE  PlaceOf(n, managers[dsmID[n]])'
  <2>1. dsmID[n] \in Nat /\ dsmID[n] < Size
    BY <1>6 DEF ManagersInv, CreatorInv, IdsTyped
  <2>2. CASE dsmID[n] = count[m]
    <3>1. dsmID[n] \in Nat /\ ~(dsmID[n] < count[m])
      BY <1>1, <2>2 DEF ManagersInv, IdsTyped
    <3>2. n \notin earlier[m]
      BY <3>1 DEF ManagersInv, BeyondEarlier
    <3> QED
      BY <1>1, <1>2, <1>4, <2>2, <3>2 DEF PlaceOf, BornTogether
  <2>3. CASE dsmID[n] # count[m]
    <3>1. managers'[dsmID[n]] = managers[dsmID[n]]
      BY <1>3, <1>5, <2>1, <2>3
    <3> QED
      BY <1>6, <3>1 DEF PathsInv, PlaceOf, BornTogether
  <2> QED
    BY <2>2, <2>3
<1>7. ASSUME NEW r \in responses', r.ok
      PROVE  PlaceOf(r.manager, managers[r.id])'
  <2>1. CASE r = [manager |-> m, ok |-> TRUE, id |-> count[m]]
    BY <1>4, <2>1 DEF PlaceOf
  <2>2. CASE r \in responses
    <3>1. /\ r.manager \in Manager /\ r.id \in Nat /\ r.id < Size
          /\ manager[r.manager] = "pending"
      BY <1>7, <2>2 DEF ManagersInv, CreatorInv, IdsTyped, Response
    <3>2. CASE r.id = count[m]
      <4>1. r.manager \notin earlier[m]
        BY <3>1 DEF ManagersInv, BeyondEarlier
      <4> QED
        BY <1>1, <1>2, <1>4, <3>1, <3>2, <4>1 DEF PlaceOf, BornTogether
    <3>3. CASE r.id # count[m]
      <4>1. managers'[r.id] = managers[r.id]
        BY <1>3, <1>5, <3>1, <3>3
      <4> QED
        BY <1>7, <2>2, <4>1 DEF PathsInv, PlaceOf, BornTogether
    <3> QED
      BY <3>2, <3>3
  <2> QED
    BY <2>1, <2>2 DEF Respond
<1> QED
  BY <1>6, <1>7 DEF PathsInv


LEMMA CountPathsKeep ==
  ASSUME RegistryInv, ManagersInv', NEW m \in Manager,
         creator' = [creator EXCEPT ![m] = "counted"],
         count' = [count EXCEPT ![m] = Size],
         UNCHANGED <<pageVars, responses, execs, result, managers, stores,
                     thread, held, libraryVars, reached, platform>>
  PROVE  RegistryInv'
<1>1. Size \in Nat
  BY DEF RegistryInv, ManagersInv, IdsFilled
<1>2. TypeOK'
  BY <1>1 DEF RegistryInv, TypeOK, ScriptTypeOK, NativeTypeOK, pageVars,
     libraryVars
<1>3. PathsInv'
  BY PathsKept DEF RegistryInv, pageVars
<1> QED
  BY <1>2, <1>3, QuietKeeps DEF RegistryInv

LEMMA PutPathsKeep ==
  ASSUME RegistryInv, ManagersInv', NEW m \in Manager,
         creator[m] = "counted",
         creator' = [creator EXCEPT ![m] = "ended"],
         managers' = Put(managers, count[m], m),
         Respond(m, TRUE, count[m]),
         count' = [count EXCEPT ![m] = 0],
         UNCHANGED <<pageVars, execs, result, stores, thread, held,
                     libraryVars, reached, platform>>
  PROVE  RegistryInv'
<1>1. ScriptTypeOK'
  BY DEF RegistryInv, TypeOK, ScriptTypeOK, ManagersInv, IdsTyped, pageVars
<1>2. NativeTypeOK'
  BY PutTyped DEF RegistryInv, TypeOK
<1>3. PathsInv'
  BY PutPaths DEF RegistryInv, pageVars
<1> QED
  BY <1>1, <1>2, <1>3, QuietKeeps DEF RegistryInv, TypeOK

LEMMA RefuseRegistry ==
  ASSUME RegistryInv, ManagersInv', NEW m \in Manager,
         creator' = [creator EXCEPT ![m] = "ended"],
         Respond(m, FALSE, 0),
         UNCHANGED <<pageVars, execs, result, managers, stores, count, thread,
                     held, libraryVars, reached, platform>>
  PROVE  RegistryInv'
<1>1. TypeOK'
  BY DEF RegistryInv, TypeOK, ScriptTypeOK, NativeTypeOK, ManagersInv,
     IdsTyped, pageVars, libraryVars
<1>2. PathsInv'
  BY PathsKept DEF RegistryInv, pageVars, Respond
<1> QED
  BY <1>1, <1>2, QuietKeeps DEF RegistryInv

LEMMA AndroidRegistry ==
  ASSUME RegistryInv, ManagersInv', platform = "android", UNCHANGED platform,
         Android!NativeStep
  PROVE  RegistryInv'
<1>1. ASSUME NEW m \in Manager, Android!CountPaths(m)
      PROVE  RegistryInv'
  BY <1>1, CountPathsKeep, AndroidCounts, AndroidNames DEF Android!CountPaths
<1>2. ASSUME NEW m \in Manager, Android!PutPath(m)
      PROVE  RegistryInv'
  BY <1>2, PutPathsKeep, AndroidNames DEF Android!PutPath, Android!Put, Put,
     Android!Respond, Respond
<1>3. ASSUME NEW c \in Call,
             \/ Android!GetInstanceThrows(c) \/ Android!GetInstance(c)
             \/ Android!PutStore(c) \/ Android!RemoveStore(c)
             \/ Android!CloseStore(c) \/ Android!GetDocumentStore(c)
             \/ Android!NoDocumentStore(c) \/ Android!UseStore(c)
             \/ Android!DeleteThrows(c) \/ Android!DeleteStore(c)
             \/ Android!RemoveDeleted(c)
      PROVE  RegistryInv'
  BY <1>3, AndroidCallStep, AndroidResults, CallStepKeeps
<1> QED
  BY <1>1, <1>2, <1>3 DEF Android!NativeStep

LEMMA IOSRegistry ==
  ASSUME RegistryInv, ManagersInv', platform # "android", UNCHANGED platform,
         IOS!NativeStep
  PROVE  RegistryInv'
<1>1. ASSUME NEW m \in Manager, IOS!NoManager(m)
      PROVE  RegistryInv'
  BY <1>1, RefuseRegistry, IOSNames DEF IOS!NoManager, IOS!Respond, Respond
<1>2. ASSUME NEW m \in Manager, IOS!CountManagers(m)
      PROVE  RegistryInv'
  BY <1>2, CountPathsKeep, IOSCounts, IOSNames DEF IOS!CountManagers
<1>3. ASSUME NEW m \in Manager, IOS!SetManager(m)
      PROVE  RegistryInv'
  BY <1>3, PutPathsKeep, IOSNames DEF IOS!SetManager, IOS!Put, Put,
     IOS!Respond, Respond
<1>4. ASSUME NEW c \in Call,
             \/ IOS!OpenCached(c) \/ IOS!OpenMissed(c) \/ IOS!NoDatastore(c)
             \/ IOS!DatastoreNamed(c) \/ IOS!SetDatastore(c)
             \/ IOS!CloseDatastore(c)
             \/ IOS!DeleteNamed(c) \/ IOS!DeleteFails(c)
             \/ IOS!RemoveDatastore(c)
             \/ IOS!NoStoreFound(c) \/ IOS!FindStore(c) \/ IOS!UseStore(c)
             \/ IOS!UseDeleted(c)
      PROVE  RegistryInv'
  BY <1>4, IOSCallStep, IOSResults, CallStepKeeps
<1> QED
  BY <1>1, <1>2, <1>3, <1>4 DEF IOS!NativeStep

-----------------------------------------------------------------------------
(* What else happens: steps of the page *)

\* Managers that a call or a response may be about: that they were born
\* together is settled.
LEMMA PlaceStays ==
  ASSUME ManagersInv, NEW m \in Manager, NEW dir \in Manager,
         manager[m] # "none", PlaceOf(m, dir),
         HandleManager \/ \E x \in Manager : NewManager(x)
  PROVE  PlaceOf(m, dir)'
<1>1. CASE HandleManager
  <2>1. PICK r \in responses :
          manager' = [manager EXCEPT
            ![r.manager] = IF r.ok THEN "resolved" ELSE "rejected"]
    BY <1>1 DEF HandleManager
  <2>2. manager[dir] # "none" => manager'[dir] # "none"
    BY <2>1 DEF ManagersInv, IdsTyped
  <2> QED
    BY <1>1, <2>2 DEF HandleManager, PlaceOf, BornTogether
<1>2. ASSUME NEW x \in Manager, NewManager(x)
      PROVE  PlaceOf(m, dir)'
  <2>1. /\ manager[x] = "none" /\ m # x
        /\ manager' = [manager EXCEPT ![x] = "pending"]
        /\ \A n \in Manager \ {x} : earlier'[n] = earlier[n]
    BY <1>2 DEF NewManager, ManagersInv, IdsTyped
  <2>2. CASE dir = x
    BY <2>1, <2>2 DEF PlaceOf, BornTogether
  <2>3. CASE dir # x
    BY <2>1, <2>3 DEF ManagersInv, IdsTyped, PlaceOf, BornTogether
  <2> QED
    BY <2>2, <2>3
<1> QED
  BY <1>1, <1>2

\* Every id that is out leads to a manager.
LEMMA PathTyped ==
  ASSUME RegistryInv
  PROVE  /\ \A m \in Manager :
              manager[m] = "resolved" => managers[dsmID[m]] \in Manager
         /\ \A r \in responses : r.ok => managers[r.id] \in Manager
<1>1. \A id \in Nat : id < Size => managers[id] \in Manager
  <2>1. \A id \in DOMAIN managers : managers[id] \in Manager
    BY DEF RegistryInv, TypeOK, NativeTypeOK
  <2>2. Size \in Nat /\ DOMAIN managers = 0..(Size - 1)
    BY DEF RegistryInv, ManagersInv, IdsFilled
  <2> QED
    BY <2>1, <2>2
<1>2. \A m \in Manager :
        manager[m] = "resolved" => dsmID[m] \in Nat /\ dsmID[m] < Size
  BY DEF RegistryInv, ManagersInv, IdsTyped, CreatorInv
<1>3. \A r \in responses : r.ok => r.id \in Nat /\ r.id < Size
  BY DEF RegistryInv, ManagersInv, IdsTyped, CreatorInv, Response
<1> QED
  BY <1>1, <1>2, <1>3


LEMMA ManagerStepPaths ==
  ASSUME RegistryInv, UNCHANGED managers,
         HandleManager \/ \E x \in Manager : NewManager(x)
  PROVE  PathsInv'
<1> USE DEF RegistryInv
<1>1. CASE HandleManager
  <2>1. PICK r \in responses :
          /\ responses' = responses \ {r}
          /\ manager' = [manager EXCEPT
               ![r.manager] = IF r.ok THEN "resolved" ELSE "rejected"]
          /\ dsmID' = IF r.ok THEN [dsmID EXCEPT ![r.manager] = r.id] ELSE dsmID
    BY <1>1 DEF HandleManager
  <2>2. r.manager \in Manager /\ manager[r.manager] = "pending"
    BY DEF ManagersInv, CreatorInv, IdsTyped, Response
  <2>3. ASSUME NEW m \in Manager, manager'[m] = "resolved"
        PROVE  PlaceOf(m, managers[dsmID[m]])'
    <3>1. CASE m = r.manager
      <4>1. r.ok /\ dsmID'[m] = r.id
        BY <2>1, <2>2, <2>3, <3>1 DEF ManagersInv, IdsTyped
      <4>2. managers[r.id] \in Manager /\ PlaceOf(m, managers[r.id])
        BY <3>1, <4>1, PathTyped DEF PathsInv
      <4>3. PlaceOf(m, managers[r.id])'
        BY <1>1, <2>2, <3>1, <4>2, PlaceStays DEF PlaceOf, BornTogether
      <4> QED
        BY <4>1, <4>3 DEF PlaceOf, BornTogether
    <3>2. CASE m # r.manager
      <4>1. manager[m] = "resolved" /\ dsmID'[m] = dsmID[m]
        BY <2>1, <2>2, <2>3, <3>2 DEF ManagersInv, IdsTyped
      <4>2. /\ managers[dsmID[m]] \in Manager
            /\ PlaceOf(m, managers[dsmID[m]])
        BY <4>1, PathTyped DEF PathsInv
      <4> QED
        BY <1>1, <4>1, <4>2, PlaceStays DEF PlaceOf, BornTogether
    <3> QED
      BY <3>1, <3>2
  <2>4. ASSUME NEW s \in responses', s.ok
        PROVE  PlaceOf(s.manager, managers[s.id])'
    <3>1. /\ s.manager \in Manager /\ manager[s.manager] = "pending"
          /\ managers[s.id] \in Manager /\ PlaceOf(s.manager, managers[s.id])
      BY <2>1, <2>4, PathTyped
      DEF ManagersInv, CreatorInv, IdsTyped, Response, PathsInv
    <3> QED
      BY <1>1, <3>1, PlaceStays DEF PlaceOf, BornTogether
  <2> QED
    BY <2>3, <2>4 DEF PathsInv
<1>2. ASSUME NEW x \in Manager, NewManager(x)
      PROVE  PathsInv'
  <2>1. /\ UNCHANGED <<dsmID, responses>>
        /\ manager' = [manager EXCEPT ![x] = "pending"]
    BY <1>2 DEF NewManager
  <2>2. ASSUME NEW m \in Manager, manager'[m] = "resolved"
        PROVE  PlaceOf(m, managers[dsmID[m]])'
    <3>1. manager[m] = "resolved"
      BY <2>1, <2>2 DEF ManagersInv, IdsTyped
    <3>2. managers[dsmID[m]] \in Manager /\ PlaceOf(m, managers[dsmID[m]])
      BY <3>1, PathTyped DEF PathsInv
    <3> QED
      BY <1>2, <2>1, <3>1, <3>2, PlaceStays DEF PlaceOf, BornTogether
  <2>3. ASSUME NEW s \in responses', s.ok
        PROVE  PlaceOf(s.manager, managers[s.id])'
    <3>1. /\ s.manager \in Manager /\ manager[s.manager] = "pending"
          /\ managers[s.id] \in Manager /\ PlaceOf(s.manager, managers[s.id])
      BY <2>1, <2>3, PathTyped
      DEF ManagersInv, CreatorInv, IdsTyped, Response, PathsInv
    <3> QED
      BY <1>2, <3>1, PlaceStays DEF PlaceOf, BornTogether
  <2> QED
    BY <2>2, <2>3 DEF PathsInv
<1> QED
  BY <1>1, <1>2

LEMMA ManagerStepCalls ==
  ASSUME RegistryInv,
         UNCHANGED <<stores, thread, held, reached, platform>>,
         HandleManager \/ \E x \in Manager : NewManager(x)
  PROVE  (\A c \in Call : CallFits(c)') /\ PlaceInv'
<1> USE DEF RegistryInv
<1>1. UNCHANGED <<method, via, promise, execs, result, before>>
  BY DEF HandleManager, NewManager
<1>2. \A m \in Manager : manager[m] = "resolved" => manager'[m] = "resolved"
  BY DEF HandleManager, NewManager, ManagersInv, CreatorInv, IdsTyped, Response
<1>3. \A c \in Call : CallFits(c)'
  BY <1>1, <1>2 DEF CallFits, Settled
<1>4. \A c \in Call : promise[c] # "none" =>
        via[c] \in Manager /\ manager[via[c]] = "resolved"
  BY DEF CallFits
<1>5. \A c \in Call : method[c] = "open" => promise[c] # "none"
  BY DEF CallFits
<1>6. ASSUME NEW dir \in Manager, NEW calls \in SUBSET Call,
             LastOpened(dir, calls)
      PROVE  LastOpened(dir, calls)'
  <2>1. PICK d \in Call :
          /\ method[d] = "open" /\ PlaceOf(via[d], dir)
          /\ platform = "android" =>
               \A o \in calls : Stored(o) => d \notin before[o]
    BY <1>6 DEF LastOpened
  <2>2. PlaceOf(via[d], dir)'
    BY <1>1, <1>4, <1>5, <2>1, PlaceStays DEF PlaceOf, BornTogether
  <2> QED
    BY <1>1, <2>1, <2>2 DEF LastOpened, Stored
<1>7. Direct' = Direct
  BY DEF Direct
<1>8. ASSUME stores # NoStore
      PROVE  LastOpened(stores.directory, Call)'
  <2>1. stores.directory \in Manager
    BY <1>8 DEF TypeOK, NativeTypeOK, Store
  <2>2. LastOpened(stores.directory, Call)
    BY <1>8 DEF PlaceInv
  <2> DEFINE dir == stores.directory
  <2>3. dir' = dir
    OBVIOUS
  <2> HIDE DEF dir
  <2>4. LastOpened(dir, Call)'
    BY <1>6, <2>1, <2>2, <2>3 DEF LastOpened, dir
  <2> QED
    BY <2>4 DEF dir
<1>9. ASSUME NEW c \in Call
      PROVE  PlaceFits(c)'
  <2>1. /\ PlaceFits(c) /\ CallFits(c) /\ before[c] \in SUBSET Call
        /\ reached[c] \in Manager \cup {0}
        /\ \A s \in Store : s.directory \in Manager
    BY DEF PlaceInv, TypeOK, NativeTypeOK, ScriptTypeOK, Store
  <2>2. ASSUME promise[c] # "none", NEW dir \in Manager, PlaceOf(via[c], dir)
        PROVE  PlaceOf(via[c], dir)'
    BY <1>1, <1>4, <2>2, PlaceStays DEF PlaceOf, BornTogether
  <2>3. thread[c] = "opened" => PlaceOf(via[c], held[c].directory)'
    <3> SUFFICES ASSUME thread[c] = "opened"
                 PROVE  PlaceOf(via[c], held[c].directory)'
      OBVIOUS
    <3>1. promise[c] # "none" /\ held[c].directory \in Manager
      BY <2>1 DEF CallFits
    <3> QED
      BY <2>1, <2>2, <3>1 DEF PlaceFits, PlaceOf, BornTogether
  <2>4. thread[c] \in {"found", "removed"} =>
          method[c] # Direct /\ LastOpened(held[c].directory, before[c])'
    <3> SUFFICES ASSUME thread[c] \in {"found", "removed"}
                 PROVE  /\ method[c] # Direct
                        /\ LastOpened(held[c].directory, before[c])'
      OBVIOUS
    <3>1. held[c].directory \in Manager
      BY <2>1 DEF CallFits
    <3>2. method[c] # Direct /\ LastOpened(held[c].directory, before[c])
      BY <2>1 DEF PlaceFits
    <3>3. PICK d \in Call :
            /\ method[d] = "open" /\ PlaceOf(via[d], held[c].directory)
            /\ platform = "android" =>
                 \A o \in before[c] : Stored(o) => d \notin before[o]
      BY <3>2 DEF LastOpened
    <3>4. PlaceOf(via[d], held[c].directory)'
      BY <1>1, <1>4, <1>5, <3>1, <3>3, PlaceStays DEF PlaceOf, BornTogether
    <3> QED
      BY <1>1, <3>2, <3>3, <3>4 DEF LastOpened, Stored
  <2>5. reached[c] # 0 =>
          \/ PlaceOf(via[c], reached[c])'
          \/ method[c] # Direct /\ LastOpened(reached[c], before[c])'
    <3> SUFFICES ASSUME reached[c] # 0
                 PROVE  \/ PlaceOf(via[c], reached[c])'
                        \/ /\ method[c] # Direct
                           /\ LastOpened(reached[c], before[c])'
      OBVIOUS
    <3>1. reached[c] \in Manager /\ promise[c] # "none"
      BY <2>1 DEF CallFits
    <3>2. CASE PlaceOf(via[c], reached[c])
      BY <2>2, <3>1, <3>2 DEF PlaceOf, BornTogether
    <3>3. CASE method[c] # Direct /\ LastOpened(reached[c], before[c])
      <4>1. PICK d \in Call :
              /\ method[d] = "open" /\ PlaceOf(via[d], reached[c])
              /\ platform = "android" =>
                   \A o \in before[c] : Stored(o) => d \notin before[o]
        BY <3>3 DEF LastOpened
      <4>2. PlaceOf(via[d], reached[c])'
        BY <1>1, <1>4, <1>5, <3>1, <4>1, PlaceStays DEF PlaceOf, BornTogether
      <4> QED
        BY <1>1, <3>3, <4>1, <4>2 DEF LastOpened, Stored
    <3> QED
      BY <2>1, <3>2, <3>3 DEF PlaceFits
  <2> QED
    BY <1>1, <1>7, <2>3, <2>4, <2>5 DEF PlaceFits
<1> QED
  BY <1>3, <1>8, <1>9 DEF PlaceInv


\* A new call knows of those that were settled; nobody knows of it.
LEMMA InvokeKeeps ==
  ASSUME RegistryInv, NEW c \in Call, Invoke(c),
         UNCHANGED <<thread, held, stores, reached, platform>>
  PROVE  /\ \A d \in Call : CallFits(d)'
         /\ PlaceInv'
<1> USE DEF RegistryInv
<1>1. /\ promise[c] = "none" /\ method[c] = "none" /\ c \notin execs
      /\ thread[c] = "idle" /\ result[c] = "none" /\ reached[c] = 0
  BY DEF Invoke, CallFits
<1>2. PICK k \in Method, m \in Manager :
        /\ Offered(k, m)
        /\ method' = [method EXCEPT ![c] = k]
        /\ via' = [via EXCEPT ![c] = m]
  BY DEF Invoke
<1>3. /\ promise' = [promise EXCEPT ![c] = "pending"]
      /\ execs' = execs \cup {c}
      /\ before' = [before EXCEPT ![c] = {d \in Call : Settled(d)}]
      /\ UNCHANGED <<manager, earlier, result>>
  BY DEF Invoke
<1>4. manager[m] = "resolved"
  BY <1>2 DEF Offered, Resolved, CallFits
<1>5. \A d \in Call \ {c} :
        /\ promise'[d] = promise[d] /\ method'[d] = method[d]
        /\ via'[d] = via[d] /\ before'[d] = before[d]
        /\ Settled(d)' <=> Settled(d)
  BY <1>2, <1>3 DEF TypeOK, ScriptTypeOK, Settled
<1>6. /\ promise'[c] = "pending" /\ method'[c] = k /\ via'[c] = m
      /\ before'[c] = {d \in Call : Settled(d)} /\ c \notin before'[c]
  BY <1>1, <1>2, <1>3 DEF TypeOK, ScriptTypeOK, Settled
<1>7. \A d \in Call : c \notin before[d] /\ before[d] \subseteq Call
  BY <1>1 DEF CallFits, Settled, TypeOK, ScriptTypeOK
<1>8. ASSUME NEW d \in Call
      PROVE  CallFits(d)'
  <2>1. CASE d = c
    <3>1. \A e \in before'[c] : Settled(e)'
      BY <1>5, <1>6
    <3> QED
      BY <1>1, <1>3, <1>4, <1>6, <2>1, <3>1 DEF CallFits, Settled, Method
  <2>2. CASE d # c
    <3>1. \A e \in before'[d] : Settled(e)'
      BY <1>5, <1>7, <2>2 DEF CallFits
    <3>2. CallFits(d) /\ (d \in execs' <=> d \in execs)
      BY <1>3, <2>2
    <3> QED
      BY <1>3, <1>5, <2>2, <3>1, <3>2 DEF CallFits, Settled
  <2> QED
    BY <2>1, <2>2
<1>9. ~Stored(c)' /\ \A d \in Call \ {c} : Stored(d)' <=> Stored(d)
  BY <1>1, <1>3, <1>5, <1>6 DEF Stored
<1>10. ASSUME NEW dir, NEW calls \in SUBSET Call, LastOpened(dir, calls)
       PROVE  LastOpened(dir, calls)'
  <2>1. PICK d \in Call :
          /\ method[d] = "open" /\ PlaceOf(via[d], dir)
          /\ platform = "android" =>
               \A o \in calls : Stored(o) => d \notin before[o]
    BY <1>10 DEF LastOpened
  <2>2. d # c /\ PlaceOf(via[d], dir)'
    BY <1>1, <1>3, <1>5, <2>1, PlaceKept DEF PlaceOf, BornTogether
  <2>3. method'[d] = "open"
    BY <1>5, <2>1, <2>2
  <2>4. \A o \in calls : Stored(o)' => Stored(o) /\ before'[o] = before[o]
    BY <1>5, <1>9
  <2> QED
    BY <2>1, <2>2, <2>3, <2>4 DEF LastOpened
<1>11. Direct' = Direct
  BY DEF Direct
<1>12. ASSUME NEW d \in Call
       PROVE  PlaceFits(d)'
  <2>1. CASE d = c
    BY <1>1, <2>1 DEF PlaceFits
  <2>2. CASE d # c
    <3>1. PlaceFits(d) /\ before[d] \in SUBSET Call
      BY <1>7 DEF PlaceInv
    <3>2. \A dir : PlaceOf(via[d], dir) => PlaceOf(via[d], dir)'
      BY <1>3, <1>5, <2>2 DEF PlaceOf, BornTogether
    <3>3. \A dir : LastOpened(dir, before[d]) => LastOpened(dir, before[d])'
      <4> DEFINE calls == before[d]
      <4>1. calls' = calls /\ calls \in SUBSET Call
        BY <1>5, <2>2, <3>1
      <4> HIDE DEF calls
      <4>2. \A dir : LastOpened(dir, calls) => LastOpened(dir, calls)'
        BY <1>10, <4>1 DEF LastOpened
      <4> QED
        BY <4>2 DEF calls
    <3> QED
      BY <1>5, <1>11, <2>2, <3>1, <3>2, <3>3 DEF PlaceFits
  <2> QED
    BY <2>1, <2>2
<1>13. stores' # NoStore => LastOpened(stores.directory, Call)'
  BY <1>10 DEF PlaceInv
<1> QED
  BY <1>8, <1>12, <1>13 DEF PlaceInv

\* A result that has arrived was stored before.
LEMMA SettleKeeps ==
  ASSUME RegistryInv, NEW c \in Call, Settle(c),
         UNCHANGED <<thread, held, stores, reached, platform>>
  PROVE  /\ \A d \in Call : CallFits(d)'
         /\ PlaceInv'
<1> USE DEF RegistryInv
<1>1. /\ result' = [result EXCEPT ![c] = "none"]
      /\ promise' = [promise EXCEPT
           ![c] = IF result[c] = "ok" THEN "resolved" ELSE "rejected"]
      /\ UNCHANGED <<manager, method, via, execs, earlier, before>>
  BY DEF Settle
<1>2. /\ result[c] # "none" /\ promise[c] = "pending" /\ thread[c] = "ended"
      /\ c \notin execs
  BY DEF Settle, CallFits
<1>3. /\ result'[c] = "none" /\ Settled(c)'
      /\ promise'[c] = IF result[c] = "ok" THEN "resolved" ELSE "rejected"
      /\ \A d \in Call \ {c} :
           /\ result'[d] = result[d] /\ promise'[d] = promise[d]
           /\ Settled(d)' <=> Settled(d)
  BY <1>1 DEF TypeOK, ScriptTypeOK, Settled
<1>4. ASSUME NEW d \in Call
      PROVE  CallFits(d)'
  <2>1. CallFits(d) /\ before[d] \subseteq Call
    BY DEF TypeOK, ScriptTypeOK
  <2>2. \A e \in before'[d] : Settled(e)'
    BY <1>1, <1>3, <2>1 DEF CallFits
  <2>3. CASE d = c
    BY <1>1, <1>2, <1>3, <2>1, <2>2, <2>3 DEF CallFits
  <2>4. CASE d # c
    BY <1>1, <1>3, <2>1, <2>2, <2>4 DEF CallFits
  <2> QED
    BY <2>3, <2>4
<1>5. \A d \in Call : Stored(d)' <=> Stored(d)
  BY <1>1, <1>2, <1>3 DEF Stored
<1>6. ASSUME NEW dir, NEW calls \in SUBSET Call, LastOpened(dir, calls)
      PROVE  LastOpened(dir, calls)'
  BY <1>1, <1>5, <1>6, PlaceKept DEF LastOpened
<1>7. Direct' = Direct
  BY DEF Direct
<1>8. ASSUME NEW d \in Call
      PROVE  PlaceFits(d)'
  <2>1. PlaceFits(d) /\ before[d] \in SUBSET Call
    BY DEF PlaceInv, TypeOK, ScriptTypeOK
  <2>2. \A dir : LastOpened(dir, before[d]) => LastOpened(dir, before[d])'
    BY <1>1, <1>6, <2>1 DEF LastOpened
  <2> QED
    BY <1>1, <1>7, <2>1, <2>2, PlaceKept DEF PlaceFits
<1>9. stores' # NoStore => LastOpened(stores.directory, Call)'
  BY <1>6 DEF PlaceInv
<1> QED
  BY <1>4, <1>8, <1>9 DEF PlaceInv

LEMMA ScriptRegistry ==
  ASSUME RegistryInv, ManagersInv', ScriptStep,
         UNCHANGED <<nativeVars, platform>>
  PROVE  RegistryInv'
<1>1. UNCHANGED <<managers, stores, thread, held, reached>>
  BY DEF nativeVars
<1>2. NativeTypeOK'
  BY DEF RegistryInv, TypeOK, NativeTypeOK, nativeVars, libraryVars
<1>3. CASE HandleManager \/ \E m \in Manager : NewManager(m)
  <2>1. ScriptTypeOK'
    BY <1>3 DEF RegistryInv, TypeOK, ScriptTypeOK, ManagersInv, IdsTyped,
       HandleManager, NewManager
  <2> QED
    BY <1>1, <1>2, <1>3, <2>1, ManagerStepPaths, ManagerStepCalls
    DEF RegistryInv, TypeOK
<1>4. ASSUME NEW c \in Call, Invoke(c)
      PROVE  RegistryInv'
  <2>1. ScriptTypeOK'
    BY <1>4 DEF RegistryInv, TypeOK, ScriptTypeOK, Invoke, Method
  <2>2. PathsInv'
    BY <1>1, <1>4, PathsKept DEF RegistryInv, Invoke
  <2> QED
    BY <1>1, <1>2, <1>4, <2>1, <2>2, InvokeKeeps DEF RegistryInv, TypeOK
<1>5. ASSUME NEW c \in Call, Settle(c)
      PROVE  RegistryInv'
  <2>1. ScriptTypeOK'
    BY <1>5 DEF RegistryInv, TypeOK, ScriptTypeOK, Settle
  <2>2. PathsInv'
    BY <1>1, <1>5, PathsKept DEF RegistryInv, Settle
  <2> QED
    BY <1>1, <1>2, <1>5, <2>1, <2>2, SettleKeeps DEF RegistryInv, TypeOK
<1> QED
  BY <1>3, <1>4, <1>5 DEF ScriptStep, Handle


-----------------------------------------------------------------------------
(* The invariant, and what follows from it *)

LEMMA InitRegistry == PlatformInit => RegistryInv
<1> SUFFICES ASSUME PlatformInit
             PROVE  RegistryInv
  OBVIOUS
<1>1. ManagersInv
  BY InitManagers DEF PlatformInit
<1>2. TypeOK
  BY OnDiskAssumption
  DEF PlatformInit, Init, ScriptInit, NativeInit, TypeOK, ScriptTypeOK,
      NativeTypeOK
<1>3. \A c \in Call : CallFits(c) /\ PlaceFits(c)
  BY DEF PlatformInit, Init, ScriptInit, NativeInit, CallFits, PlaceFits,
     Settled
<1>4. PathsInv /\ PlaceInv
  BY <1>3 DEF PlatformInit, Init, ScriptInit, NativeInit, PathsInv, PlaceInv
<1> QED
  BY <1>1, <1>2, <1>3, <1>4 DEF RegistryInv

LEMMA NextRegistry == RegistryInv /\ [Next]_vars => RegistryInv'
<1> SUFFICES ASSUME RegistryInv, [Next]_vars
             PROVE  RegistryInv'
  OBVIOUS
<1>1. ManagersInv'
  BY NextManagers DEF RegistryInv
<1>2. CASE ScriptStep /\ UNCHANGED <<nativeVars, platform>>
  BY <1>1, <1>2, ScriptRegistry
<1>3. CASE platform = "android" /\ Android!NativeStep /\ UNCHANGED platform
  BY <1>1, <1>3, AndroidRegistry
<1>4. CASE platform = "ios" /\ IOS!NativeStep /\ UNCHANGED platform
  BY <1>1, <1>4, IOSRegistry
<1>5. CASE UNCHANGED vars
  <2>1. TypeOK'
    BY <1>5 DEF RegistryInv, TypeOK, ScriptTypeOK, NativeTypeOK, vars,
       scriptVars, pageVars, nativeVars, libraryVars
  <2>2. PathsInv'
    BY <1>5, PathsKept DEF RegistryInv, vars, scriptVars, pageVars, nativeVars
  <2> QED
    BY <1>1, <1>5, <2>1, <2>2, QuietKeeps
    DEF RegistryInv, vars, scriptVars, nativeVars
<1> QED
  BY <1>2, <1>3, <1>4, <1>5 DEF Next, NativeStep

LEMMA RegistryInvariant == Spec => []RegistryInv
  BY InitRegistry, NextRegistry, PTL DEF Spec, Safe

\* Every variable of the page and of either native half keeps its type: the map
\* of the managers leads to directories that there are, and a call gets its work
\* done in one of them, though the id it looks up came back from native code.
THEOREM TypeCorrect == Spec => []TypeOK
  BY RegistryInvariant, PTL DEF RegistryInv

\* In which directories a call may get its work done.
LEMMA Reaches ==
  ASSUME RegistryInv, NEW c \in Call
  PROVE  \/ InPlace(c)
         \/ /\ method[c] # Direct
            /\ \E d \in Call :
                 /\ OpenedElsewhere(c, d)
                 /\ platform = "android" =>
                      \A o \in before[c] : Stored(o) => d \notin before[o]
<1>1. PlaceFits(c) /\ reached[c] \in Manager \cup {0}
  BY DEF RegistryInv, PlaceInv, TypeOK, NativeTypeOK
<1>2. CASE reached[c] = 0
  BY <1>2 DEF InPlace
<1>3. ASSUME reached[c] # 0, PlaceOf(via[c], reached[c])
      PROVE  InPlace(c)
  BY <1>1, <1>3 DEF InPlace, PlaceOf
<1>4. CASE reached[c] # 0 /\ ~PlaceOf(via[c], reached[c])
  <2>1. method[c] # Direct /\ LastOpened(reached[c], before[c])
    BY <1>1, <1>4 DEF PlaceFits
  <2>2. PICK d \in Call :
          /\ method[d] = "open" /\ PlaceOf(via[d], reached[c])
          /\ platform = "android" =>
               \A o \in before[c] : Stored(o) => d \notin before[o]
    BY <2>1 DEF LastOpened
  <2>3. OpenedElsewhere(c, d)
    BY <1>4, <2>2 DEF OpenedElsewhere
  <2> QED
    BY <2>1, <2>2, <2>3
<1> QED
  BY <1>2, <1>3, <1>4

\* A manager's calls get their work done in its own directory, but for two
\* reasons: another manager was being created at the same time and may have the
\* same id; or another manager opened the name.  The latter never misleads what
\* does not ask the map of the open stores, which is open on Android and delete
\* on iOS; and on Android it misleads nobody who had his own open reported
\* after that of the other.
THEOREM StaysInPlaceCorrect == Spec => []StaysInPlace
<1>1. RegistryInv => StaysInPlace
  <2> SUFFICES ASSUME RegistryInv
               PROVE  StaysInPlace
    OBVIOUS
  <2>1. CASE platform = "android"
    <3> SUFFICES ASSUME NEW c \in Call, ~Android!InPlace(c)
                 PROVE  /\ method[c] # "open"
                        /\ \E d \in Call : Android!OpenedElsewhere(c, d) /\
                             ~ \E o \in before[c] :
                                 /\ Android!Resolved(o, "open")
                                 /\ via[o] = via[c] /\ d \in before[o]
      BY <2>1 DEF StaysInPlace, Android!StaysInPlace
    <3>1. ~InPlace(c)
      BY DEF InPlace, BornTogether, Android!InPlace, Android!BornTogether
    <3>2. PICK d \in Call :
            /\ method[c] # Direct /\ OpenedElsewhere(c, d)
            /\ \A o \in before[c] : Stored(o) => d \notin before[o]
      BY <2>1, <3>1, Reaches
    <3>3. \A o \in before[c] : Android!Resolved(o, "open") => Stored(o)
      BY DEF Android!Resolved, Stored
    <3>4. Android!OpenedElsewhere(c, d) /\ method[c] # "open"
      BY <2>1, <3>2 DEF OpenedElsewhere, Android!OpenedElsewhere, Direct
    <3> QED
      BY <3>2, <3>3, <3>4
  <2>2. CASE platform # "android"
    <3> SUFFICES ASSUME NEW c \in Call, ~IOS!InPlace(c)
                 PROVE  /\ method[c] # "delete"
                        /\ \E d \in Call : IOS!OpenedElsewhere(c, d)
      BY <2>2 DEF StaysInPlace, IOS!StaysInPlace
    <3>1. ~InPlace(c)
      BY DEF InPlace, BornTogether, IOS!InPlace, IOS!BornTogether
    <3>2. PICK d \in Call : method[c] # Direct /\ OpenedElsewhere(c, d)
      BY <3>1, Reaches
    <3> QED
      BY <2>2, <3>2 DEF OpenedElsewhere, IOS!OpenedElsewhere, Direct
  <2> QED
    BY <2>1, <2>2
<1> QED
  BY <1>1, RegistryInvariant, PTL

-----------------------------------------------------------------------------
(* What a step of a call does to the rest *)

StoreStep(c) ==
  TypeOK /\ NativeTypeOK' /\ CallsFit /\ StoresInv /\ Moves(c) /\ Acts(c)

\* A step of call c keeps what the page knows; nobody knows of c yet.
LEMMA StepKeeps ==
  ASSUME NEW c \in Call, StoreStep(c)
  PROVE  /\ UNCHANGED <<method, promise, before, platform>>
         /\ promise[c] = "pending" /\ result[c] = "none"
         /\ thread[c] # "ended" /\ thread'[c] # "idle"
         /\ before \in [Call -> SUBSET Call]
         /\ \A d \in Call : c \notin before[d]
         /\ ~Stored(c)
         /\ \A d \in Call \ {c} :
              /\ thread'[d] = thread[d] /\ held'[d] = held[d]
              /\ reached'[d] = reached[d] /\ result'[d] = result[d]
              /\ Stored(d)' <=> Stored(d)
<1> USE DEF StoreStep
<1>1. UNCHANGED <<method, promise, before, platform>>
  BY DEF Moves, pageVars
<1>2. CallFits(c) /\ \A d \in Call : CallFits(d)
  BY DEF CallsFit
<1>3. promise[c] = "pending" /\ result[c] = "none" /\ thread[c] # "ended"
  BY <1>2 DEF Moves, InThread, CallFits
<1>4. \A d \in Call : c \notin before[d]
  BY <1>2, <1>3 DEF CallFits, Settled
<1>5. before \in [Call -> SUBSET Call]
  BY DEF TypeOK, ScriptTypeOK
<1>6. thread'[c] # "idle" /\ ~Stored(c)
  BY <1>3 DEF Moves, Stored
<1>7. \A d \in Call \ {c} :
        /\ thread'[d] = thread[d] /\ held'[d] = held[d]
        /\ reached'[d] = reached[d] /\ result'[d] = result[d]
        /\ Stored(d)' <=> Stored(d)
  BY <1>1 DEF Moves, Stored
<1> QED
  BY <1>1, <1>3, <1>4, <1>5, <1>6, <1>7

\* So nothing changes about who ends a store and who overlaps with whom.
LEMMA StepKeepsEnds ==
  ASSUME NEW c \in Call, StoreStep(c)
  PROVE  /\ \A d \in Call : Ends(d)' <=> Ends(d)
         /\ \A d \in Call : Wakes(d)' <=> Wakes(d)
         /\ \A d, x \in Call : Quiet(d, x)' <=> Quiet(d, x)
         /\ \A d, x \in Call : Undisturbed(d, x)' <=> Undisturbed(d, x)
         /\ NeverOverlap' <=> NeverOverlap
         /\ \A x \in Call : Unacted(x)' => Unacted(x) /\ (Ends(c) => x # c)
<1>1. /\ UNCHANGED <<method, before, platform>> /\ thread'[c] # "idle"
      /\ \A d \in Call \ {c} : thread'[d] = thread[d]
  BY StepKeeps
<1>2. \A d \in Call : Ends(d)' <=> Ends(d)
  BY <1>1 DEF Ends
<1>3. \A d \in Call : Wakes(d)' <=> Wakes(d)
  BY <1>1 DEF Wakes
<1>4. \A d, x \in Call : Quiet(d, x)' <=> Quiet(d, x)
  BY <1>1, <1>2 DEF Quiet
<1>5. \A d, x \in Call : Undisturbed(d, x)' <=> Undisturbed(d, x)
  BY <1>1, <1>2, <1>4 DEF Undisturbed, Overlap
<1>6. NeverOverlap' <=> NeverOverlap
  BY <1>1, <1>2 DEF NeverOverlap, Overlap
<1>7. \A x \in Call : Unacted(x)' => Unacted(x) /\ (Ends(c) => x # c)
  BY <1>1, <1>2 DEF Unacted
<1> QED
  BY <1>2, <1>3, <1>4, <1>5, <1>6, <1>7

\* An open instance stays open, but for an end that knows of it.
LEMMA StaysLive ==
  ASSUME NEW c \in Call, StoreStep(c), NEW s \in Store, s.opening # 0,
         Live(s)
  PROVE  \/ s # NoStore /\ opened'[s.directory] = s.opening
         \/ Ends(c) /\ (thread'[c] = "deleted" \/ thread[c] = "removed")
<1>1. s.directory \in Manager
  BY DEF Store
<1> QED
  BY <1>1 DEF StoreStep, Acts, LibraryActs, Live

\* Two calls that are not over overlap; so when opens and ends have kept apart,
\* a call that opens a store knows of all ends.
LEMMA ApartQuiet ==
  ASSUME CallsFit, NeverOverlap, NEW d \in Call, method[d] = "open",
         promise[d] = "pending"
  PROVE  \A x \in Call : Quiet(d, x)
<1>1. \A e \in Call : d \notin before[e]
  BY DEF CallsFit, CallFits, Settled
<1>2. \A e \in Call : Ends(e) => e \in before[d]
  BY <1>1 DEF NeverOverlap, Overlap
<1> QED
  BY <1>2 DEF Quiet

-----------------------------------------------------------------------------
(* Steps of a call keep StoresInv *)

LEMMA CallThread ==
  ASSUME NEW c \in Call, StoreStep(c)
  PROVE  ThreadInv'
<1> USE DEF StoreStep
<1>1. ThreadInv /\ MapActs(c) /\ LibraryActs(c)
  BY DEF StoresInv, Acts
<1>2. stores' # NoStore => stores'.opening # 0
  BY <1>1 DEF MapActs, ThreadInv
<1>3. ASSUME NEW d \in Call
      PROVE  /\ thread'[d] \in {"opened", "found", "removed"} =>
                  held'[d].opening # 0
             /\ thread'[d] = "idle" => reached'[d] = 0
             /\ thread'[d] = "found" => method'[d] \in {"use", "delete"}
             /\ thread'[d] = "removed" =>
                  method'[d] = "close" /\ platform' = "android"
             /\ thread'[d] \in {"deleted", "undeleted"} =>
                  method'[d] = "delete"
  <2>1. CASE d = c
    <3>1. thread'[c] \in {"found", "removed"} =>
            held'[c] = stores /\ stores # NoStore
      BY DEF Moves
    <3>2. thread'[c] = "opened" => held'[c].opening # 0
      BY <1>1 DEF LibraryActs
    <3> QED
      BY <1>1, <2>1, <3>1, <3>2, StepKeeps DEF ThreadInv, MapActs
  <2>2. CASE d # c
    BY <1>1, <2>2, StepKeeps DEF ThreadInv
  <2> QED
    BY <2>1, <2>2
<1> QED
  BY <1>2, <1>3 DEF ThreadInv

LEMMA CallLive ==
  ASSUME NEW c \in Call, StoreStep(c)
  PROVE  LiveInv'
<1> USE DEF StoreStep
<1>1. /\ ThreadInv /\ LiveInv /\ MapInv
      /\ MapActs(c) /\ LibraryActs(c) /\ OutcomeActs(c)
  BY DEF StoresInv, Acts
<1>2. /\ \A d \in Call : thread[d] = "opened" => held[d] \in Store
      /\ stores \in Store \cup {NoStore}
  BY DEF CallsFit, CallFits, TypeOK, NativeTypeOK
<1> SUFFICES ASSUME NEW x \in Call, Unacted(x)'
             PROVE  /\ \A d \in Call :
                         thread'[d] = "opened" /\ Quiet(d, x)' =>
                           Live(held[d])'
                    /\ \A o \in Call : Stored(o)' /\ Undisturbed(o, x)' =>
                         Live(stores)'
  BY DEF LiveInv
<1>3. Unacted(x) /\ (Ends(c) => x # c)
  BY StepKeepsEnds
<1>4. ASSUME NEW d \in Call, Quiet(d, x)
      PROVE  ~Ends(c)
  BY <1>3, <1>4, StepKeeps DEF Quiet
<1>5. ASSUME NEW d \in Call, thread'[d] = "opened", Quiet(d, x)'
      PROVE  Live(held[d])'
  <2>1. Quiet(d, x) /\ ~Ends(c)
    BY <1>4, <1>5, StepKeepsEnds
  <2>2. CASE d = c
    <3>1. /\ opened'[held'[c].directory] = held'[c].opening
          /\ held'[c].opening # 0
      BY <1>1, <1>5, <2>2 DEF LibraryActs
    <3> QED
      BY <2>2, <3>1 DEF Live, NoStore
  <2>3. CASE d # c
    <3>1. thread[d] = "opened" /\ held'[d] = held[d]
      BY <1>5, <2>3, StepKeeps
    <3>2. held[d] \in Store /\ held[d].opening # 0 /\ Live(held[d])
      BY <1>1, <1>2, <1>3, <2>1, <3>1 DEF ThreadInv, LiveInv
    <3> QED
      BY <2>1, <3>1, <3>2, StaysLive DEF Live
  <2> QED
    BY <2>2, <2>3
<1>6. ASSUME NEW o \in Call, Stored(o)', Undisturbed(o, x)'
      PROVE  Live(stores)'
  <2>1. Undisturbed(o, x) /\ Quiet(o, x) /\ ~Ends(c)
    BY <1>4, <1>6, StepKeepsEnds DEF Undisturbed
  <2>2. ASSUME thread[c] = "opened", Quiet(c, x)
        PROVE  Live(stores)'
    <3>1. stores' = held[c]
      BY <1>1, <2>2 DEF MapActs
    <3>2. held[c] \in Store /\ held[c].opening # 0 /\ Live(held[c])
      BY <1>1, <1>2, <1>3, <2>2 DEF ThreadInv, LiveInv
    <3> QED
      BY <2>1, <3>1, <3>2, StaysLive DEF Live
  <2>3. CASE o = c
    <3>1. method[c] = "open" /\ result'[c] = "ok"
      BY <1>6, <2>3, StepKeeps DEF Stored
    <3>2. CASE thread[c] = "opened"
      BY <2>1, <2>2, <2>3, <3>2
    <3>3. CASE thread[c] # "opened"
      <4>1. /\ platform # "android" /\ stores # NoStore
            /\ stores' = stores /\ opened' = opened
        BY <1>1, <3>1, <3>3 DEF OutcomeActs
      <4>2. ~Ends(x)
        BY <1>3, <4>1 DEF Unacted
      <4>3. NeverOverlap
        BY <2>1, <4>1, <4>2 DEF Undisturbed, NeverOverlap
      <4>4. \A e \in Call : thread[e] # "deleted"
        <5> SUFFICES ASSUME NEW e \in Call, thread[e] = "deleted"
                     PROVE  FALSE
          OBVIOUS
        <5>1. method[e] = "delete" /\ promise[e] = "pending"
          BY <1>1 DEF ThreadInv, CallsFit, CallFits
        <5>2. Ends(e) /\ e # x
          BY <4>2, <5>1 DEF Ends
        <5>3. e \in before[c]
          BY <2>1, <2>3, <5>2 DEF Quiet
        <5> QED
          BY <5>1, <5>3 DEF CallsFit, CallFits, Settled
      <4>5. Live(stores)
        BY <1>1, <4>1, <4>3, <4>4 DEF MapInv
      <4> QED
        BY <4>1, <4>5 DEF Live
    <3> QED
      BY <3>2, <3>3
  <2>4. CASE o # c
    <3>1. Stored(o) /\ Live(stores)
      BY <1>1, <1>3, <1>6, <2>1, <2>4, StepKeeps DEF LiveInv
    <3>2. CASE stores' = stores
      <4>1. stores \in Store /\ stores.opening # 0
        BY <1>1, <1>2, <3>1 DEF ThreadInv, Live
      <4> QED
        BY <2>1, <3>1, <3>2, <4>1, StaysLive DEF Live
    <3>3. CASE thread[c] = "opened"
      <4>1. method[c] = "open"
        BY <3>3 DEF CallsFit, CallFits
      <4>2. ASSUME NEW e \in Call \ {x}, Ends(e)
            PROVE  e \in before[c]
        <5>1. ~Overlap(c, e)
          BY <2>1, <4>1, <4>2, StepKeeps DEF Undisturbed
        <5> QED
          BY <5>1, StepKeeps DEF Overlap
      <4> QED
        BY <2>2, <3>3, <4>2 DEF Quiet
    <3> QED
      BY <1>1, <2>1, <3>2, <3>3 DEF MapActs
  <2> QED
    BY <2>3, <2>4
<1> QED
  BY <1>5, <1>6

LEMMA CallFound ==
  ASSUME NEW c \in Call, StoreStep(c)
  PROVE  FoundInv'
<1> USE DEF StoreStep
<1>1. /\ ThreadInv /\ LiveInv /\ FoundInv
      /\ MapActs(c) /\ LibraryActs(c) /\ OutcomeActs(c)
  BY DEF StoresInv, Acts
<1> SUFFICES ASSUME NEW u \in Call, method[u] \in {"use", "close"}
             PROVE  /\ \A o \in before[u] :
                         Resolved(o, "open") /\ Undisturbed(o, u) =>
                           /\ thread'[u] \in {"found", "removed"} =>
                                Live(held[u])'
                           /\ result'[u] # "failed"
                           /\ promise[u] # "rejected"
                    /\ method[u] = "close" /\ platform # "android" =>
                         result'[u] # "failed" /\ promise[u] # "rejected"
  <2>1. \A o \in Call : Resolved(o, "open")' <=> Resolved(o, "open")
    BY StepKeeps DEF Resolved
  <2>2. UNCHANGED <<method, promise, before, platform>>
        /\ \A v \in Call : before[v] \subseteq Call
    BY StepKeeps
  <2> QED
    BY <2>1, <2>2, StepKeepsEnds DEF FoundInv
<1>2. ASSUME method[u] = "close", platform # "android"
      PROVE  result'[u] # "failed" /\ promise[u] # "rejected"
  <2>1. CASE u = c
    BY <1>1, <1>2, <2>1, StepKeeps DEF OutcomeActs
  <2>2. CASE u # c
    BY <1>1, <1>2, <2>2, StepKeeps DEF FoundInv
  <2> QED
    BY <2>1, <2>2
<1>3. ASSUME NEW o \in before[u], Resolved(o, "open"), Undisturbed(o, u)
      PROVE  /\ thread'[u] \in {"found", "removed"} => Live(held[u])'
             /\ result'[u] # "failed" /\ promise[u] # "rejected"
  <2>1. o \in Call
    BY StepKeeps
  <2>2. /\ thread[u] \in {"found", "removed"} => Live(held[u])
        /\ result[u] # "failed" /\ promise[u] # "rejected"
    BY <1>1, <1>3 DEF FoundInv
  <2>3. CASE u = c
    <3>1. Live(stores) \/ thread[c] # "idle"
      <4> SUFFICES ASSUME thread[c] = "idle"
                   PROVE  Live(stores)
        OBVIOUS
      <4>1. Unacted(c)
        BY <2>3 DEF Unacted, Ends
      <4>2. Stored(o)
        BY <1>3 DEF Resolved, Stored
      <4> QED
        BY <1>1, <1>3, <2>1, <2>3, <4>1, <4>2 DEF LiveInv
    <3>2. ASSUME thread'[c] \in {"found", "removed"}
          PROVE  Live(held[c])'
      <4>1. thread[c] = "idle" /\ opened' = opened /\ held'[c] = stores
        BY <1>1, <3>2 DEF MapActs, LibraryActs, Moves
      <4> QED
        BY <3>1, <4>1 DEF Live
    <3>3. result'[c] # "failed"
      <4>1. Live(stores) => stores # NoStore
        BY DEF Live
      <4> QED
        BY <1>1, <2>2, <2>3, <3>1, <4>1 DEF OutcomeActs
    <3> QED
      BY <2>2, <2>3, <3>2, <3>3
  <2>4. CASE u # c
    <3>1. ~Ends(c)
      BY <1>3, <2>4, StepKeeps DEF Undisturbed, Quiet
    <3>2. ASSUME thread'[u] \in {"found", "removed"}
          PROVE  Live(held[u])'
      <4>1. thread[u] \in {"found", "removed"} /\ held'[u] = held[u]
        BY <2>4, <3>2, StepKeeps
      <4>2. held[u] \in Store /\ held[u].opening # 0 /\ Live(held[u])
        BY <1>1, <2>2, <4>1 DEF ThreadInv, CallsFit, CallFits
      <4> QED
        BY <3>1, <4>1, <4>2, StaysLive DEF Live
    <3> QED
      BY <2>2, <2>4, <3>2, StepKeeps
  <2> QED
    BY <2>3, <2>4
<1> QED
  BY <1>2, <1>3

LEMMA CallMap ==
  ASSUME NEW c \in Call, StoreStep(c)
  PROVE  MapInv'
<1> USE DEF StoreStep
<1>1. /\ ThreadInv /\ LiveInv /\ MapInv /\ EndInv
      /\ MapActs(c) /\ LibraryActs(c)
      /\ platform = "android" => AndroidActs(c)
  BY DEF StoresInv, Acts
<1>2. /\ \A d \in Call : thread[d] = "opened" => held[d] \in Store
      /\ stores \in Store \cup {NoStore}
      /\ \A s \in Store : s.directory \in Manager
  BY DEF CallsFit, CallFits, TypeOK, NativeTypeOK, Store
<1> SUFFICES ASSUME NeverOverlap, stores' # NoStore
             PROVE  \/ Live(stores)'
                    \/ /\ \E e \in Call : thread'[e] = "deleted"
                       /\ platform = "android" =>
                            opened'[stores'.directory] = 0
  BY StepKeeps, StepKeepsEnds DEF MapInv
<1>3. CASE stores' = stores /\ Live(stores)
  <2>1. stores \in Store /\ stores.opening # 0 /\ stores.directory \in Manager
    BY <1>1, <1>2, <1>3 DEF ThreadInv
  <2>2. CASE Ends(c) /\ thread[c] = "removed"
    <3>1. platform = "android" /\ method[c] = "close"
      BY <1>1, <2>2 DEF ThreadInv
    <3>2. ASSUME NEW d \in Call, Wakes(d)
          PROVE  d \in before[c]
      <4>1. method[d] = "open"
        BY <3>1, <3>2 DEF Wakes
      <4> QED
        BY <2>2, <4>1, StepKeeps DEF NeverOverlap, Overlap
    <3>3. stores = NoStore
      BY <1>1, <2>2, <3>2 DEF EndInv
    <3> QED
      BY <1>3, <3>3
  <2>3. CASE Ends(c) /\ thread'[c] = "deleted"
    <3>1. ASSUME platform = "android"
          PROVE  Live(stores)' \/ opened'[stores.directory] = 0
      <4>1. opened'[stores.directory] \in {0, opened[stores.directory]}
        BY <1>1, <2>1, <2>3, <3>1 DEF AndroidActs
      <4> QED
        BY <1>3, <4>1 DEF Live
    <3> QED
      BY <1>3, <2>3, <3>1
  <2> QED
    BY <1>3, <2>1, <2>2, <2>3, StaysLive DEF Live
<1>4. CASE stores' = stores /\ ~Live(stores)
  <2>1. PICK e \in Call : thread[e] = "deleted"
    BY <1>1, <1>4 DEF MapInv
  <2>2. platform = "android" => opened[stores.directory] = 0
    BY <1>1, <1>4 DEF MapInv
  <2>3. e # c
    BY <1>1, <1>4, <2>1 DEF MapActs
  <2>4. thread'[e] = "deleted"
    BY <2>1, <2>3, StepKeeps
  <2>5. thread'[c] # "opened"
    <3> SUFFICES ASSUME thread'[c] = "opened"
                 PROVE  FALSE
      OBVIOUS
    <3>1. method[c] = "open" /\ method[e] = "delete" /\ promise[e] = "pending"
      BY <1>1, <2>1 DEF Moves, ThreadInv, CallsFit, CallFits
    <3>2. Ends(e) /\ e \notin before[c]
      BY <3>1 DEF Ends, CallsFit, CallFits, Settled
    <3> QED
      BY <3>1, <3>2, StepKeeps DEF NeverOverlap, Overlap
  <2>6. ASSUME platform = "android"
        PROVE  opened'[stores.directory] = 0
    <3>1. stores.directory \in Manager
      BY <1>2, <1>4
    <3> QED
      BY <1>1, <2>2, <2>5, <2>6, <3>1 DEF AndroidActs
  <2> QED
    BY <1>4, <2>4, <2>6
<1>5. CASE thread[c] = "opened" /\ stores' = held[c]
  <2>1. method[c] = "open" /\ promise[c] = "pending" /\ ~Ends(c)
    BY <1>5, StepKeeps DEF CallsFit, CallFits, Ends
  <2>2. Quiet(c, c) /\ Unacted(c)
    BY <2>1, ApartQuiet DEF Unacted
  <2>3. held[c] \in Store /\ held[c].opening # 0 /\ Live(held[c])
    BY <1>1, <1>2, <1>5, <2>2 DEF ThreadInv, LiveInv
  <2> QED
    BY <1>5, <2>1, <2>3, StaysLive DEF Live
<1> QED
  BY <1>1, <1>3, <1>4, <1>5 DEF MapActs

LEMMA CallEnd ==
  ASSUME NEW c \in Call, StoreStep(c)
  PROVE  EndInv'
<1> USE DEF StoreStep
<1>1. EndInv /\ MapActs(c) /\ LibraryActs(c)
  BY DEF StoresInv, Acts
<1> SUFFICES ASSUME NEW e \in Call, Ends(e),
                    \A d \in Call : Wakes(d) => d \in before[e]
             PROVE  /\ thread'[e] \in {"removed", "ended"} => stores' = NoStore
                    /\ method[e] = "delete" => reached'[e] \notin disk'
  BY StepKeeps, StepKeepsEnds DEF EndInv
<1>2. /\ thread[e] \in {"removed", "ended"} => stores = NoStore
      /\ method[e] = "delete" => reached[e] \notin disk
  BY <1>1 DEF EndInv
<1>3. ~Wakes(c) /\ thread[c] # "opened"
  <2>1. ~Wakes(c)
    BY StepKeeps
  <2> QED
    BY <2>1 DEF Wakes, CallsFit, CallFits
<1>4. disk' \subseteq disk
  BY <1>1, <1>3 DEF LibraryActs
<1>5. CASE e = c
  BY <1>1, <1>2, <1>4, <1>5 DEF MapActs, LibraryActs
<1>6. CASE e # c
  BY <1>1, <1>2, <1>3, <1>4, <1>6, StepKeeps DEF MapActs
<1> QED
  BY <1>5, <1>6

\* The closes that found a store, and the opens that are over.
Closers == {d \in Call : method[d] = "close" /\
  (thread[d] = "removed" \/ result[d] = "ok" \/ promise[d] = "resolved")}

Openers == {o \in Call : Stored(o)}

LEMMA CallClose ==
  ASSUME NEW c \in Call, StoreStep(c), platform = "android"
  PROVE  CloseInv'
<1> USE DEF StoreStep
<1> DEFINE Kept == IF stores = NoStore THEN 0 ELSE 1
<1>1. /\ MapActs(c) /\ AndroidActs(c)
      /\ Cardinality(Closers) + Kept <= Cardinality(Openers)
  BY DEF StoresInv, Acts, CloseInv, Closers, Openers
<1>2. ASSUME NEW S \in SUBSET Call
      PROVE  IsFiniteSet(S) /\ Cardinality(S) \in Nat
  BY CallAssumption, FS_Subset, FS_CardinalityType
<1>3. ASSUME NEW S \in SUBSET Call, NEW T \in SUBSET S
      PROVE  Cardinality(T) <= Cardinality(S)
  BY <1>2, FS_Subset
<1>4. /\ Closers \in SUBSET Call /\ Openers \in SUBSET Call
      /\ Closers' \in SUBSET Call /\ Openers' \in SUBSET Call
  BY DEF Closers, Openers
<1>5. \A d \in Call \ {c} :
        (d \in Closers' <=> d \in Closers) /\ (d \in Openers' <=> d \in Openers)
  BY StepKeeps DEF Closers, Openers
<1>6. c \notin Openers
  BY StepKeeps DEF Openers
<1> SUFFICES Cardinality(Closers') + Kept' <= Cardinality(Openers')
  BY DEF CloseInv, Closers, Openers
<1>7. CASE thread[c] = "opened"
  <2>1. method[c] = "open" /\ result'[c] = "ok"
    BY <1>1, <1>7 DEF AndroidActs, CallsFit, CallFits
  <2>2. Closers' = Closers /\ Openers' = Openers \cup {c}
    BY <1>4, <1>5, <2>1, StepKeeps DEF Closers, Openers, Stored
  <2>3. Cardinality(Openers') = Cardinality(Openers) + 1
    BY <1>2, <1>4, <1>6, <2>2, FS_AddElement
  <2> HIDE DEF Kept
  <2>4. Kept \in {0, 1} /\ Kept' \in {0, 1}
    BY DEF Kept
  <2> QED
    BY <1>1, <1>2, <1>4, <2>2, <2>3, <2>4
<1>8. CASE thread'[c] = "removed"
  <2>1. /\ thread[c] = "idle" /\ stores # NoStore /\ stores' = NoStore
        /\ method[c] = "close"
    BY <1>1, <1>8 DEF AndroidActs, MapActs
  <2>2. c \notin Closers
    BY <2>1, StepKeeps DEF Closers
  <2>3. Closers' = Closers \cup {c} /\ Openers' = Openers
    BY <1>4, <1>5, <1>6, <1>8, <2>1, StepKeeps
    DEF Closers, Openers, Stored
  <2>4. Cardinality(Closers') = Cardinality(Closers) + 1
    BY <1>2, <1>4, <2>2, <2>3, FS_AddElement
  <2> QED
    BY <1>1, <1>2, <1>4, <2>1, <2>3, <2>4
<1>9. CASE thread[c] # "opened" /\ thread'[c] # "removed"
  <2>1. c \in Closers' => c \in Closers
    BY <1>1, <1>9, StepKeeps DEF Closers, AndroidActs
  <2>2. Closers' \subseteq Closers /\ Openers \subseteq Openers'
    BY <1>4, <1>5, <1>6, <2>1
  <2>3. stores' \in {stores, NoStore}
    BY <1>1, <1>9 DEF MapActs
  <2>4. /\ Cardinality(Closers') <= Cardinality(Closers)
        /\ Cardinality(Openers) <= Cardinality(Openers')
    BY <1>3, <1>4, <2>2
  <2> HIDE DEF Kept
  <2>5. Kept \in {0, 1} /\ Kept' \in {0, 1} /\ Kept' <= Kept
    BY <2>3 DEF Kept
  <2> QED
    BY <1>1, <1>2, <1>4, <2>4, <2>5
<1> QED
  BY <1>7, <1>8, <1>9

\* What opens have reached stays so.
LEMMA ReachKept ==
  ASSUME NEW c \in Call, StoreStep(c), platform = "android",
         NEW m \in Manager, OpenReached(m)
  PROVE  \E d \in Call : method'[d] = "open" /\ reached'[d] = m
<1> USE DEF StoreStep
<1>1. PICK d \in Call : method[d] = "open" /\ reached[d] = m
  BY DEF OpenReached
<1>2. CASE d = c
  <2>1. thread[c] # "idle"
    BY <1>1, <1>2, ManagerAssumption DEF StoresInv, ThreadInv
  <2>2. reached'[c] = reached[c]
    BY <1>1, <1>2, <2>1 DEF Acts, AndroidActs
  <2> QED
    BY <1>1, <1>2, <2>2, StepKeeps
<1>3. CASE d # c
  BY <1>1, <1>3, StepKeeps
<1> QED
  BY <1>2, <1>3

LEMMA CallReach ==
  ASSUME NEW c \in Call, StoreStep(c), platform = "android"
  PROVE  ReachInv'
<1> USE DEF StoreStep
<1>1. /\ ThreadInv /\ ReachInv
      /\ MapActs(c) /\ LibraryActs(c) /\ AndroidActs(c)
  BY DEF StoresInv, Acts
<1>2. /\ \A d \in Call : thread[d] \in {"opened", "found", "removed"} =>
           held[d].directory \in Manager
      /\ stores # NoStore => stores.directory \in Manager
      /\ \A d \in Call : thread[d] = "deleted" => reached[d] \in Manager \cup {0}
  BY DEF CallsFit, CallFits, TypeOK, NativeTypeOK, Store
<1> DEFINE Opened(m) == \E d \in Call : method'[d] = "open" /\ reached'[d] = m
<1>3. thread'[c] = "opened" =>
        reached'[c] = held'[c].directory /\ Opened(reached'[c])
  BY <1>1, StepKeeps DEF LibraryActs, Moves
<1>4. stores # NoStore => Opened(stores.directory)
  BY <1>1, <1>2, ReachKept DEF ReachInv
<1>5. \A d \in Call : thread[d] \in {"opened", "found", "removed"} =>
        Opened(held[d].directory)
  BY <1>1, <1>2, ReachKept DEF ReachInv
<1>6. ASSUME NEW m \in Manager, opened'[m] # 0
      PROVE  Opened(m)
  <2>1. CASE opened[m] # 0
    BY <1>1, <2>1, ReachKept DEF ReachInv
  <2>2. CASE opened[m] = 0
    <3>1. thread'[c] = "opened" /\ m = reached'[c]
      BY <1>1, <1>6, <2>2 DEF AndroidActs
    <3> QED
      BY <1>3, <3>1
  <2> QED
    BY <2>1, <2>2
<1>7. stores' # NoStore => Opened(stores'.directory)
  BY <1>1, <1>4, <1>5 DEF MapActs
<1>8. ASSUME NEW e \in Call
      PROVE  /\ thread'[e] \in {"opened", "found", "removed"} =>
                  Opened(held'[e].directory)
             /\ thread'[e] = "opened" => reached'[e] = held'[e].directory
             /\ thread'[e] = "deleted" =>
                  reached'[e] # 0 /\ Opened(reached'[e])
             /\ method[e] = "delete" =>
                  /\ thread'[e] \in {"found", "undeleted"} => reached'[e] = 0
                  /\ result'[e] # "failed" /\ promise[e] # "rejected"
  <2>1. CASE e = c
    <3>1. thread'[c] \in {"found", "removed"} =>
            stores # NoStore /\ held'[c] = stores
      BY DEF Moves
    <3>2. thread'[c] = "deleted" => reached'[c] # 0 /\ Opened(reached'[c])
      BY <1>1, <1>2, <1>5, ManagerAssumption DEF AndroidActs
    <3>3. ASSUME method[c] = "delete"
          PROVE  /\ thread'[c] \in {"found", "undeleted"} => reached'[c] = 0
                 /\ result'[c] # "failed"
      <4>1. thread'[c] \in {"found", "undeleted"} =>
              thread[c] \in {"idle", "found"}
        BY <1>1 DEF AndroidActs
      <4>2. thread[c] \in {"idle", "found"} => reached[c] = 0
        BY <1>1, <3>3 DEF ThreadInv, ReachInv
      <4> QED
        BY <1>1, <3>3, <4>1, <4>2 DEF AndroidActs
    <3> HIDE DEF Opened
    <3> QED
      BY <1>3, <1>4, <2>1, <3>1, <3>2, <3>3, StepKeeps
  <2>2. CASE e # c
    <3>1. /\ thread[e] = "opened" => reached[e] = held[e].directory
          /\ method[e] = "delete" =>
               /\ thread[e] \in {"found", "undeleted"} => reached[e] = 0
               /\ result[e] # "failed" /\ promise[e] # "rejected"
      BY <1>1 DEF ReachInv
    <3>2. thread[e] = "deleted" => reached[e] # 0 /\ Opened(reached[e])
      BY <1>1, <1>2, ReachKept DEF ReachInv
    <3> HIDE DEF Opened
    <3> QED
      BY <1>5, <2>2, <3>1, <3>2, StepKeeps
  <2> QED
    BY <2>1, <2>2
<1> QED
  BY <1>6, <1>7, <1>8, StepKeeps DEF ReachInv, OpenReached

\* When opens and ends have kept apart, whatever store is about to be put or
\* ended is the one that is open in its directory, if any is.
Handled(e) ==
  /\ Holder(e) => opened[held[e].directory] \in {0, held[e].opening}
  /\ thread[e] = "deleted" => opened[reached[e]] = 0

\* Android: an open finds no end that is not over.
LEMMA ApartOpens ==
  ASSUME NEW c \in Call, StoreStep(c), platform = "android", NeverOverlap,
         method[c] = "open", NEW e \in Call, e # c,
         Holder(e) \/ thread[e] = "deleted"
  PROVE  thread[e] = "opened" /\ Live(held[e])
<1> USE DEF StoreStep
<1>1. ThreadInv /\ LiveInv /\ CallFits(e)
  BY DEF StoresInv, CallsFit
<1>2. promise[e] = "pending"
  BY <1>1 DEF Holder, CallFits
<1>3. e \notin before[c] /\ c \notin before[e]
  BY <1>2, StepKeeps DEF CallsFit, CallFits, Settled
<1>4. ~Ends(e)
  BY <1>3 DEF NeverOverlap, Overlap
<1>5. thread[e] = "opened" /\ method[e] = "open"
  BY <1>1, <1>4 DEF Holder, Ends, ThreadInv, CallFits
<1>6. Quiet(e, e) /\ Unacted(e)
  BY <1>2, <1>4, <1>5, ApartQuiet DEF Unacted
<1> QED
  BY <1>1, <1>5, <1>6 DEF LiveInv

LEMMA CallHandled ==
  ASSUME NEW c \in Call, StoreStep(c), platform = "android", NeverOverlap,
         NEW e \in Call
  PROVE  Handled(e)'
<1> USE DEF StoreStep
<1>1. /\ ThreadInv /\ MapInv /\ ReachInv /\ Handled(c) /\ Handled(e)
      /\ MapActs(c) /\ LibraryActs(c) /\ AndroidActs(c)
  BY DEF StoresInv, Acts, OrphanInv, Handled
<1>2. /\ \A d \in Call : thread[d] \in {"opened", "found", "removed"} =>
           held[d] \in Store
      /\ stores \in Store \cup {NoStore}
      /\ reached \in [Call -> Manager \cup {0}]
      /\ \A s \in Store : s.directory \in Manager
      /\ opened \in [Manager -> Nat]
  BY DEF CallsFit, CallFits, TypeOK, NativeTypeOK, Store
<1>3. CASE e = c
  <2>1. thread'[c] = "opened" =>
          opened'[held'[c].directory] = held'[c].opening
    BY <1>1 DEF LibraryActs
  <2>2. ASSUME thread'[c] \in {"found", "removed"}
        PROVE  opened'[held'[c].directory] \in {0, held'[c].opening}
    <3>1. stores # NoStore /\ held'[c] = stores /\ opened' = opened
      BY <1>1, <2>2 DEF Moves, LibraryActs
    <3>2. Live(stores) \/ opened[stores.directory] = 0
      BY <1>1, <3>1 DEF MapInv
    <3> QED
      BY <3>1, <3>2 DEF Live
  <2>3. ASSUME thread'[c] = "deleted"
        PROVE  opened'[reached'[c]] = 0
    <3>1. /\ thread[c] \in {"found", "removed"} /\ method[c] = "delete"
          /\ reached'[c] = held[c].directory
          /\ \A m \in Manager : opened'[m] =
               IF Live(held[c]) /\ m = held[c].directory THEN 0 ELSE opened[m]
      BY <1>1, <2>3 DEF MapActs, AndroidActs
    <3>2. thread[c] = "found" /\ held[c] \in Store
      BY <1>1, <1>2, <3>1 DEF ThreadInv
    <3>3. opened[held[c].directory] \in {0, held[c].opening}
      BY <1>1, <3>1, <3>2 DEF Handled, Holder
    <3>4. held[c].directory \in Manager /\ held[c] # NoStore
      BY <1>1, <1>2, <3>2 DEF ThreadInv, NoStore
    <3> QED
      BY <3>1, <3>3, <3>4 DEF Live
  <2> QED
    BY <1>3, <2>1, <2>2, <2>3, StepKeeps DEF Handled, Holder
<1>4. CASE e # c /\ (Holder(e) \/ thread[e] = "deleted")
  <2> DEFINE dir == IF Holder(e) THEN held[e].directory ELSE reached[e]
  <2>1. dir \in Manager /\ (Holder(e) => thread[e] # "deleted")
    BY <1>1, <1>2, <1>4 DEF Holder, ReachInv
  <2>2. CASE thread'[c] = "opened"
    <3>1. method[c] = "open" /\ ~Ends(c)
      BY <2>2 DEF Moves, Ends
    <3>2. thread[e] = "opened" /\ Live(held[e])
      BY <1>4, <3>1, ApartOpens
    <3>3. held[e] \in Store /\ held[e].opening # 0
      BY <1>1, <1>2, <3>2 DEF ThreadInv
    <3>4. opened'[held[e].directory] = held[e].opening
      BY <3>1, <3>2, <3>3, StaysLive
    <3> QED
      BY <1>4, <3>2, <3>4, StepKeeps DEF Handled
  <2>3. CASE thread'[c] # "opened"
    <3>1. opened'[dir] \in {0, opened[dir]}
      BY <1>1, <2>1, <2>3 DEF AndroidActs
    <3>2. CASE Holder(e)
      <4>1. dir = held[e].directory /\ held'[e] = held[e]
        BY <1>4, <3>2, StepKeeps
      <4>2. opened[dir] \in {0, held[e].opening} /\ thread'[e] # "deleted"
        BY <1>1, <1>4, <2>1, <3>2, <4>1, StepKeeps DEF Handled
      <4> QED
        BY <3>1, <4>1, <4>2 DEF Handled
    <3>3. CASE ~Holder(e)
      <4>1. thread[e] = "deleted" /\ reached'[e] = reached[e]
            /\ thread'[e] = thread[e] /\ dir = reached[e]
        BY <1>4, <3>3, StepKeeps
      <4>2. opened[dir] = 0
        BY <1>1, <4>1 DEF Handled
      <4> QED
        BY <3>1, <4>1, <4>2 DEF Handled, Holder
    <3> QED
      BY <3>2, <3>3
  <2> QED
    BY <2>2, <2>3
<1>5. CASE e # c /\ ~Holder(e) /\ thread[e] # "deleted"
  BY <1>5, StepKeeps DEF Handled, Holder
<1> QED
  BY <1>3, <1>4, <1>5

\* What is tidy has been so before.
LEMMA TidyBefore ==
  ASSUME NEW c \in Call, StoreStep(c), platform = "android", Tidy'
  PROVE  Tidy
<1> USE DEF StoreStep
<1>1. ThreadInv /\ ReachInv /\ MapActs(c) /\ AndroidActs(c)
  BY DEF StoresInv, Acts
<1>2. NeverOverlap
  BY StepKeepsEnds DEF Tidy
<1>3. ASSUME NEW d \in Call, method[d] = "open"
      PROVE  reached[d] \in {0, reached'[d]}
  <2>1. CASE d = c
    BY <1>1, <1>3, <2>1 DEF ThreadInv, AndroidActs
  <2>2. CASE d # c
    BY <2>2, StepKeeps
  <2> QED
    BY <2>1, <2>2
<1>4. \A d, e \in Call : method[d] = "open" /\ method[e] = "open" =>
        reached[d] = 0 \/ reached[e] = 0 \/ reached[d] = reached[e]
  BY <1>3, StepKeeps DEF Tidy
<1>5. ASSUME NEW d \in Call, method[d] = "delete",
             thread[d] \in {"undeleted", "ended"}
      PROVE  reached[d] # 0
  <2>1. CASE d = c
    <3>1. thread[c] = "undeleted" /\ reached[c] = 0
      BY <1>1, <1>5, <2>1, StepKeeps DEF ReachInv
    <3>2. thread'[c] = "ended"
      <4>1. thread' \in [Call -> {"idle", "missed", "found", "opened",
                                  "removed", "deleted", "undeleted", "ended"}]
        BY DEF NativeTypeOK
      <4>2. thread'[c] \notin {"idle", "missed", "opened"}
        BY <1>5, <2>1, StepKeeps DEF Moves
      <4> QED
        BY <1>1, <3>1, <4>1, <4>2 DEF AndroidActs
    <3>3. reached'[c] = 0
      BY <1>1, <1>5, <2>1, <3>1, <3>2 DEF AndroidActs
    <3> QED
      BY <1>5, <2>1, <3>2, <3>3, StepKeeps DEF Tidy
  <2>2. CASE d # c
    BY <1>5, <2>2, StepKeeps DEF Tidy
  <2> QED
    BY <2>1, <2>2
<1> QED
  BY <1>2, <1>4, <1>5 DEF Tidy

\* An open instance is in the map, or in the hands of who puts or ends it.
Kept(m) ==
  LET s == [directory |-> m, opening |-> opened[m]]
  IN stores = s \/ \E d \in Call : Holder(d) /\ held[d] = s

LEMMA CallOrphan ==
  ASSUME NEW c \in Call, StoreStep(c), platform = "android"
  PROVE  OrphanInv'
<1> USE DEF StoreStep
<1>1. /\ ThreadInv /\ LiveInv /\ ReachInv /\ OrphanInv
      /\ MapActs(c) /\ LibraryActs(c) /\ AndroidActs(c)
  BY DEF StoresInv, Acts
<1>2. /\ \A d \in Call : thread[d] \in {"opened", "found", "removed"} =>
           held[d] \in Store /\ held[d].directory \in Manager
      /\ stores \in Store \cup {NoStore}
      /\ opened' \in [Manager -> Nat]
  BY DEF CallsFit, CallFits, TypeOK, NativeTypeOK, Store
<1>3. NeverOverlap' => \A e \in Call : Handled(e)'
  BY StepKeepsEnds, CallHandled
<1>4. ASSUME Tidy', NEW m \in Manager, opened'[m] # 0
      PROVE  Kept(m)'
  <2> DEFINE s == [directory |-> m, opening |-> opened'[m]]
  <2>1. /\ Tidy /\ NeverOverlap
        /\ \A d \in Call :
             method[d] = "delete" /\ thread'[d] \in {"undeleted", "ended"} =>
               reached'[d] # 0
    BY <1>4, TidyBefore, StepKeeps DEF Tidy
  <2>2. s \in Store /\ s # NoStore
        /\ \A t \in Store : t.directory = m /\ t.opening = opened'[m] => t = s
    BY <1>2, <1>4 DEF Store, NoStore
  <2> HIDE DEF s
  <2> SUFFICES stores' = s \/ \E d \in Call : Holder(d)' /\ held'[d] = s
    BY DEF Kept, s
  <2>3. CASE opened'[m] # opened[m]
    <3>1. thread'[c] = "opened" /\ m = reached'[c]
      BY <1>1, <1>4, <2>3 DEF AndroidActs
    <3>2. /\ held'[c].directory = m /\ held'[c].opening = opened'[m]
          /\ held'[c] \in Store
      BY <1>1, <3>1 DEF LibraryActs, Moves
    <3> QED
      BY <2>2, <3>1, <3>2 DEF Holder
  <2>4. CASE opened'[m] = opened[m] /\ stores = s
    <3>1. CASE stores' = stores
      BY <2>4, <3>1
    <3>2. CASE thread'[c] = "removed"
      <4>1. held'[c] = stores
        BY <3>2 DEF Moves
      <4> QED
        BY <2>4, <3>2, <4>1 DEF Holder
    <3>3. CASE thread[c] = "opened"
      <4>1. method[c] = "open" /\ stores' = held[c] /\ held[c] \in Store
        BY <1>1, <1>2, <3>3 DEF MapActs, CallsFit, CallFits
      <4>2. OpenReached(held[c].directory) /\ OpenReached(m)
        BY <1>1, <1>4, <2>4, <3>3 DEF ReachInv
      <4>3. held[c].directory = m
        <5>1. held[c].directory # 0 /\ m # 0
          BY <1>2, <3>3, ManagerAssumption
        <5> QED
          BY <2>1, <4>2, <5>1 DEF Tidy, OpenReached
      <4>4. Quiet(c, c) /\ Unacted(c)
        BY <2>1, <4>1, ApartQuiet, StepKeeps DEF Unacted, Ends
      <4>5. held[c].opening = opened'[m]
        BY <1>1, <2>4, <3>3, <4>3, <4>4 DEF LiveInv, Live
      <4> QED
        BY <2>2, <4>1, <4>3, <4>5
    <3>4. CASE thread[c] = "deleted"
      <4>1. OpenReached(reached[c]) /\ OpenReached(m) /\ reached[c] # 0
        BY <1>1, <1>4, <2>4, <3>4 DEF ReachInv
      <4>2. reached[c] = m
        <5>1. m # 0
          BY ManagerAssumption
        <5> QED
          BY <2>1, <4>1, <5>1 DEF Tidy, OpenReached
      <4>3. opened[m] = 0
        BY <1>1, <2>1, <3>4, <4>2 DEF OrphanInv
      <4> QED
        BY <1>4, <2>4, <4>3
    <3>5. CASE thread[c] = "undeleted"
      <4>1. method[c] = "delete" /\ reached[c] = 0
        BY <1>1, <3>5 DEF ThreadInv, ReachInv
      <4> QED
        BY <2>1, <3>5, <4>1 DEF Tidy
    <3> QED
      BY <1>1, <3>1, <3>2, <3>3, <3>4, <3>5 DEF AndroidActs
  <2>5. ASSUME opened'[m] = opened[m],
               NEW d \in Call, Holder(d), held[d] = s
        PROVE  stores' = s \/ (Holder(d)' /\ held'[d] = s)
    <3>1. CASE d # c
      BY <2>5, <3>1, StepKeeps DEF Holder
    <3>2. CASE d = c /\ thread[c] = "opened"
      BY <1>1, <2>5, <3>2 DEF MapActs
    <3>3. CASE d = c /\ (thread[c] = "removed" \/ thread'[c] = "deleted")
      <4>1. Live(held[c]) /\ held[c].directory = m
        BY <2>2, <2>5, <3>3 DEF Live, s
      <4>2. opened'[m] = 0
        BY <1>1, <3>3, <4>1 DEF AndroidActs
      <4> QED
        BY <1>4, <4>2
    <3>4. CASE d = c /\ thread[c] = "found" /\ thread'[c] # "deleted"
      <4>1. method[c] = "delete" /\ thread'[c] = "undeleted"
        BY <1>1, <2>5, <3>4 DEF Holder, AndroidActs
      <4>2. reached'[c] = 0
        BY <1>1, <3>4, <4>1 DEF ReachInv, AndroidActs
      <4> QED
        BY <2>1, <4>1, <4>2
    <3> QED
      BY <2>5, <3>1, <3>2, <3>3, <3>4 DEF Holder
  <2>6. CASE opened'[m] = opened[m]
    <3>1. stores = s \/ \E d \in Call : Holder(d) /\ held[d] = s
      BY <1>1, <1>4, <2>1, <2>6 DEF OrphanInv, s
    <3> QED
      BY <2>4, <2>5, <2>6, <3>1
  <2> QED
    BY <2>3, <2>6
<1> QED
  BY <1>3, <1>4 DEF OrphanInv, Handled, Kept

LEMMA CallStores ==
  ASSUME NEW c \in Call, StoreStep(c)
  PROVE  StoresInv'
<1>1. platform' = platform
  BY StepKeeps
<1> QED
  BY <1>1, CallThread, CallLive, CallFound, CallMap, CallEnd, CallClose,
     CallReach, CallOrphan DEF StoresInv

-----------------------------------------------------------------------------
(* Other steps keep StoresInv *)

\* What StoresInv depends on.
storeVars == <<method, promise, result, before, thread, held, stores, opened,
               disk, reached, platform>>

LEMMA OtherStores ==
  ASSUME TypeOK, StoresInv, UNCHANGED storeVars
  PROVE  StoresInv'
<1> USE DEF storeVars
<1>1. /\ \A d \in Call : Ends(d)' <=> Ends(d)
      /\ \A d \in Call : Wakes(d)' <=> Wakes(d)
      /\ \A d \in Call : Stored(d)' <=> Stored(d)
      /\ \A d \in Call : Unacted(d)' <=> Unacted(d)
      /\ \A d \in Call : Holder(d)' <=> Holder(d)
  BY DEF Ends, Wakes, Stored, Unacted, Holder
<1>2. /\ \A d, x \in Call : Quiet(d, x)' <=> Quiet(d, x)
      /\ \A d, x \in Call : Undisturbed(d, x)' <=> Undisturbed(d, x)
      /\ NeverOverlap' <=> NeverOverlap
  BY <1>1 DEF Quiet, Undisturbed, NeverOverlap, Overlap
<1>3. ThreadInv' /\ EndInv' /\ MapInv'
  BY <1>1, <1>2 DEF StoresInv, ThreadInv, EndInv, MapInv, Live
<1>4. LiveInv'
  BY <1>1, <1>2 DEF StoresInv, LiveInv, Live
<1>5. FoundInv'
  <2>1. \A u \in Call : before[u] \subseteq Call
    BY DEF TypeOK, ScriptTypeOK
  <2> QED
    BY <1>2, <2>1 DEF StoresInv, FoundInv, Live, Resolved
<1>6. platform = "android" => CloseInv' /\ ReachInv' /\ OrphanInv'
  BY <1>1, <1>2 DEF StoresInv, CloseInv, ReachInv, OpenReached, OrphanInv,
     Tidy, Stored
<1> QED
  BY <1>3, <1>4, <1>5, <1>6 DEF StoresInv

\* The page makes a call.
LEMMA InvokeStores ==
  ASSUME TypeOK, CallsFit, StoresInv, NEW c \in Call, Invoke(c),
         UNCHANGED <<nativeVars, platform>>
  PROVE  StoresInv'
<1>1. /\ promise[c] = "none" /\ method[c] = "none" /\ thread[c] = "idle"
      /\ result[c] = "none" /\ reached[c] = 0
      /\ \A d \in Call : c \notin before[d]
  BY DEF Invoke, CallsFit, CallFits, Settled
<1>2. /\ UNCHANGED <<result, thread, held, stores, opened, disk, reached,
                     platform>>
      /\ method' = [method EXCEPT ![c] = method'[c]]
      /\ promise' = [promise EXCEPT ![c] = "pending"]
      /\ before' = [before EXCEPT ![c] = {d \in Call : Settled(d)}]
  BY DEF Invoke, nativeVars, libraryVars, TypeOK, ScriptTypeOK
<1>3. /\ \A d \in Call \ {c} :
           /\ method'[d] = method[d] /\ promise'[d] = promise[d]
           /\ before'[d] = before[d]
      /\ promise'[c] = "pending"
      /\ \A d \in Call : before[d] \subseteq Call
  BY <1>2 DEF TypeOK, ScriptTypeOK
<1>4. ~Settled(c) /\ c \notin before'[c]
  BY <1>1, <1>2 DEF Settled, TypeOK, ScriptTypeOK
<1>5. /\ \A d \in Call \ {c} :
           /\ Ends(d)' <=> Ends(d)
           /\ Wakes(d)' <=> Wakes(d)
           /\ Stored(d)' <=> Stored(d)
           /\ Holder(d)' <=> Holder(d)
      /\ ~Ends(c) /\ ~Wakes(c) /\ ~Stored(c) /\ ~Stored(c)' /\ ~Holder(c)
      /\ ~Holder(c)'
  BY <1>1, <1>2, <1>3 DEF Ends, Wakes, Stored, Holder
<1>6. \A x \in Call : Unacted(x)' => Unacted(x)
  BY <1>2, <1>5 DEF Unacted
<1>7. /\ \A d \in Call \ {c}, x \in Call : Quiet(d, x)' => Quiet(d, x)
      /\ NeverOverlap' => NeverOverlap
  BY <1>1, <1>3, <1>5 DEF Quiet, NeverOverlap, Overlap
<1>8. ASSUME NEW o \in Call \ {c}, NEW x \in Call, Undisturbed(o, x)'
      PROVE  Undisturbed(o, x)
  <2>1. Quiet(o, x)
    BY <1>7, <1>8 DEF Undisturbed
  <2>2. ASSUME NEW e \in Call \ {x}, NEW d \in Call,
               Ends(e), method[d] = "open", Overlap(d, e)
        PROVE  platform = "android" /\ d \in before[o]
    <3>1. e # c /\ d # c
      BY <1>1, <1>5, <2>2
    <3>2. Ends(e)' /\ method'[d] = "open" /\ Overlap(d, e)'
      BY <1>3, <1>5, <2>2, <3>1 DEF Overlap
    <3> QED
      BY <1>2, <1>3, <1>8, <3>2 DEF Undisturbed
  <2> QED
    BY <2>1, <2>2 DEF Undisturbed
<1>9. ThreadInv'
  BY <1>1, <1>2, <1>3 DEF StoresInv, ThreadInv
<1>10. LiveInv'
  BY <1>1, <1>2, <1>5, <1>6, <1>7, <1>8 DEF StoresInv, LiveInv, Live
<1>11. FoundInv'
  <2> SUFFICES ASSUME NEW u \in Call, method'[u] \in {"use", "close"}
               PROVE  /\ \A o \in before'[u] :
                           Resolved(o, "open")' /\ Undisturbed(o, u)' =>
                             /\ thread'[u] \in {"found", "removed"} =>
                                  Live(held[u])'
                             /\ result'[u] # "failed"
                             /\ promise'[u] # "rejected"
                      /\ method'[u] = "close" /\ platform' # "android" =>
                           result'[u] # "failed" /\ promise'[u] # "rejected"
    BY DEF FoundInv
  <2>1. CASE u = c
    BY <1>1, <1>2, <1>3, <2>1
  <2>2. CASE u # c
    <3>1. FoundInv /\ before'[u] = before[u] /\ before[u] \subseteq Call \ {c}
      BY <1>1, <1>3, <2>2 DEF StoresInv
    <3>2. /\ method[u] = method'[u] /\ promise'[u] = promise[u]
          /\ \A o \in before[u] :
               Resolved(o, "open")' /\ Undisturbed(o, u)' =>
                 Resolved(o, "open") /\ Undisturbed(o, u)
      BY <1>3, <1>8, <2>2, <3>1 DEF Resolved
    <3>3. Live(held[u])' <=> Live(held[u])
      BY <1>2 DEF Live
    <3> QED
      BY <1>2, <3>1, <3>2, <3>3 DEF FoundInv
  <2> QED
    BY <2>1, <2>2
<1>12. MapInv'
  BY <1>2, <1>7 DEF StoresInv, MapInv, Live
<1>13. EndInv'
  <2> SUFFICES ASSUME NEW e \in Call, Ends(e)',
                      \A d \in Call : Wakes(d)' => d \in before'[e]
               PROVE  /\ thread[e] \in {"removed", "ended"} =>
                           stores = NoStore
                      /\ method'[e] = "delete" => reached[e] \notin disk
    BY <1>2 DEF EndInv
  <2>1. CASE e = c
    <3>1. 0 \notin disk
      BY ManagerAssumption DEF TypeOK, NativeTypeOK
    <3> QED
      BY <1>1, <2>1, <3>1
  <2>2. CASE e # c
    BY <1>3, <1>5, <2>2 DEF StoresInv, EndInv
  <2> QED
    BY <2>1, <2>2
<1>14. ASSUME platform = "android"
       PROVE  CloseInv' /\ ReachInv' /\ OrphanInv'
  <2>1. /\ CloseInv /\ ReachInv /\ OrphanInv
        /\ \A d \in Call : thread[d] \in {"opened", "found", "removed"} =>
             held[d].directory \in Manager
        /\ stores # NoStore => stores.directory \in Manager
    BY <1>14 DEF StoresInv, CallsFit, CallFits, TypeOK, NativeTypeOK, Store
  <2>2. CloseInv'
    <3>1. Closers' = Closers /\ Openers' = Openers
      BY <1>1, <1>2, <1>3, <1>5 DEF Closers, Openers
    <3> QED
      BY <1>2, <2>1, <3>1 DEF CloseInv, Closers, Openers
  <2>3. \A m : m # 0 /\ OpenReached(m) =>
          \E d \in Call : method'[d] = "open" /\ reached'[d] = m
    BY <1>1, <1>2, <1>3 DEF OpenReached
  <2>4. ReachInv'
    <3>1. \A d \in Call : thread[d] = "deleted" => reached[d] # 0
      BY <2>1 DEF ReachInv
    <3>2. ASSUME NEW d \in Call, method'[d] = "delete"
          PROVE  /\ thread[d] \in {"found", "undeleted"} => reached[d] = 0
                 /\ result[d] # "failed" /\ promise'[d] # "rejected"
      BY <1>1, <1>3, <2>1, <3>2 DEF ReachInv
    <3>3. \A m \in Manager : opened[m] # 0 => OpenReached(m)'
      BY <2>1, <2>3, ManagerAssumption DEF ReachInv, OpenReached
    <3>4. stores # NoStore => OpenReached(stores.directory)'
      BY <1>2, <2>1, <2>3, ManagerAssumption DEF ReachInv, OpenReached
    <3>5. ASSUME NEW d \in Call
          PROVE  /\ thread[d] \in {"opened", "found", "removed"} =>
                      OpenReached(held[d].directory)'
                 /\ thread[d] = "opened" => reached[d] = held[d].directory
                 /\ thread[d] = "deleted" => OpenReached(reached[d])'
      <4>1. thread[d] = "opened" => reached[d] = held[d].directory
        BY <2>1 DEF ReachInv
      <4>2. thread[d] = "deleted" => reached[d] # 0 /\ OpenReached(reached[d])
        BY <2>1 DEF ReachInv
      <4>3. thread[d] \in {"opened", "found", "removed"} =>
              held[d].directory # 0 /\ OpenReached(held[d].directory)
        BY <2>1, ManagerAssumption DEF ReachInv
      <4>4. thread[d] = "deleted" => OpenReached(reached[d])'
        BY <1>2, <2>3, <4>2 DEF OpenReached
      <4>5. thread[d] \in {"opened", "found", "removed"} =>
              OpenReached(held[d].directory)'
        BY <1>2, <2>3, <4>3 DEF OpenReached
      <4> QED
        BY <4>1, <4>4, <4>5
    <3>6. ASSUME NEW d \in Call, method'[d] = "delete"
          PROVE  /\ thread'[d] \in {"found", "undeleted"} => reached'[d] = 0
                 /\ result'[d] # "failed" /\ promise'[d] # "rejected"
      BY <1>2, <3>2, <3>6
    <3>7. ASSUME NEW d \in Call
          PROVE  /\ thread'[d] \in {"opened", "found", "removed"} =>
                      OpenReached(held[d].directory)'
                 /\ thread'[d] = "opened" => reached'[d] = held'[d].directory
                 /\ thread'[d] = "deleted" =>
                      reached'[d] # 0 /\ OpenReached(reached[d])'
      BY <1>2, <3>1, <3>5
    <3> QED
      BY <1>2, <3>3, <3>4, <3>6, <3>7 DEF ReachInv
  <2>5. Tidy' => Tidy
    BY <1>1, <1>2, <1>3, <1>7 DEF Tidy
  <2>6. OrphanInv'
    BY <1>2, <1>5, <1>7, <2>1, <2>5 DEF OrphanInv
  <2> QED
    BY <2>2, <2>4, <2>6
<1> QED
  BY <1>2, <1>9, <1>10, <1>11, <1>12, <1>13, <1>14 DEF StoresInv

\* The page is told an outcome: what that says was so before.
LEMMA SettleStores ==
  ASSUME TypeOK, CallsFit, StoresInv, NEW c \in Call, Settle(c),
         UNCHANGED <<nativeVars, platform>>
  PROVE  StoresInv'
<1>1. /\ promise[c] = "pending" /\ result[c] \in {"ok", "failed"}
      /\ \A d \in Call : c \notin before[d]
  BY DEF Settle, CallsFit, CallFits, Settled, TypeOK, ScriptTypeOK
<1>2. /\ UNCHANGED <<method, before, thread, held, stores, opened, disk,
                     reached, platform>>
      /\ \A d \in Call : before[d] \subseteq Call
  BY DEF Settle, nativeVars, libraryVars, TypeOK, ScriptTypeOK
<1>3. /\ \A d \in Call \ {c} :
           promise'[d] = promise[d] /\ result'[d] = result[d]
      /\ result'[c] = "none"
      /\ promise'[c] = IF result[c] = "ok" THEN "resolved" ELSE "rejected"
  BY DEF Settle, TypeOK, ScriptTypeOK
<1>4. /\ \A d \in Call : Ends(d)' <=> Ends(d)
      /\ \A d \in Call : Wakes(d)' <=> Wakes(d)
      /\ \A d \in Call : Stored(d)' <=> Stored(d)
      /\ \A d \in Call : Unacted(d)' <=> Unacted(d)
      /\ \A d \in Call : Holder(d)' <=> Holder(d)
  BY <1>1, <1>2, <1>3 DEF Ends, Wakes, Stored, Unacted, Holder
<1>5. /\ \A d, x \in Call : Quiet(d, x)' <=> Quiet(d, x)
      /\ \A d, x \in Call : Undisturbed(d, x)' <=> Undisturbed(d, x)
      /\ NeverOverlap' <=> NeverOverlap
  BY <1>2, <1>4 DEF Quiet, Undisturbed, NeverOverlap, Overlap
<1>6. ThreadInv' /\ EndInv' /\ MapInv' /\ LiveInv'
  BY <1>2, <1>4, <1>5 DEF StoresInv, ThreadInv, EndInv, MapInv, LiveInv, Live
<1>7. FoundInv'
  <2>1. \A u \in Call : \A o \in before[u] :
          Resolved(o, "open")' <=> Resolved(o, "open")
    BY <1>1, <1>2, <1>3 DEF Resolved
  <2>2. \A u \in Call :
          result[u] # "failed" /\ promise[u] # "rejected" =>
            result'[u] # "failed" /\ promise'[u] # "rejected"
    BY <1>1, <1>3
  <2>3. \A u \in Call : Live(held[u])' <=> Live(held[u])
    BY <1>2 DEF Live
  <2> QED
    BY <1>2, <1>5, <2>1, <2>2, <2>3 DEF StoresInv, FoundInv
<1>8. ASSUME platform = "android"
      PROVE  CloseInv' /\ ReachInv' /\ OrphanInv'
  <2>1. Closers' = Closers /\ Openers' = Openers
    BY <1>1, <1>2, <1>3, <1>4 DEF Closers, Openers
  <2>2. CloseInv'
    BY <1>2, <1>8, <2>1 DEF StoresInv, CloseInv, Closers, Openers
  <2>3. ReachInv'
    BY <1>1, <1>2, <1>3, <1>8 DEF StoresInv, ReachInv, OpenReached
  <2>4. OrphanInv'
    BY <1>2, <1>4, <1>5, <1>8 DEF StoresInv, OrphanInv, Tidy
  <2> QED
    BY <2>2, <2>3, <2>4
<1> QED
  BY <1>2, <1>6, <1>7, <1>8 DEF StoresInv

LEMMA InitStores == PlatformInit => StoresInv
<1> SUFFICES ASSUME PlatformInit
             PROVE  StoresInv
  OBVIOUS
<1> USE DEF PlatformInit, Init, ScriptInit, NativeInit
<1>1. /\ \A c \in Call :
           /\ method[c] = "none" /\ promise[c] = "none" /\ result[c] = "none"
           /\ thread[c] = "idle" /\ reached[c] = 0 /\ before[c] = {}
      /\ \A m \in Manager : opened[m] = 0
      /\ stores = NoStore
  OBVIOUS
<1>2. \A c \in Call : ~Ends(c) /\ ~Stored(c) /\ ~Holder(c)
  BY <1>1 DEF Ends, Stored, Holder
<1>3. ThreadInv /\ LiveInv /\ FoundInv /\ MapInv /\ EndInv
  BY <1>1, <1>2 DEF ThreadInv, LiveInv, FoundInv, MapInv, EndInv
<1>4. CloseInv
  <2>1. Closers = {} /\ Openers = {}
    BY <1>1, <1>2 DEF Closers, Openers
  <2>2. CloseInv <=> Cardinality(Closers) + (IF stores = NoStore THEN 0 ELSE 1)
                       <= Cardinality(Openers)
    BY DEF CloseInv, Closers, Openers
  <2> QED
    BY <1>1, <2>1, <2>2, FS_EmptySet
<1>5. ReachInv /\ OrphanInv
  BY <1>1, <1>2 DEF ReachInv, OrphanInv
<1> QED
  BY <1>3, <1>4, <1>5 DEF StoresInv

-----------------------------------------------------------------------------
(* What follows from StoresInv *)

\* A call that is settled is over; one that is on its way is not.
LEMMA SettledEnded ==
  ASSUME CallsFit, NEW c \in Call
  PROVE  /\ promise[c] = "resolved" => thread[c] = "ended"
         /\ Holder(c) => promise[c] = "pending"
BY DEF CallsFit, CallFits, Settled, Holder

LEMMA EndsAgree ==
  ASSUME CallsFit, StoresInv
  PROVE  IF platform = "android"
         THEN EndedStaysEnded({"close", "delete"}, {"open"})
         ELSE EndedStaysEnded({"delete"}, {"open", "use"})
<1>1. ASSUME NEW c \in Call, Ends(c), promise[c] = "resolved",
             \A d \in Call : Wakes(d) => d \in before[c]
      PROVE  stores = NoStore /\ (method[c] = "delete" => reached[c] \notin disk)
  BY <1>1, SettledEnded DEF StoresInv, EndInv
<1> QED
  BY <1>1 DEF EndedStaysEnded, Ends, Wakes

LEMMA AndroidAgrees ==
  ASSUME RegistryInv, StoresInv, platform = "android"
  PROVE  Android!StoresAgree
<1> USE DEF RegistryInv
<1>1. CallsFit /\ \A c \in Call : before[c] \subseteq Call
  BY DEF CallsFit, TypeOK, ScriptTypeOK
<1>2. /\ \A e \in Call : Android!Ends(e) <=> Ends(e)
      /\ \A c, k : Android!Resolved(c, k) <=> Resolved(c, k)
      /\ \A d, e : Android!Overlap(d, e) <=> Overlap(d, e)
      /\ Android!NoStore = NoStore
      /\ \A s : Android!Live(s) <=> Live(s)
  BY DEF Android!Ends, Ends, Android!Resolved, Resolved, Android!Overlap,
     Overlap, Android!NoStore, NoStore, Android!Live, Live
<1>3. ASSUME NEW o \in Call, NEW x \in Call, method[o] = "open",
             \A e \in Call \ {x} : ~(Android!Ends(e) /\ Android!Disturbed(o, e))
      PROVE  Undisturbed(o, x)
  BY <1>2, <1>3 DEF Undisturbed, Quiet, Android!Disturbed
<1>4. Android!OpenedLives
  <2> SUFFICES ASSUME NEW o \in Call, Resolved(o, "open"),
                      \A e \in Call :
                        ~(Android!Ends(e) /\ Android!Disturbed(o, e))
               PROVE  Live(stores)
    BY <1>2 DEF Android!OpenedLives
  <2>1. Stored(o) /\ Unacted(o)
    BY DEF Resolved, Stored, Unacted, Ends
  <2>2. Undisturbed(o, o)
    BY <1>3 DEF Resolved
  <2> QED
    BY <2>1, <2>2 DEF StoresInv, LiveInv
<1>5. Android!RefusedOnlyEnded
  <2> SUFFICES ASSUME NEW c \in Call, NEW o \in Call,
                      method[c] \in {"use", "close"},
                      promise[c] = "rejected", o \in before[c],
                      Resolved(o, "open"),
                      \A e \in Call \ {c} :
                        ~(Android!Ends(e) /\ Android!Disturbed(o, e))
               PROVE  FALSE
    BY <1>2 DEF Android!RefusedOnlyEnded
  <2>1. Undisturbed(o, c)
    BY <1>3 DEF Resolved
  <2> QED
    BY <2>1 DEF StoresInv, FoundInv
<1>6. Android!EndedStaysEnded({"close", "delete"}, {"open"})
  BY <1>1, <1>2, EndsAgree DEF Android!EndedStaysEnded, EndedStaysEnded
<1>7. Android!CloseOnce
  <2>1. Cardinality(Closers) + (IF stores = NoStore THEN 0 ELSE 1)
          <= Cardinality(Openers)
    BY DEF StoresInv, CloseInv, Closers, Openers
  <2> DEFINE Closed == {c \in Call : Android!Resolved(c, "close")}
             Opens == {c \in Call : method[c] = "open"}
  <2>2. /\ Closers \in SUBSET Call /\ Opens \in SUBSET Call
        /\ Closed \subseteq Closers /\ Openers \subseteq Opens
    BY <1>2 DEF Closers, Openers, Resolved, Stored
  <2> HIDE DEF Closed, Opens
  <2>3. /\ IsFiniteSet(Closers) /\ IsFiniteSet(Opens)
    BY <2>2, CallAssumption, FS_Subset
  <2>4. /\ Cardinality(Closed) <= Cardinality(Closers)
        /\ Cardinality(Openers) <= Cardinality(Opens)
        /\ IsFiniteSet(Closed) /\ IsFiniteSet(Openers)
    BY <2>2, <2>3, FS_Subset
  <2>5. /\ Cardinality(Closed) \in Nat /\ Cardinality(Closers) \in Nat
        /\ Cardinality(Opens) \in Nat /\ Cardinality(Openers) \in Nat
    BY <2>3, <2>4, FS_CardinalityType
  <2>6. Cardinality(Closed) <= Cardinality(Opens)
    BY <2>1, <2>4, <2>5
  <2> QED
    BY <2>6 DEF Android!CloseOnce, Closed, Opens, Android!Cardinality,
       Cardinality
<1>8. Android!NoOrphan
  <2> SUFFICES ASSUME ~Android!Pending, NEW m \in Manager, opened[m] # 0,
                      ~ \E c, d \in Call : method[c] = "open" /\
                          \/ method[d] = "open" /\ reached[d] # reached[c]
                          \/ Ends(d) /\ Overlap(c, d)
                          \/ Resolved(d, "delete") /\ reached[d] = 0
               PROVE  stores = [directory |-> m, opening |-> opened[m]]
    BY <1>2 DEF Android!NoOrphan
  <2>1. \A c \in Call : promise[c] # "pending"
    BY DEF Android!Pending
  <2>2. ReachInv /\ OrphanInv
    BY DEF StoresInv
  <2>3. PICK c \in Call : method[c] = "open"
    BY <2>2 DEF ReachInv, OpenReached
  <2>4. ASSUME NEW d \in Call, method[d] = "delete"
        PROVE  reached[d] # 0
    <3>1. promise[d] = "resolved"
      BY <1>1, <2>1, <2>2, <2>4
      DEF ReachInv, CallsFit, CallFits, TypeOK, ScriptTypeOK
    <3> QED
      BY <2>3, <2>4, <3>1 DEF Resolved
  <2>5. Tidy
    BY <2>4 DEF Tidy, NeverOverlap
  <2>6. \A d \in Call : ~Holder(d)
    BY <1>1, <2>1, SettledEnded
  <2> QED
    BY <2>2, <2>5, <2>6 DEF OrphanInv
<1> QED
  BY <1>4, <1>5, <1>6, <1>7, <1>8 DEF Android!StoresAgree

LEMMA IOSAgrees ==
  ASSUME RegistryInv, StoresInv, platform # "android"
  PROVE  IOS!StoresAgree
<1> USE DEF RegistryInv
<1>1. CallsFit
  BY DEF CallsFit
<1>2. /\ \A e \in Call : Ends(e) <=> method[e] = "delete"
      /\ \A c, k : IOS!Resolved(c, k) <=> Resolved(c, k)
      /\ \A d, e : IOS!Overlap(d, e) <=> Overlap(d, e)
      /\ IOS!NoStore = NoStore
      /\ \A s : IOS!Live(s) <=> Live(s)
  BY DEF Ends, IOS!Resolved, Resolved, IOS!Overlap, Overlap, IOS!NoStore,
     NoStore, IOS!Live, Live
<1>3. ASSUME NEW o \in Call, NEW x \in Call,
             \A e \in Call : ~(method[e] = "delete" /\ IOS!Disturbed(o, e))
      PROVE  Undisturbed(o, x)
  BY <1>2, <1>3 DEF Undisturbed, Quiet, IOS!Disturbed
<1>4. IOS!OpenedLives
  <2> SUFFICES ASSUME NEW o \in Call, Resolved(o, "open"),
                      \A e \in Call :
                        ~(method[e] = "delete" /\ IOS!Disturbed(o, e))
               PROVE  Live(stores)
    BY <1>2 DEF IOS!OpenedLives
  <2>1. Stored(o) /\ Unacted(o)
    BY <1>2 DEF Resolved, Stored, Unacted
  <2> QED
    BY <1>3, <2>1 DEF StoresInv, LiveInv
<1>5. IOS!RefusedOnlyEnded
  <2> SUFFICES ASSUME NEW c \in Call, NEW o \in Call,
                      method[c] \in {"use", "close"},
                      promise[c] = "rejected", o \in before[c],
                      Resolved(o, "open")
               PROVE  /\ method[c] = "use"
                      /\ \E e \in Call :
                           method[e] = "delete" /\ IOS!Disturbed(o, e)
    BY <1>2 DEF IOS!RefusedOnlyEnded
  <2>1. FoundInv
    BY DEF StoresInv
  <2>2. ~Undisturbed(o, c)
    BY <2>1 DEF FoundInv
  <2> QED
    BY <1>3, <2>1, <2>2 DEF FoundInv
<1>6. IOS!EndedStaysEnded({"delete"}, {"open", "use"})
  BY <1>1, <1>2, EndsAgree DEF IOS!EndedStaysEnded, EndedStaysEnded
<1> QED
  BY <1>4, <1>5, <1>6 DEF IOS!StoresAgree

-----------------------------------------------------------------------------
(* The invariant behind StoresAgree *)

LEMMA NextStores ==
  RegistryInv /\ RegistryInv' /\ StoresInv /\ [Next]_vars => StoresInv'
<1> SUFFICES ASSUME RegistryInv, RegistryInv', StoresInv, [Next]_vars
             PROVE  StoresInv'
  OBVIOUS
<1>1. TypeOK /\ NativeTypeOK' /\ CallsFit
  BY DEF RegistryInv, TypeOK, CallsFit
<1>2. ASSUME NEW c \in Call, Moves(c), ThreadInv => Acts(c)
      PROVE  StoresInv'
  BY <1>1, <1>2, CallStores DEF StoreStep, StoresInv
<1>3. CASE ScriptStep /\ UNCHANGED <<nativeVars, platform>>
  <2>1. CASE HandleManager \/ \E m \in Manager : NewManager(m)
    BY <1>1, <1>3, <2>1, OtherStores
    DEF HandleManager, NewManager, nativeVars, libraryVars, storeVars
  <2> QED
    BY <1>1, <1>3, <2>1, InvokeStores, SettleStores DEF ScriptStep, Handle
<1>4. CASE platform = "android" /\ Android!NativeStep /\ UNCHANGED platform
  <2>1. CASE \E m \in Manager : Android!CountPaths(m) \/ Android!PutPath(m)
    BY <1>1, <1>4, <2>1, OtherStores
    DEF Android!CountPaths, Android!PutPath, Android!pageVars,
        Android!libraryVars, storeVars
  <2> QED
    BY <1>2, <1>4, <2>1, AndroidCallStep DEF Android!NativeStep
<1>5. CASE platform = "ios" /\ IOS!NativeStep /\ UNCHANGED platform
  <2>1. CASE \E m \in Manager :
               IOS!NoManager(m) \/ IOS!CountManagers(m) \/ IOS!SetManager(m)
    BY <1>1, <1>5, <2>1, OtherStores
    DEF IOS!NoManager, IOS!CountManagers, IOS!SetManager, IOS!pageVars,
        IOS!libraryVars, storeVars
  <2> QED
    BY <1>2, <1>5, <2>1, IOSCallStep DEF IOS!NativeStep
<1>6. CASE UNCHANGED vars
  BY <1>1, <1>6, OtherStores
  DEF vars, scriptVars, pageVars, nativeVars, libraryVars, storeVars
<1> QED
  BY <1>3, <1>4, <1>5, <1>6 DEF Next, NativeStep

LEMMA StoresInvariant == Spec => []StoresInv
  BY InitStores, RegistryInvariant, NextStores, PTL DEF Spec, Safe

\* However opens, uses, closes and deletes of one name overlap: an open that was
\* reported has left an open store behind, and nobody who knows of it is
\* refused the store, unless an end was not over when that open was made or got
\* in the way of a later one; a store that was ended stays ended until somebody
\* opens it again; on Android each close that succeeds has an open of its own,
\* and what the library keeps open can be reached -- but for the overlaps that
\* the properties name.
THEOREM StoresAgreeCorrect == Spec => []StoresAgree
<1>1. RegistryInv /\ StoresInv => StoresAgree
  BY AndroidAgrees, IOSAgrees DEF StoresAgree
<1> QED
  BY <1>1, RegistryInvariant, StoresInvariant, PTL

=============================================================================
