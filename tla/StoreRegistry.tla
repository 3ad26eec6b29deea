----------------------------- MODULE StoreRegistry -----------------------------
(***************************************************************************)
(* The plugin's datastores, on whichever platform the application runs:    *)
(* the same JavaScript half over the native half of Android or of iOS.     *)
(***************************************************************************)
EXTENDS StoreMaps

CONSTANT Platforms  \* the platforms to look at

VARIABLE platform   \* the one that the application runs on

Android == INSTANCE StoreRegistryAndroid

IOS == INSTANCE StoreRegistryIOS

vars == <<scriptVars, nativeVars, platform>>

PlatformInit == Init /\ platform \in Platforms

NativeStep ==
  \/ platform = "android" /\ Android!NativeStep /\ UNCHANGED platform
  \/ platform = "ios" /\ IOS!NativeStep /\ UNCHANGED platform

Next == (ScriptStep /\ UNCHANGED <<nativeVars, platform>>) \/ NativeStep

Safe == PlatformInit /\ [][Next]_vars

\* The event loop and the threads do not all rest while there is something to
\* do.  Calls are finitely many and each of these steps uses something up, so
\* this is as good as fairness to each.  What the application does is not fair.
Fairness ==
  WF_vars((Handle /\ UNCHANGED <<nativeVars, platform>>) \/ NativeStep)

Spec == Safe /\ Fairness

-----------------------------------------------------------------------------
(* Properties *)

\* A manager's calls stay in its directory, but for the reasons of the
\* platform; see the modules of the platforms.
StaysInPlace ==
  IF platform = "android" THEN Android!StaysInPlace ELSE IOS!StaysInPlace

\* The outcomes of overlapping calls agree with what had been reported, and
\* the map agrees with the library; see the modules of the platforms.
StoresAgree ==
  IF platform = "android" THEN Android!StoresAgree ELSE IOS!StoresAgree

-----------------------------------------------------------------------------
(* The inductive invariant behind TypeOK and StaysInPlace *)

\* A call is on its way to native code, in a thread there, on its way back, or
\* over; it knows of no calls but those that were settled.
CallFits(c) ==
  /\ promise[c] = "none" =>
       /\ method[c] = "none" /\ c \notin execs /\ thread[c] = "idle"
       /\ result[c] = "none" /\ reached[c] = 0 /\ before[c] = {}
  /\ promise[c] # "none" =>
       method[c] \in Method /\ via[c] \in Manager /\ manager[via[c]] = "resolved"
  /\ c \in execs => promise[c] = "pending" /\ thread[c] = "idle"
  /\ thread[c] = "idle" => result[c] = "none" /\ ~Settled(c)
  /\ thread[c] \notin {"idle", "ended"} =>
       promise[c] = "pending" /\ result[c] = "none"
  /\ result[c] # "none" => promise[c] = "pending"
  /\ \A d \in before[c] : Settled(d)
  /\ thread[c] \in {"missed", "opened"} => method[c] = "open"
  /\ thread[c] \in {"found", "removed", "deleted", "undeleted"} =>
       method[c] # "open"
  /\ thread[c] \in {"found", "removed", "opened"} => held[c] \in Store

\* Where the id of a manager may lead.
PlaceOf(m, dir) == dir = m \/ BornTogether(m, dir)

\* An entry is replaced only by a manager that was born together with those
\* who have its id, or will have it.
PathsInv ==
  /\ \A m \in Manager :
       manager[m] = "resolved" => PlaceOf(m, managers[dsmID[m]])
  /\ \A r \in responses : r.ok => PlaceOf(r.manager, managers[r.id])

\* An open that is over.
Stored(o) ==
  method[o] = "open" /\ (promise[o] = "resolved" \/ result[o] = "ok")

\* A store of the directory was put under the name by an open, which on Android
\* came to an end after those of `calls` that are over had been made.
LastOpened(dir, calls) ==
  \E d \in Call :
    /\ method[d] = "open" /\ PlaceOf(via[d], dir)
    /\ platform = "android" => \A o \in calls : Stored(o) => d \notin before[o]

\* The method that does not ask the map of the open stores.
Direct == IF platform = "android" THEN "open" ELSE "delete"

PlaceFits(c) ==
  /\ thread[c] = "opened" => PlaceOf(via[c], held[c].directory)
  /\ thread[c] \in {"found", "removed"} =>
       method[c] # Direct /\ LastOpened(held[c].directory, before[c])
  /\ reached[c] # 0 =>
       \/ PlaceOf(via[c], reached[c])
       \/ method[c] # Direct /\ LastOpened(reached[c], before[c])

PlaceInv ==
  /\ stores # NoStore => LastOpened(stores.directory, Call)
  /\ \A c \in Call : PlaceFits(c)

RegistryInv ==
  /\ TypeOK
  /\ ManagersInv
  /\ \A c \in Call : CallFits(c)
  /\ PathsInv
  /\ PlaceInv


-----------------------------------------------------------------------------
(* The inductive invariant behind StoresAgree *)

\* The methods that end a store, and those that make or wake one.
Ends(e) == method[e] \in
  IF platform = "android" THEN {"close", "delete"} ELSE {"delete"}

Wakes(d) == method[d] \in
  IF platform = "android" THEN {"open"} ELSE {"open", "use"}

\* Every end but x was over when d was made; nor did it get in the way of the
\* opens that may have put something under the name after o.
Quiet(d, x) == \A e \in Call \ {x} : Ends(e) => e \in before[d]

Undisturbed(o, x) ==
  /\ Quiet(o, x)
  /\ \A e \in Call \ {x}, d \in Call :
       Ends(e) /\ method[d] = "open" /\ Overlap(d, e) =>
         platform = "android" /\ d \in before[o]

\* An end that has done nothing yet may be left out of account.
Unacted(x) == Ends(x) => platform = "android" /\ thread[x] = "idle"

\* No open ever got in the way of an end.
NeverOverlap ==
  \A d, e \in Call : method[d] = "open" /\ Ends(e) => ~Overlap(d, e)

\* A store comes from an opening, what has not begun has got nowhere, and a
\* thread is where its method leads.
ThreadInv ==
  /\ stores # NoStore => stores.opening # 0
  /\ \A c \in Call :
       /\ thread[c] \in {"opened", "found", "removed"} => held[c].opening # 0
       /\ thread[c] = "idle" => reached[c] = 0
       /\ thread[c] = "found" => method[c] \in {"use", "delete"}
       /\ thread[c] = "removed" => method[c] = "close" /\ platform = "android"
       /\ thread[c] \in {"deleted", "undeleted"} => method[c] = "delete"

\* What an open got, or left in the map, is open unless it was disturbed.
LiveInv ==
  \A x \in Call : Unacted(x) =>
    /\ \A d \in Call : thread[d] = "opened" /\ Quiet(d, x) => Live(held[d])
    /\ \A o \in Call : Stored(o) /\ Undisturbed(o, x) => Live(stores)

\* So whoever uses or closes it then finds it open.
FoundInv ==
  \A c \in Call : method[c] \in {"use", "close"} =>
    /\ \A o \in before[c] : Resolved(o, "open") /\ Undisturbed(o, c) =>
         /\ thread[c] \in {"found", "removed"} => Live(held[c])
         /\ result[c] # "failed" /\ promise[c] # "rejected"
    /\ method[c] = "close" /\ platform # "android" =>
         result[c] # "failed" /\ promise[c] # "rejected"

\* If opens and ends keep apart, a store in the map is open, but for the moment
\* between its deletion and its removal.
MapInv ==
  NeverOverlap /\ stores # NoStore =>
    \/ Live(stores)
    \/ /\ \E e \in Call : thread[e] = "deleted"
       /\ platform = "android" => opened[stores.directory] = 0

\* An end that nobody was in the way of has emptied the map, and its files are
\* gone.
EndInv ==
  \A c \in Call : Ends(c) /\ (\A d \in Call : Wakes(d) => d \in before[c]) =>
    /\ thread[c] \in {"removed", "ended"} => stores = NoStore
    /\ method[c] = "delete" => reached[c] \notin disk

\* Android: each close that found a store took it from the map, where an open
\* of its own had put it.
CloseInv ==
  Cardinality({c \in Call : method[c] = "close" /\
      (thread[c] = "removed" \/ result[c] = "ok" \/ promise[c] = "resolved")})
    + (IF stores = NoStore THEN 0 ELSE 1)
    <= Cardinality({o \in Call : Stored(o)})

\* Android: an open reached this directory.
OpenReached(m) == \E c \in Call : method[c] = "open" /\ reached[c] = m

\* Android: opens went to one directory, ends kept apart from them, and no
\* delete went without the store.
Tidy ==
  /\ NeverOverlap
  /\ \A c, d \in Call : method[c] = "open" /\ method[d] = "open" =>
       reached[c] = 0 \/ reached[d] = 0 \/ reached[c] = reached[d]
  /\ \A d \in Call :
       method[d] = "delete" /\ thread[d] \in {"undeleted", "ended"} =>
         reached[d] # 0

\* Android: who is about to put the store in the map, or to end it.
Holder(c) ==
  \/ thread[c] \in {"opened", "removed"}
  \/ thread[c] = "found" /\ method[c] = "delete"

ReachInv ==
  /\ \A m \in Manager : opened[m] # 0 => OpenReached(m)
  /\ stores # NoStore => OpenReached(stores.directory)
  /\ \A c \in Call :
       /\ thread[c] \in {"opened", "found", "removed"} =>
            OpenReached(held[c].directory)
       /\ thread[c] = "opened" => reached[c] = held[c].directory
       /\ thread[c] = "deleted" =>
            reached[c] # 0 /\ OpenReached(reached[c])
       /\ method[c] = "delete" =>
            /\ thread[c] \in {"found", "undeleted"} => reached[c] = 0
            /\ result[c] # "failed" /\ promise[c] # "rejected"

OrphanInv ==
  /\ NeverOverlap => \A e \in Call :
       /\ Holder(e) => opened[held[e].directory] \in {0, held[e].opening}
       /\ thread[e] = "deleted" => opened[reached[e]] = 0
  /\ Tidy => \A m \in Manager : opened[m] # 0 =>
       LET s == [directory |-> m, opening |-> opened[m]]
       IN stores = s \/ \E c \in Call : Holder(c) /\ held[c] = s

StoresInv ==
  /\ ThreadInv /\ LiveInv /\ FoundInv /\ MapInv /\ EndInv
  /\ platform = "android" => CloseInv /\ ReachInv /\ OrphanInv

=============================================================================
