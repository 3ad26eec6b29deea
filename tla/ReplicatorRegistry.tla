-------------------------- MODULE ReplicatorRegistry --------------------------
(***************************************************************************)
(* A replicator's life on whichever platform the application runs: the     *)
(* same JavaScript half over the native half of Android or of iOS.  The    *)
(* two have `creator`, `thread` and `state` in common; the other native    *)
(* variables belong to one platform and stay as they are on the other.     *)
(***************************************************************************)
EXTENDS ReplicatorCalls

CONSTANT Platforms  \* the platforms to look at

VARIABLES
  platform,                             \* the one the application runs on
  creator, thread, state,               \* of both platforms
  replicators, due,                     \* of Android
  replicatorMap, delegateMap, delegate, news  \* of iOS

androidVars == <<replicators, due>>

iosVars == <<replicatorMap, delegateMap, delegate, news>>

nativeVars == <<creator, thread, state, androidVars, iosVars, platform>>

vars == <<scriptVars, nativeVars>>

Android == INSTANCE ReplicatorRegistryAndroid

IOS == INSTANCE ReplicatorRegistryIOS

\* Each variable has its type, on the platform that has it.
TypeOK == IF platform = "android" THEN Android!TypeOK ELSE IOS!TypeOK

PlatformInit == Android!Init /\ IOS!Init /\ platform \in Platforms

AndroidStep ==
  platform = "android" /\ Android!NativeStep /\ UNCHANGED <<iosVars, platform>>

IOSStep ==
  platform = "ios" /\ IOS!NativeStep /\ UNCHANGED <<androidVars, platform>>

Next == (ScriptStep /\ UNCHANGED nativeVars) \/ AndroidStep \/ IOSStep

Safe == PlatformInit /\ [][Next]_vars

\* As on each platform by itself: something is done while there is something
\* to do; what the application does is not fair.
Fairness ==
  WF_vars((Handle /\ UNCHANGED nativeVars) \/ AndroidStep \/ IOSStep)

Spec == Safe /\ Fairness

-----------------------------------------------------------------------------
(* Properties *)

\* The outcomes of overlapping calls make sense together; see the modules of
\* the platforms.
OutcomesAgree ==
  IF platform = "android" THEN Android!OutcomesAgree ELSE IOS!OutcomesAgree

\* Every replication is reported to the page on Android, one that goes on
\* after its replicator was destroyed included (SyncPluginListener).
EveryRunReported == []<>(platform = "android" => Android!RunsReported)

\* An application that had registered its handlers hears how the replication
\* ended: on Android always, on iOS as long as nobody calls destroy.
OutcomeIsHeard ==
  []<>(IF platform = "android" THEN Android!OutcomeHeard ELSE IOS!OutcomeHeard)

\* "All 'complete' event handlers are executed when replication state reaches
\* 'Completed' or 'Stopped'" (www/replicator.js), also when a stop comes first.
StopIsHeard == []<>(platform = "ios" => IOS!StopHeard)

-----------------------------------------------------------------------------
(* The inductive invariant behind TypeOK, OutcomesAgree and EventsAskedFor *)

\* Whether native code finds the replicator under its token.
InMap == IF platform = "android" THEN replicators ELSE replicatorMap

Succeeded(c) ==
  promise[c] = "resolved" \/ result[c] \notin {"none", "failed"}

Failed(c) == promise[c] = "rejected" \/ result[c] = "failed"

Destroyed == \E d \in Call : method[d] = "destroy" /\ Succeeded(d)

\* A call is on its way to native code, in a thread there, on its way back, or
\* over; it knows of no calls but those that were settled.
CallFits(c) ==
  /\ promise[c] = "none" =>
       /\ method[c] = "none" /\ status[c] = "none"
       /\ c \notin execs /\ thread[c] = "idle" /\ result[c] = "none"
       /\ before[c] = {}
  /\ promise[c] # "none" => method[c] \in Method /\ creation = "resolved"
  /\ c \in execs => promise[c] = "pending" /\ thread[c] = "idle"
  /\ thread[c] = "idle" => result[c] = "none" /\ ~Settled(c)
  /\ thread[c] \in {"found", "halfway"} =>
       promise[c] = "pending" /\ result[c] = "none"
  /\ result[c] # "none" => promise[c] = "pending"
  /\ \A d \in before[c] : Settled(d)

\* Until the replicator is there nothing happens to it; its creation is the
\* first thing the callback of createReplicator hears of.
CreationFits ==
  /\ creation = "none" => creator = "queued"
  /\ creator = "queued" => created = <<>> /\ creation \in {"none", "pending"}
  /\ creator = "ended" /\ creation = "pending" =>
       \/ created = <<"ok">> /\ InMap
       \/ created = <<"failed">>
  /\ creation \in {"resolved", "rejected"} =>
       \A i \in 1..Len(created) : created[i] \in Event
  /\ creation = "resolved" => InMap \/ Destroyed
  /\ creation # "resolved" => state = "Pending"

\* A destroy that was done has emptied the map, for whoever comes later.
DestroyFits ==
  \A d \in Call : method[d] = "destroy" /\ Succeeded(d) =>
    /\ ~InMap
    /\ \A c \in Call : d \in before[c] =>
         thread[c] \notin {"found", "halfway"} /\ ~Succeeded(c)
    /\ platform = "android" =>
         \A c \in Call : method[c] = "destroy" /\ Succeeded(c) => c = d

\* Who fails has found the map empty, or could not start a second time.
FailureFits ==
  \A c \in Call : Failed(c) =>
    \/ platform # "android" /\ method[c] = "start"
    \/ \E d \in Call \ {c} :
         method[d] = "destroy" /\ Succeeded(d) /\ c \notin before[d]

StartedAfter(d) == \E s \in Call : method[s] = "start" /\ s \notin before[d]

\* A start or stop that was done has left its mark on the state, which nobody
\* who comes later sees otherwise.
StateFits ==
  \A d \in Call : Succeeded(d) =>
    /\ method[d] \in {"start", "stop"} =>
         /\ state # "Pending"
         /\ \A c \in Call : d \in before[c] =>
              "Pending" \notin {status[c], result[c]}
    /\ platform = "android" /\ method[d] = "stop" =>
         /\ state = "Started" => StartedAfter(d)
         /\ \A c \in Call :
              d \in before[c] /\ "Started" \in {status[c], result[c]} =>
                StartedAfter(d)
    /\ platform # "android" =>
         \A c \in Call : method[c] = "start" /\ Succeeded(c) =>
           /\ method[d] = "start" => c = d
           /\ method[d] = "stop" => d \notin before[c]

OutcomesInv ==
  /\ \A c \in Call : CallFits(c)
  /\ CreationFits /\ DestroyFits /\ FailureFits /\ StateFits

Running == IF state \in {"Started", "Stopping"} THEN 1 ELSE 0

\* The events there have been so far.
Posted == Len(heard) + unheard + Cardinality(Events(created))

Asked(m) == {c \in Call : method[c] = m /\ thread[c] = "ended"}

\* On Android each replication begun posts an event when it is over, and a stop
\* of one that was never begun posts one at once.
AndroidEventsFit ==
  /\ Posted + Running = due
  /\ due <= Cardinality(Asked("start"))
              + (IF Asked("stop") # {} THEN 1 ELSE 0)
  /\ state = "Pending" => due = 0

\* On iOS there is one replication and one event, if it is told at all.
IOSEventsFit ==
  LET all == Posted + Running + (IF news = "none" THEN 0 ELSE 1)
  IN /\ all <= 1
     /\ all = 1 => Asked("start") \cup Asked("stop") # {}
     /\ state = "Pending" => all = 0

EventsInv ==
  IF platform = "android" THEN AndroidEventsFit ELSE IOSEventsFit

\* What getState is answered with is a state.
StatesAnswered ==
  \A c \in Call :
    method[c] = "getState" => result[c] \in State \cup {"none", "failed"}

RegistryInv ==
  /\ TypeOK /\ StatesAnswered
  /\ OutcomesInv
  /\ EventsInv

=============================================================================
