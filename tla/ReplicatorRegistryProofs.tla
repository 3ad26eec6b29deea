----------------------- MODULE ReplicatorRegistryProofs -----------------------
(* Proofs about ReplicatorRegistry, for any number of calls, on either       *)
(* platform.                                                                 *)
EXTENDS ReplicatorRegistry, FiniteSetTheorems, TLAPS

-----------------------------------------------------------------------------
(* Types *)

NativeTypeOK ==
  /\ creator \in {"queued", "ended"}
  /\ thread \in [Call -> {"idle", "found", "halfway", "ended"}]
  /\ state \in State
  /\ IF platform = "android"
     THEN /\ \A c \in Call : thread[c] # "halfway"
          /\ replicators \in BOOLEAN
          /\ due \in Nat
     ELSE /\ replicatorMap \in BOOLEAN
          /\ delegateMap \in BOOLEAN
          /\ delegate \in BOOLEAN
          /\ news \in Event \cup {"none"}

Typed == ScriptTypeOK /\ NativeTypeOK

\* What the platforms have from ReplicatorCalls is what the registry has.
LEMMA SameTypes ==
  /\ Android!ScriptTypeOK <=> ScriptTypeOK
  /\ IOS!ScriptTypeOK <=> ScriptTypeOK
  /\ Android!State = State /\ IOS!State = State
  /\ Android!Event = Event /\ IOS!Event = Event
  /\ Android!Method = Method /\ IOS!Method = Method
<1>1. /\ Android!State = State /\ IOS!State = State
      /\ Android!Event = Event /\ IOS!Event = Event
      /\ Android!Method = Method /\ IOS!Method = Method
  BY DEF State, Event, Method, Android!State, Android!Event, Android!Method,
     IOS!State, IOS!Event, IOS!Method
<1>2. Android!ScriptTypeOK <=> ScriptTypeOK
  BY <1>1 DEF ScriptTypeOK, Android!ScriptTypeOK
<1>3. IOS!ScriptTypeOK <=> ScriptTypeOK
  BY <1>1 DEF ScriptTypeOK, IOS!ScriptTypeOK
<1> QED
  BY <1>1, <1>2, <1>3

\* The two platforms' TypeOK in one.
LEMMA TypedIs == TypeOK <=> Typed
<1>1. (thread \in [Call -> {"idle", "found", "ended"}]) <=>
        /\ thread \in [Call -> {"idle", "found", "halfway", "ended"}]
        /\ \A c \in Call : thread[c] # "halfway"
  OBVIOUS
<1>2. CASE platform = "android"
  BY <1>1, <1>2, SameTypes DEF Typed, NativeTypeOK, TypeOK, Android!TypeOK
<1>3. CASE platform # "android"
  BY <1>3, SameTypes DEF Typed, NativeTypeOK, TypeOK, IOS!TypeOK
<1> QED
  BY <1>2, <1>3

LEMMA TypedIsNext == TypeOK' <=> Typed'
  BY TypedIs, PTL

-----------------------------------------------------------------------------
(* Events on their way to the page, and the calls that asked for them *)

Queue == Seq(Event \cup {"ok", "failed"})

LEMMA EventsFinite ==
  ASSUME NEW q \in Queue
  PROVE  IsFiniteSet(Events(q)) /\ Cardinality(Events(q)) \in Nat
<1>1. Events(q) \in SUBSET (1..Len(q)) /\ Len(q) \in Nat
  BY DEF Events, Queue
<1>2. IsFiniteSet(1..Len(q))
  BY <1>1, FS_Interval
<1>3. IsFiniteSet(Events(q))
  BY <1>1, <1>2, FS_Subset
<1> QED
  BY <1>3, FS_CardinalityType

\* Only an event counts when something is put at the end.
LEMMA EventsAppend ==
  ASSUME NEW q \in Queue, NEW r \in Event \cup {"ok", "failed"}
  PROVE  Cardinality(Events(Append(q, r))) =
           Cardinality(Events(q)) + (IF r \in Event THEN 1 ELSE 0)
<1>1. Len(q) \in Nat /\ Len(q) + 1 \notin Events(q)
  BY DEF Events, Queue
<1>2. IsFiniteSet(Events(q)) /\ Cardinality(Events(q)) \in Nat
  BY EventsFinite
<1>3. CASE r \in Event
  <2>1. Events(Append(q, r)) = Events(q) \cup {Len(q) + 1}
    BY <1>3 DEF Events, Queue
  <2> QED
    BY <1>1, <1>2, <1>3, <2>1, FS_AddElement
<1>4. CASE r \notin Event
  <2>1. Events(Append(q, r)) = Events(q)
    BY <1>4 DEF Events, Queue
  <2> QED
    BY <1>2, <1>4, <2>1
<1> QED
  BY <1>3, <1>4

\* A queue of nothing but events has as many as it is long.
LEMMA EventsAll ==
  ASSUME NEW q \in Queue, \A i \in 1..Len(q) : q[i] \in Event
  PROVE  Cardinality(Events(q)) = Len(q)
<1>1. Len(q) \in Nat
  BY DEF Queue
<1>2. Events(q) = 1..Len(q)
  BY DEF Events, Queue
<1>3. Cardinality(1..Len(q)) = Len(q)
  <2>1. 1 \in Int /\ Len(q) \in Int
    BY <1>1
  <2>2. Cardinality(1..Len(q)) = IF 1 > Len(q) THEN 0 ELSE Len(q) - 1 + 1
    BY <2>1, FS_Interval, Zenon
  <2> QED
    BY <1>1, <2>2
<1> QED
  BY <1>2, <1>3

LEMMA EventsNone ==
  ASSUME NEW q \in {<<>>, <<"ok">>, <<"failed">>}
  PROVE  Cardinality(Events(q)) = 0
<1>1. Events(q) = {}
  BY DEF Events, Event
<1> QED
  BY <1>1, FS_EmptySet

LEMMA CallsFinite ==
  ASSUME NEW S \in SUBSET Call
  PROVE  IsFiniteSet(S) /\ Cardinality(S) \in Nat
  BY CallAssumption, FS_Subset, FS_CardinalityType

LEMMA PostedType ==
  ASSUME Typed
  PROVE  Posted \in Nat
<1>1. created \in Queue /\ Len(heard) \in Nat /\ unheard \in Nat
  BY DEF Typed, ScriptTypeOK, Queue
<1> QED
  BY <1>1, EventsFinite DEF Posted

LEMMA PostedAppend ==
  ASSUME Typed, UNCHANGED <<heard, unheard>>,
         NEW e \in Event, created' = Append(created, e)
  PROVE  Posted' = Posted + 1
<1>1. created \in Queue /\ Len(heard) \in Nat /\ unheard \in Nat
  BY DEF Typed, ScriptTypeOK, Queue
<1>2. /\ Cardinality(Events(created')) = Cardinality(Events(created)) + 1
      /\ Cardinality(Events(created)) \in Nat
  BY <1>1, EventsAppend, EventsFinite
<1> QED
  BY <1>1, <1>2 DEF Posted

-----------------------------------------------------------------------------
(* What steps do to calls and to the replicator *)

callVars == <<method, promise, status, execs, thread, result, before>>

\* No call gets any further.
Quiet ==
  /\ UNCHANGED <<callVars, platform>>
  /\ creation = "resolved" => creation' = "resolved" /\ InMap' = InMap
  /\ state' = "Pending" <=> state = "Pending"
  /\ state' = "Started" => state = "Started"

\* The callback of createReplicator is sent at most an event.
CreatedGrows ==
  created' = created \/ \E e \in Event : created' = Append(created, e)

InThread(c) == thread[c] \in {"found", "halfway"}

\* A thread has found the replicator of call c, or is past that.
Picks(c, t) ==
  /\ InThread(c) \/ (c \in execs /\ InMap)
  /\ t \in {"found", "halfway"}
  /\ execs' = execs \ {c}
  /\ thread' = [thread EXCEPT ![c] = t]
  /\ UNCHANGED <<pageVars, created, result, creator, state, platform>>
  /\ InMap' = InMap

\* A thread has done call c, or has refused it.
Answers(c, r) ==
  /\ InThread(c) \/ c \in execs
  /\ execs' = execs \ {c}
  /\ thread' = [thread EXCEPT ![c] = "ended"]
  /\ result' = [result EXCEPT ![c] = r]
  /\ r \in State \cup {"ok", "failed"}
  /\ UNCHANGED <<pageVars, creator, platform>>
  /\ CreatedGrows
  /\ state' = "Pending" => state = "Pending"

Refuses(c) ==
  /\ ~InMap \/ (platform # "android" /\ method[c] = "start")
  /\ InMap' = InMap
  /\ UNCHANGED state

\* The platforms differ: only Android knows of one destroy that counts and
\* sees to it that a replication is stopped; only iOS refuses a second start.
Does(c, r) ==
  /\ InThread(c) \/ InMap
  /\ IF method[c] = "destroy"
     THEN ~InMap' /\ (platform = "android" => InMap)
     ELSE InMap' = InMap
  /\ method[c] \in {"start", "stop"} => state' # "Pending"
  /\ IF method[c] = "getState" THEN r \in State
                              ELSE r \notin {"Pending", "Started"}
  /\ r = "Pending" => state = "Pending"
  /\ r = "Started" => state = "Started"
  /\ platform = "android" =>
       /\ method[c] = "stop" => state' # "Started"
       /\ method[c] # "start" /\ state' = "Started" => state = "Started"
  /\ platform # "android" /\ method[c] = "start" => state = "Pending"

CallStep(c) ==
  \/ \E t \in {"found", "halfway"} : Picks(c, t)
  \/ Answers(c, "failed") /\ Refuses(c)
  \/ \E r \in State \cup {"ok"} : Answers(c, r) /\ Does(c, r)

-----------------------------------------------------------------------------
(* OutcomesInv is inductive *)

LEMMA QuietKeeps ==
  ASSUME Typed, OutcomesInv, Quiet
  PROVE  /\ \A c \in Call : CallFits(c)'
         /\ DestroyFits' /\ FailureFits' /\ StateFits'
<1>1. \A c \in Call : /\ Succeeded(c)' <=> Succeeded(c)
                      /\ Failed(c)' <=> Failed(c)
                      /\ Settled(c)' <=> Settled(c)
                      /\ StartedAfter(c)' <=> StartedAfter(c)
  BY DEF Quiet, callVars, Succeeded, Failed, Settled, StartedAfter
<1>2. \A c \in Call : CallFits(c)'
  <2> SUFFICES ASSUME NEW c \in Call PROVE CallFits(c)'
    OBVIOUS
  <2>1. before[c] \subseteq Call /\ CallFits(c) /\ before'[c] = before[c]
    BY DEF OutcomesInv, Typed, ScriptTypeOK, Quiet, callVars
  <2>2. \A d \in before'[c] : Settled(d)'
    BY <1>1, <2>1 DEF CallFits
  <2> QED
    BY <1>1, <2>1, <2>2 DEF Quiet, callVars, CallFits
<1>3. \A c \in Call : Succeeded(c) => creation = "resolved"
  BY DEF OutcomesInv, CallFits, Succeeded, Typed, ScriptTypeOK
<1>4. DestroyFits'
  BY <1>1, <1>3 DEF Quiet, callVars, OutcomesInv, DestroyFits
<1>5. FailureFits'
  BY <1>1 DEF Quiet, callVars, OutcomesInv, FailureFits
<1>6. StateFits'
  BY <1>1 DEF Quiet, callVars, OutcomesInv, StateFits
<1> QED
  BY <1>2, <1>4, <1>5, <1>6

\* A call is made.  It knows of no calls but those that are over.
LEMMA InvokeKeeps ==
  ASSUME Typed, OutcomesInv, NEW c \in Call, Invoke(c),
         UNCHANGED <<creator, thread, state, platform>>, InMap' = InMap
  PROVE  OutcomesInv'
<1> DEFINE D == {d \in Call : Settled(d)}
<1>1. /\ creation = "resolved" /\ promise[c] = "none" /\ CallFits(c)
      /\ promise' = [promise EXCEPT ![c] = "pending"]
      /\ execs' = execs \cup {c}
      /\ before' = [before EXCEPT ![c] = D]
      /\ UNCHANGED <<creation, status, created, result>>
  BY DEF Invoke, OutcomesInv
<1>2. PICK m \in Method : method' = [method EXCEPT ![c] = m]
  BY DEF Invoke
<1> USE DEF Typed, ScriptTypeOK
<1>3. method[c] = "none" /\ thread[c] = "idle" /\ result[c] = "none"
  BY <1>1 DEF CallFits
<1>4. /\ method'[c] = m /\ promise'[c] = "pending" /\ before'[c] = D
      /\ \A d \in Call \ {c} : /\ method'[d] = method[d]
                               /\ promise'[d] = promise[d]
                               /\ before'[d] = before[d]
  BY <1>1, <1>2
<1>5. \A d \in Call : /\ Succeeded(d)' <=> Succeeded(d)
                      /\ Failed(d)' <=> Failed(d)
                      /\ Settled(d)' <=> Settled(d)
  BY <1>1, <1>3, <1>4 DEF Succeeded, Failed, Settled
<1>6. ~Succeeded(c) /\ ~Failed(c) /\ ~Settled(c)
  BY <1>1, <1>3 DEF Succeeded, Failed, Settled
<1>7. \A d \in Call \ {c} : StartedAfter(d) => StartedAfter(d)'
  BY <1>3, <1>4 DEF StartedAfter, Method
<1>8. ASSUME NEW d \in Call PROVE CallFits(d)'
  <2>1. CallFits(d) /\ before[d] \subseteq Call
    BY DEF OutcomesInv
  <2>2. \A e \in before'[d] : Settled(e)'
    BY <1>4, <1>5, <2>1 DEF CallFits
  <2>3. CASE d = c
    BY <1>1, <1>3, <1>4, <1>5, <1>6, <2>2, <2>3 DEF CallFits, Method
  <2>4. CASE d # c
    BY <1>1, <1>4, <1>5, <2>1, <2>2, <2>4 DEF CallFits
  <2> QED
    BY <2>3, <2>4
<1>9. Destroyed => Destroyed'
  BY <1>4, <1>5, <1>6 DEF Destroyed
<1>10. CreationFits'
  BY <1>1, <1>9 DEF OutcomesInv, CreationFits
<1>11. DestroyFits'
  BY <1>1, <1>3, <1>4, <1>5, <1>6 DEF OutcomesInv, DestroyFits
<1>12. FailureFits'
  BY <1>3, <1>4, <1>5, <1>6 DEF OutcomesInv, FailureFits
<1>13. StateFits'
  <2> SUFFICES ASSUME NEW d \in Call, Succeeded(d)'
               PROVE  /\ method'[d] \in {"start", "stop"} =>
                           /\ state' # "Pending"
                           /\ \A e \in Call : d \in before'[e] =>
                                "Pending" \notin {status'[e], result'[e]}
                      /\ platform' = "android" /\ method'[d] = "stop" =>
                           /\ state' = "Started" => StartedAfter(d)'
                           /\ \A e \in Call :
                                d \in before'[e]
                                  /\ "Started" \in {status'[e], result'[e]} =>
                                  StartedAfter(d)'
                      /\ platform' # "android" =>
                           \A e \in Call :
                             method'[e] = "start" /\ Succeeded(e)' =>
                               /\ method'[d] = "start" => d = e
                               /\ method'[d] = "stop" => d \notin before'[e]
    BY DEF StateFits
  <2>1. d # c /\ Succeeded(d)
    BY <1>5, <1>6
  <2>2. status[c] = "none"
    BY <1>1 DEF CallFits
  <2> QED
    BY <1>1, <1>3, <1>4, <1>5, <1>6, <1>7, <2>1, <2>2 DEF OutcomesInv, StateFits
<1> QED
  BY <1>8, <1>10, <1>11, <1>12, <1>13 DEF OutcomesInv

\* The result of a call reaches its promise.
LEMMA SettleKeeps ==
  ASSUME Typed, OutcomesInv, NEW c \in Call, Settle(c),
         UNCHANGED <<creator, thread, state, platform>>, InMap' = InMap
  PROVE  OutcomesInv'
<1> USE DEF Typed, ScriptTypeOK
<1>1. /\ result[c] # "none" /\ CallFits(c)
      /\ result' = [result EXCEPT ![c] = "none"]
      /\ promise' = [promise EXCEPT
           ![c] = IF result[c] = "failed" THEN "rejected" ELSE "resolved"]
      /\ UNCHANGED <<creation, method, execs, created, before>>
  BY DEF Settle, OutcomesInv
<1>2. /\ result'[c] = "none"
      /\ promise'[c] = IF result[c] = "failed" THEN "rejected" ELSE "resolved"
      /\ \A d \in Call \ {c} : result'[d] = result[d] /\ promise'[d] = promise[d]
  BY <1>1
<1>3. promise[c] = "pending" /\ thread[c] \notin {"idle", "found", "halfway"}
      /\ c \notin execs
  BY <1>1 DEF CallFits
<1>4. \A d \in Call : status'[d] = status[d] \/ (d = c /\ status'[d] = result[d])
  BY DEF Settle
<1>5. \A d \in Call, s \in State :
        s \in {status'[d], result'[d]} => s \in {status[d], result[d]}
  BY <1>2, <1>4 DEF State
<1>6. \A d \in Call : /\ Succeeded(d)' <=> Succeeded(d)
                      /\ Failed(d)' <=> Failed(d)
                      /\ Settled(d) => Settled(d)'
                      /\ StartedAfter(d)' <=> StartedAfter(d)
                      /\ d # c => (Settled(d)' <=> Settled(d))
  BY <1>1, <1>2, <1>3 DEF Succeeded, Failed, Settled, StartedAfter
<1>7. ASSUME NEW d \in Call PROVE CallFits(d)'
  <2>1. CallFits(d) /\ before[d] \subseteq Call
    BY DEF OutcomesInv
  <2>2. \A e \in before'[d] : Settled(e)'
    BY <1>1, <1>6, <2>1 DEF CallFits
  <2>3. CASE d = c
    BY <1>1, <1>2, <1>3, <1>4, <2>1, <2>2, <2>3 DEF CallFits
  <2>4. CASE d # c
    BY <1>1, <1>2, <1>4, <1>6, <2>1, <2>2, <2>4 DEF CallFits
  <2> QED
    BY <2>3, <2>4
<1>8. CreationFits'
  BY <1>1, <1>6 DEF OutcomesInv, CreationFits, Destroyed
<1>9. DestroyFits'
  BY <1>1, <1>6 DEF OutcomesInv, DestroyFits
<1>10. FailureFits'
  BY <1>1, <1>6 DEF OutcomesInv, FailureFits
<1>11. StateFits'
  BY <1>1, <1>5, <1>6 DEF OutcomesInv, StateFits, State
<1> QED
  BY <1>7, <1>8, <1>9, <1>10, <1>11 DEF OutcomesInv

\* A thread finds the replicator: nobody has destroyed it so far.
LEMMA PicksKeeps ==
  ASSUME Typed, OutcomesInv, NEW c \in Call, NEW t, Picks(c, t)
  PROVE  OutcomesInv'
<1> USE DEF Typed, ScriptTypeOK
<1>1. /\ UNCHANGED <<creation, method, promise, status, before, created, result,
                     creator, state, platform>>
      /\ InMap' = InMap
      /\ thread' = [thread EXCEPT ![c] = t] /\ t \in {"found", "halfway"}
      /\ execs' = execs \ {c} /\ CallFits(c)
  BY DEF Picks, pageVars, OutcomesInv
<1>2. thread'[c] = t /\ \A d \in Call \ {c} : thread'[d] = thread[d]
  BY <1>1 DEF NativeTypeOK
<1>3. promise[c] = "pending" /\ result[c] = "none"
  BY <1>1 DEF Picks, InThread, CallFits
<1>4. \A d \in Call : /\ Succeeded(d)' <=> Succeeded(d)
                      /\ Failed(d)' <=> Failed(d)
                      /\ Settled(d)' <=> Settled(d)
                      /\ StartedAfter(d)' <=> StartedAfter(d)
  BY <1>1 DEF Succeeded, Failed, Settled, StartedAfter
<1>5. ASSUME NEW d \in Call PROVE CallFits(d)'
  <2>1. CallFits(d) /\ before[d] \subseteq Call
    BY DEF OutcomesInv
  <2>2. \A e \in before'[d] : Settled(e)'
    BY <1>1, <1>4, <2>1 DEF CallFits
  <2> QED
    BY <1>1, <1>2, <1>3, <1>4, <2>1, <2>2 DEF CallFits
<1>6. CreationFits'
  BY <1>1, <1>4 DEF OutcomesInv, CreationFits, Destroyed
<1>7. DestroyFits'
  <2>1. InThread(c) \/ InMap
    BY DEF Picks
  <2> QED
    BY <1>1, <1>2, <1>4, <2>1 DEF OutcomesInv, DestroyFits, InThread
<1>8. FailureFits'
  BY <1>1, <1>4 DEF OutcomesInv, FailureFits
<1>9. StateFits'
  BY <1>1, <1>4 DEF OutcomesInv, StateFits
<1> QED
  BY <1>5, <1>6, <1>7, <1>8, <1>9 DEF OutcomesInv

\* What every answer does, to the call that has it and to the others.
LEMMA AnswerFacts ==
  ASSUME Typed, OutcomesInv, NEW c \in Call, NEW r, Answers(c, r)
  PROVE  /\ creation = "resolved" /\ promise[c] = "pending"
         /\ result[c] = "none" /\ method[c] \in Method
         /\ thread'[c] = "ended" /\ result'[c] = r
         /\ \A d \in Call \ {c} : thread'[d] = thread[d] /\ result'[d] = result[d]
         /\ UNCHANGED <<creation, method, promise, status, before, creator,
                        platform>>
         /\ \A d \in Call : /\ Settled(d)' <=> Settled(d)
                            /\ StartedAfter(d)' <=> StartedAfter(d)
         /\ \A d \in Call \ {c} : /\ Succeeded(d)' <=> Succeeded(d)
                                  /\ Failed(d)' <=> Failed(d)
         /\ ~Succeeded(c) /\ ~Failed(c) /\ ~Settled(c)
         /\ Succeeded(c)' <=> r # "failed"
         /\ Failed(c)' <=> r = "failed"
<1> USE DEF Typed, ScriptTypeOK
<1>1. /\ UNCHANGED <<creation, method, promise, status, before, creator,
                     platform>>
      /\ thread' = [thread EXCEPT ![c] = "ended"]
      /\ result' = [result EXCEPT ![c] = r]
      /\ r \in State \cup {"ok", "failed"}
  BY DEF Answers, pageVars
<1>2. /\ thread'[c] = "ended" /\ result'[c] = r
      /\ \A d \in Call \ {c} : thread'[d] = thread[d] /\ result'[d] = result[d]
  BY <1>1 DEF NativeTypeOK
<1>3. /\ promise[c] = "pending" /\ result[c] = "none"
      /\ method[c] \in Method /\ creation = "resolved"
  <2>1. CallFits(c) /\ (InThread(c) \/ c \in execs)
    BY DEF Answers, OutcomesInv
  <2> QED
    BY <2>1 DEF InThread, CallFits
<1>4. r # "none"
  BY <1>1 DEF State
<1> QED
  BY <1>1, <1>2, <1>3, <1>4 DEF Succeeded, Failed, Settled, StartedAfter

LEMMA AnswerFitsCalls ==
  ASSUME Typed, OutcomesInv, NEW c \in Call, NEW r, Answers(c, r),
         NEW d \in Call
  PROVE  CallFits(d)'
<1> USE DEF Typed, ScriptTypeOK
<1>1. CallFits(d) /\ before[d] \subseteq Call /\ execs' = execs \ {c}
  BY DEF OutcomesInv, Answers
<1>2. \A e \in before'[d] : Settled(e)'
  BY <1>1, AnswerFacts DEF CallFits
<1>3. CASE d = c
  BY <1>1, <1>2, <1>3, AnswerFacts DEF CallFits
<1>4. CASE d # c
  BY <1>1, <1>2, <1>4, AnswerFacts DEF CallFits
<1> QED
  BY <1>3, <1>4

LEMMA GrowsKeepsCreation ==
  ASSUME Typed, OutcomesInv, CreatedGrows, creation = "resolved",
         UNCHANGED <<creation, creator>>, (InMap \/ Destroyed) => (InMap \/ Destroyed)'
  PROVE  CreationFits'
<1>1. /\ creator = "ended"
      /\ \A i \in 1..Len(created) : created[i] \in Event
      /\ InMap \/ Destroyed
  BY DEF OutcomesInv, CreationFits, Typed, NativeTypeOK
<1>2. \A i \in 1..Len(created') : created'[i] \in Event
  <2>1. CASE created' = created
    BY <1>1, <2>1
  <2>2. CASE \E e \in Event : created' = Append(created, e)
    <3>1. PICK e \in Event : created' = Append(created, e)
      BY <2>2
    <3>2. created \in Seq(Event \cup {"ok", "failed"})
      BY DEF Typed, ScriptTypeOK
    <3> QED
      BY <1>1, <3>1, <3>2
  <2> QED
    BY <2>1, <2>2 DEF CreatedGrows
<1> QED
  BY <1>1, <1>2 DEF CreationFits

\* A call is refused: another one has destroyed the replicator, and could not
\* have known of this call's end.
LEMMA RefusesKeeps ==
  ASSUME Typed, OutcomesInv, NEW c \in Call, Answers(c, "failed"), Refuses(c)
  PROVE  OutcomesInv'
<1> USE DEF Typed, ScriptTypeOK
<1>1. UNCHANGED state /\ InMap' = InMap /\ CreatedGrows
  BY DEF Refuses, Answers
<1>2. \A d \in Call : (Succeeded(d)' <=> Succeeded(d))
  BY AnswerFacts
<1>3. CreationFits'
  <2>1. Destroyed => Destroyed'
    BY <1>2, AnswerFacts DEF Destroyed
  <2> QED
    BY <1>1, <2>1, AnswerFacts, GrowsKeepsCreation
<1>4. DestroyFits'
  BY <1>1, <1>2, AnswerFacts DEF OutcomesInv, DestroyFits
<1>5. FailureFits'
  <2> SUFFICES ASSUME NEW d \in Call, Failed(d)',
                      ~(platform' # "android" /\ method'[d] = "start")
               PROVE  \E e \in Call \ {d} :
                        method'[e] = "destroy" /\ Succeeded(e)'
                          /\ d \notin before'[e]
    BY DEF FailureFits
  <2>1. CASE d = c
    <3>1. Destroyed
      BY <2>1, AnswerFacts DEF Refuses, OutcomesInv, CreationFits
    <3>2. PICK e \in Call : method[e] = "destroy" /\ Succeeded(e)
      BY <3>1 DEF Destroyed
    <3>3. CallFits(e) /\ e # c /\ c \notin before[e]
      BY <3>2, AnswerFacts DEF OutcomesInv, CallFits
    <3> QED
      BY <1>2, <2>1, <3>2, <3>3, AnswerFacts
  <2>2. CASE d # c
    BY <1>2, <2>2, AnswerFacts DEF OutcomesInv, FailureFits
  <2> QED
    BY <2>1, <2>2
<1>6. StateFits'
  <2>1. \A d \in Call, s \in State :
          s \in {status'[d], result'[d]} => s \in {status[d], result[d]}
    BY AnswerFacts DEF State
  <2> QED
    BY <1>1, <1>2, <2>1, AnswerFacts DEF OutcomesInv, StateFits, State
<1> QED
  BY <1>3, <1>4, <1>5, <1>6, AnswerFitsCalls DEF OutcomesInv

\* A call is done.  Whoever has not been told of it does not depend on it.
LEMMA DoesKeeps ==
  ASSUME Typed, OutcomesInv, NEW c \in Call, NEW r \in State \cup {"ok"},
         Answers(c, r), Does(c, r)
  PROVE  OutcomesInv'
<1> USE DEF Typed, ScriptTypeOK
<1>1. r # "failed" /\ Succeeded(c)' /\ ~Failed(c)' /\ ~Succeeded(c) /\ ~Failed(c)
  BY AnswerFacts DEF State
<1>2. \A d \in Call : c \notin before[d]
  BY AnswerFacts DEF OutcomesInv, CallFits
<1>3. \A d \in Call : method[d] = "destroy" /\ Succeeded(d) =>
        d \notin before[c]
  BY DEF Does, OutcomesInv, DestroyFits, InThread
<1>4. CreationFits'
  <2>1. Destroyed => Destroyed'
    BY <1>1, AnswerFacts DEF Destroyed
  <2>2. method[c] = "destroy" => Destroyed'
    BY <1>1, AnswerFacts DEF Destroyed
  <2>3. (InMap \/ Destroyed) => (InMap' \/ Destroyed')
    BY <2>1, <2>2 DEF Does
  <2> QED
    BY <2>3, AnswerFacts, GrowsKeepsCreation DEF Answers
<1>5. DestroyFits'
  <2> SUFFICES ASSUME NEW d \in Call, method'[d] = "destroy", Succeeded(d)'
               PROVE  /\ ~InMap'
                      /\ \A e \in Call : d \in before'[e] =>
                           thread'[e] \notin {"found", "halfway"} /\ ~Succeeded(e)'
                      /\ platform' = "android" =>
                           \A e \in Call :
                             method'[e] = "destroy" /\ Succeeded(e)' => e = d
    BY DEF DestroyFits
  <2>1. ~InMap'
    BY AnswerFacts DEF Does, OutcomesInv, DestroyFits
  <2>2. ASSUME NEW e \in Call, d \in before[e]
        PROVE  thread'[e] \notin {"found", "halfway"} /\ ~Succeeded(e)'
    <3>1. d # c /\ Succeeded(d)
      BY <1>2, <2>2, AnswerFacts
    <3>2. e # c
      BY <1>3, <2>2, <3>1, AnswerFacts
    <3> QED
      BY <2>2, <3>1, <3>2, AnswerFacts DEF OutcomesInv, DestroyFits
  <2>3. ASSUME platform = "android", NEW e \in Call,
               method[e] = "destroy", Succeeded(e)'
        PROVE  e = d
    <3>1. CASE method[c] = "destroy"
      <4>1. \A f \in Call : method[f] = "destroy" => ~Succeeded(f)
        BY <2>3, <3>1 DEF Does, OutcomesInv, DestroyFits
      <4> QED
        BY <2>3, <4>1, AnswerFacts
    <3>2. CASE method[c] # "destroy"
      BY <2>3, <3>2, AnswerFacts DEF OutcomesInv, DestroyFits
    <3> QED
      BY <3>1, <3>2
  <2> QED
    BY <2>1, <2>2, <2>3, AnswerFacts
<1>6. FailureFits'
  BY <1>1, AnswerFacts DEF OutcomesInv, FailureFits
<1>7. StateFits'
  <2> SUFFICES ASSUME NEW d \in Call, Succeeded(d)'
               PROVE  /\ method'[d] \in {"start", "stop"} =>
                           /\ state' # "Pending"
                           /\ \A e \in Call : d \in before'[e] =>
                                "Pending" \notin {status'[e], result'[e]}
                      /\ platform' = "android" /\ method'[d] = "stop" =>
                           /\ state' = "Started" => StartedAfter(d)'
                           /\ \A e \in Call :
                                d \in before'[e]
                                  /\ "Started" \in {status'[e], result'[e]} =>
                                  StartedAfter(d)'
                      /\ platform' # "android" =>
                           \A e \in Call :
                             method'[e] = "start" /\ Succeeded(e)' =>
                               /\ method'[d] = "start" => d = e
                               /\ method'[d] = "stop" => d \notin before'[e]
    BY DEF StateFits
  <2>1. method[d] \in {"start", "stop"} => state' # "Pending"
    BY AnswerFacts DEF OutcomesInv, StateFits, Does, Answers
  <2>2. ASSUME method[d] \in {"start", "stop"}, NEW e \in Call, d \in before[e]
        PROVE  "Pending" \notin {status'[e], result'[e]}
    <3>1. Succeeded(d) /\ d # c
      BY <1>2, <2>2, AnswerFacts
    <3>2. state # "Pending" /\ "Pending" \notin {status[e], result[e]}
      BY <2>2, <3>1 DEF OutcomesInv, StateFits
    <3> QED
      BY <3>2, AnswerFacts DEF Does
  <2>3. ASSUME platform = "android", method[d] = "stop", state' = "Started"
        PROVE  StartedAfter(d)'
    <3>1. d # c /\ Succeeded(d)
      BY <2>3, AnswerFacts DEF Does
    <3>2. CASE state = "Started"
      BY <2>3, <3>1, <3>2, AnswerFacts DEF OutcomesInv, StateFits
    <3>3. CASE state # "Started"
      <4>1. method[c] = "start"
        BY <2>3, <3>3 DEF Does
      <4>2. c \notin before[d]
        BY <1>2
      <4> QED
        BY <4>1, <4>2, AnswerFacts DEF StartedAfter
    <3> QED
      BY <3>2, <3>3
  <2>4. ASSUME platform = "android", method[d] = "stop", NEW e \in Call,
               d \in before[e], "Started" \in {status'[e], result'[e]}
        PROVE  StartedAfter(d)'
    <3>1. Succeeded(d) /\ d # c
      BY <1>2, <2>4, AnswerFacts
    <3>2. "Started" \in {status[e], result[e]} \/ state = "Started"
      BY <2>4, AnswerFacts DEF Does
    <3> QED
      BY <2>4, <3>1, <3>2, AnswerFacts DEF OutcomesInv, StateFits
  <2>5. ASSUME platform # "android", NEW e \in Call, method[e] = "start",
               Succeeded(e)'
        PROVE  /\ method[d] = "start" => d = e
               /\ method[d] = "stop" => d \notin before[e]
    <3>1. CASE method[c] = "start" /\ (d = c \/ e = c)
      <4>1. \A f \in Call : method[f] \in {"start", "stop"} => ~Succeeded(f)
        BY <2>5, <3>1 DEF Does, OutcomesInv, StateFits
      <4> QED
        BY <1>2, <2>5, <3>1, <4>1, AnswerFacts
    <3>2. CASE method[c] # "start" \/ (d # c /\ e # c)
      <4>1. e # c /\ Succeeded(e)
        BY <2>5, <3>2, AnswerFacts
      <4>2. CASE d = c
        BY <1>2, <2>5, <3>2, <4>1, <4>2
      <4>3. CASE d # c
        BY <2>5, <4>1, <4>3, AnswerFacts DEF OutcomesInv, StateFits
      <4> QED
        BY <4>2, <4>3
    <3> QED
      BY <3>1, <3>2
  <2> QED
    BY <2>1, <2>2, <2>3, <2>4, <2>5, AnswerFacts
<1> QED
  BY <1>4, <1>5, <1>6, <1>7, AnswerFitsCalls DEF OutcomesInv

-----------------------------------------------------------------------------
(* Every action is one of those steps *)

\* The names that Android has from ReplicatorCalls.
LEMMA AndroidNames ==
  /\ (UNCHANGED Android!pageVars) <=> UNCHANGED pageVars
  /\ \A r : Android!SendCreated(r) <=> SendCreated(r)
  /\ \A c, r : Android!SendResult(c, r) <=> SendResult(c, r)
  BY DEF pageVars, SendCreated, SendResult, Android!pageVars,
     Android!SendCreated, Android!SendResult

LEMMA AndroidAnswers ==
  ASSUME Typed, platform = "android", UNCHANGED platform, NEW c \in Call,
         NEW r \in State \cup {"ok", "failed"}, Android!Answer(c, r),
         InThread(c) \/ c \in execs, CreatedGrows,
         state' = "Pending" => state = "Pending"
  PROVE  Answers(c, r)
  BY AndroidNames DEF Answers, Android!Answer, SendResult

LEMMA AndroidCallStep ==
  ASSUME Typed, platform = "android", UNCHANGED <<iosVars, platform>>,
         NEW c \in Call, Android!ThreadStep(c)
  PROVE  CallStep(c)
<1>1. InMap = replicators /\ InMap' = replicators' /\ replicators \in BOOLEAN
  BY DEF InMap, Typed, NativeTypeOK
<1>2. state \in State
  BY DEF Typed, NativeTypeOK
<1>3. CASE Android!GetReplicator(c)
  BY <1>1, <1>3, AndroidNames DEF Android!GetReplicator, CallStep, Picks
<1>4. CASE Android!GetNull(c)
  <2>1. Answers(c, "failed")
    BY <1>4, AndroidAnswers DEF Android!GetNull, CreatedGrows
  <2>2. Refuses(c)
    BY <1>1, <1>4 DEF Android!GetNull, Refuses
  <2> QED
    BY <2>1, <2>2 DEF CallStep
<1>5. CASE Android!StartReplication(c)
  <2>1. Answers(c, "ok")
    BY <1>5, AndroidAnswers DEF Android!StartReplication, InThread, CreatedGrows
  <2>2. Does(c, "ok")
    BY <1>1, <1>5 DEF Android!StartReplication, Does, InThread
  <2> QED
    BY <2>1, <2>2 DEF CallStep
<1>6. CASE Android!StopReplication(c)
  <2>1. CreatedGrows
    BY <1>6, AndroidNames DEF Android!StopReplication, Android!Listener,
       SendCreated, CreatedGrows, Event
  <2>2. Answers(c, "Stopping")
    BY <1>6, <2>1, AndroidAnswers DEF Android!StopReplication, InThread, State
  <2>3. Does(c, "Stopping")
    BY <1>1, <1>6 DEF Android!StopReplication, Does, InThread
  <2> QED
    BY <2>2, <2>3 DEF CallStep, State
<1>7. CASE Android!GetReplicationStatus(c)
  <2>1. Answers(c, state)
    BY <1>2, <1>7, AndroidAnswers
       DEF Android!GetReplicationStatus, InThread, CreatedGrows
  <2>2. Does(c, state)
    BY <1>1, <1>2, <1>7 DEF Android!GetReplicationStatus, Does, InThread
  <2> QED
    BY <1>2, <2>1, <2>2 DEF CallStep
<1>8. CASE Android!DestroyReplicator(c) /\ replicators
  <2>1. Answers(c, "ok")
    BY <1>8, AndroidAnswers DEF Android!DestroyReplicator, CreatedGrows
  <2>2. Does(c, "ok")
    BY <1>1, <1>8 DEF Android!DestroyReplicator, Does
  <2> QED
    BY <2>1, <2>2 DEF CallStep
<1>9. CASE Android!DestroyReplicator(c) /\ ~replicators
  <2>1. Answers(c, "failed")
    BY <1>9, AndroidAnswers DEF Android!DestroyReplicator, CreatedGrows
  <2>2. Refuses(c)
    BY <1>1, <1>9 DEF Android!DestroyReplicator, Refuses
  <2> QED
    BY <2>1, <2>2 DEF CallStep
<1> QED
  BY <1>3, <1>4, <1>5, <1>6, <1>7, <1>8, <1>9 DEF Android!ThreadStep

LEMMA IOSNames ==
  /\ (UNCHANGED IOS!pageVars) <=> UNCHANGED pageVars
  /\ (UNCHANGED IOS!scriptVars) <=> UNCHANGED scriptVars
  /\ \A r : IOS!SendCreated(r) <=> SendCreated(r)
  /\ \A c, r : IOS!SendResult(c, r) <=> SendResult(c, r)
  BY DEF pageVars, scriptVars, SendCreated, SendResult, IOS!pageVars,
     IOS!scriptVars, IOS!SendCreated, IOS!SendResult

LEMMA IOSAnswers ==
  ASSUME Typed, platform # "android", UNCHANGED platform, NEW c \in Call,
         NEW r \in State \cup {"ok", "failed"}, IOS!Answer(c, r),
         InThread(c) \/ c \in execs,
         state' = "Pending" => state = "Pending"
  PROVE  Answers(c, r)
  BY IOSNames DEF Answers, IOS!Answer, SendResult, CreatedGrows

LEMMA IOSCallStep ==
  ASSUME Typed, OutcomesInv, platform # "android",
         UNCHANGED <<androidVars, platform>>,
         NEW c \in Call, IOS!CallStep(c)
  PROVE  CallStep(c)
<1>1. /\ InMap = replicatorMap /\ InMap' = replicatorMap'
      /\ replicatorMap \in BOOLEAN
  BY DEF InMap, Typed, NativeTypeOK
<1>2. state \in State
  BY DEF Typed, NativeTypeOK
<1>3. InThread(c) => c \notin execs
  BY DEF OutcomesInv, CallFits, InThread
<1>4. IOS!Reached(c) => c \in execs
  BY DEF IOS!Reached
<1>5. CASE IOS!NotFound(c)
  <2>1. Answers(c, "failed")
    BY <1>4, <1>5, IOSAnswers DEF IOS!NotFound
  <2>2. Refuses(c)
    BY <1>1, <1>5 DEF IOS!NotFound, Refuses
  <2> QED
    BY <2>1, <2>2 DEF CallStep
<1>6. CASE IOS!FindReplicator(c)
  BY <1>1, <1>4, <1>6, IOSNames DEF IOS!FindReplicator, CallStep, Picks
<1>7. CASE IOS!SetDelegate(c) \/ IOS!RemoveDelegate(c)
  BY <1>1, <1>3, <1>7, IOSNames DEF IOS!SetDelegate, IOS!RemoveDelegate,
     CallStep, Picks, InThread, scriptVars, pageVars
<1>8. CASE IOS!StartWithError(c) /\ state = "Pending"
  <2>1. Answers(c, "ok")
    BY <1>8, IOSAnswers DEF IOS!StartWithError, InThread
  <2>2. Does(c, "ok")
    BY <1>1, <1>8 DEF IOS!StartWithError, Does, InThread
  <2> QED
    BY <2>1, <2>2 DEF CallStep
<1>9. CASE IOS!StartWithError(c) /\ state # "Pending"
  <2>1. Answers(c, "failed")
    BY <1>9, IOSAnswers DEF IOS!StartWithError, InThread
  <2>2. Refuses(c)
    BY <1>1, <1>9 DEF IOS!StartWithError, Refuses
  <2> QED
    BY <2>1, <2>2 DEF CallStep
<1>10. CASE IOS!GetReplicationStatus(c)
  <2>1. Answers(c, state)
    BY <1>2, <1>4, <1>10, IOSAnswers DEF IOS!GetReplicationStatus
  <2>2. Does(c, state)
    BY <1>1, <1>2, <1>10 DEF IOS!GetReplicationStatus, Does
  <2> QED
    BY <1>2, <2>1, <2>2 DEF CallStep
<1>11. CASE IOS!StopReplication(c)
  <2>1. state' # "Pending"
    BY <1>11 DEF IOS!StopReplication
  <2>2. Answers(c, "ok")
    BY <1>4, <1>11, <2>1, IOSAnswers DEF IOS!StopReplication
  <2>3. Does(c, "ok")
    BY <1>1, <1>11, <2>1 DEF IOS!StopReplication, Does
  <2> QED
    BY <2>2, <2>3 DEF CallStep
<1>12. CASE IOS!RemoveReplicator(c)
  <2>1. Answers(c, "ok")
    BY <1>12, IOSAnswers DEF IOS!RemoveReplicator, InThread
  <2>2. Does(c, "ok")
    BY <1>1, <1>12 DEF IOS!RemoveReplicator, Does, InThread
  <2> QED
    BY <2>1, <2>2 DEF CallStep
<1> QED
  BY <1>5, <1>6, <1>7, <1>8, <1>9, <1>10, <1>11, <1>12 DEF IOS!CallStep

LEMMA CallStepKeeps ==
  ASSUME Typed, OutcomesInv, NEW c \in Call, CallStep(c)
  PROVE  OutcomesInv'
  BY PicksKeeps, RefusesKeeps, DoesKeeps DEF CallStep

\* createReplicator, whether it finds what it needs or not.
Creates(r) ==
  /\ creation = "pending" /\ creator = "queued"
  /\ creator' = "ended"
  /\ created' = Append(created, r)
  /\ IF r = "ok" THEN InMap' ELSE r = "failed"
  /\ UNCHANGED <<pageVars, execs, result, thread, state, platform>>

LEMMA AndroidCreates ==
  ASSUME Typed, platform = "android", UNCHANGED <<iosVars, platform>>,
         Android!CreateRefused \/ Android!CreateReplicator
  PROVE  /\ \E r \in {"ok", "failed"} : Creates(r)
         /\ UNCHANGED due
  BY AndroidNames DEF Android!CreateRefused, Android!CreateReplicator, Creates,
     SendCreated, InMap

LEMMA IOSCreates ==
  ASSUME Typed, platform # "android", UNCHANGED <<androidVars, platform>>,
         IOS!CreateRefused \/ IOS!CreateReplicator
  PROVE  /\ \E r \in {"ok", "failed"} : Creates(r)
         /\ UNCHANGED news
  BY IOSNames DEF IOS!CreateRefused, IOS!CreateReplicator, Creates,
     SendCreated, InMap

LEMMA CreatesKeeps ==
  ASSUME Typed, OutcomesInv, NEW r \in {"ok", "failed"}, Creates(r)
  PROVE  OutcomesInv'
<1>1. Quiet
  BY DEF Creates, Quiet, pageVars, callVars
<1>2. created = <<>>
  BY DEF Creates, OutcomesInv, CreationFits
<1>3. created' = <<r>>
  BY <1>2 DEF Creates
<1>4. CreationFits'
  BY <1>3 DEF Creates, pageVars, OutcomesInv, CreationFits
<1> QED
  BY <1>1, <1>4, QuietKeeps DEF OutcomesInv

\* The replication goes on, and the callback of createReplicator may hear.
LibraryStep ==
  /\ UNCHANGED <<pageVars, execs, result, thread, creator, platform>>
  /\ InMap' = InMap
  /\ CreatedGrows
  /\ created' # created => creation = "resolved"
  /\ \/ state' = state
     \/ state # "Pending" /\ state' \notin {"Pending", "Started"}

LEMMA LibraryStepKeeps ==
  ASSUME Typed, OutcomesInv, LibraryStep
  PROVE  OutcomesInv'
<1>1. Quiet
  BY DEF LibraryStep, Quiet, pageVars, callVars
<1>2. UNCHANGED <<creation, creator, method, promise, result>> /\ InMap' = InMap
  BY DEF LibraryStep, pageVars
<1>3. Destroyed' <=> Destroyed
  BY <1>2 DEF Destroyed, Succeeded
<1>4. CreationFits'
  <2>1. CASE creation = "resolved"
    BY <1>2, <1>3, <2>1, GrowsKeepsCreation DEF LibraryStep
  <2>2. CASE creation # "resolved"
    <3>1. UNCHANGED <<created, state>>
      BY <2>2 DEF LibraryStep, OutcomesInv, CreationFits
    <3> QED
      BY <1>2, <1>3, <3>1 DEF OutcomesInv, CreationFits
  <2> QED
    BY <2>1, <2>2
<1> QED
  BY <1>1, <1>4, QuietKeeps DEF OutcomesInv

LEMMA AndroidLibraryStep ==
  ASSUME Typed, OutcomesInv, platform = "android",
         UNCHANGED <<iosVars, platform>>, Android!ReplicationEnds
  PROVE  LibraryStep
<1>1. /\ CreatedGrows
      /\ UNCHANGED <<pageVars, execs, result, replicators, creator, thread>>
      /\ state \in {"Started", "Stopping"}
      /\ state' \in {"Complete", "Error", "Stopped"}
  BY AndroidNames DEF Android!ReplicationEnds, Android!Listener, SendCreated,
     CreatedGrows, Event
<1>2. creation = "resolved"
  BY <1>1 DEF OutcomesInv, CreationFits
<1> QED
  BY <1>1, <1>2 DEF LibraryStep, InMap

LEMMA IOSLibraryStep ==
  ASSUME Typed, OutcomesInv, EventsInv, platform # "android",
         UNCHANGED <<androidVars, platform>>,
         IOS!ReplicationEnds \/ IOS!TellDelegate
  PROVE  LibraryStep
<1>1. CASE IOS!ReplicationEnds
  BY <1>1, IOSNames DEF IOS!ReplicationEnds, LibraryStep, scriptVars, pageVars,
     CreatedGrows, InMap
<1>2. CASE IOS!TellDelegate
  <2>1. /\ CreatedGrows /\ news # "none"
        /\ UNCHANGED <<pageVars, execs, result, replicatorMap, creator, thread,
                       state>>
    BY <1>2, IOSNames DEF IOS!TellDelegate, SendCreated, CreatedGrows, Typed,
       NativeTypeOK
  <2>2. state # "Pending"
    BY <2>1, PostedType DEF EventsInv, IOSEventsFit, Running
  <2>3. creation = "resolved"
    BY <2>2 DEF OutcomesInv, CreationFits
  <2> QED
    BY <2>1, <2>3 DEF LibraryStep, InMap
<1> QED
  BY <1>1, <1>2

-----------------------------------------------------------------------------
(* EventsInv is inductive *)

\* No event more or less than before, and no call less that asked for one.
EventsSame ==
  /\ Posted' = Posted
  /\ UNCHANGED <<state, platform, IF platform = "android" THEN due ELSE news>>
  /\ \A m \in {"start", "stop"} : Asked(m) \subseteq Asked(m)'

LEMMA EventsSameKeeps ==
  ASSUME Typed, EventsInv, EventsSame
  PROVE  EventsInv'
<1>1. \A m \in {"start", "stop"} : Asked(m)' \in SUBSET Call
  BY DEF Asked
<1>2. \A m \in {"start", "stop"} :
        /\ Cardinality(Asked(m)) \in Nat /\ Cardinality(Asked(m)') \in Nat
        /\ Cardinality(Asked(m)) <= Cardinality(Asked(m)')
  BY <1>1, CallsFinite, FS_Subset DEF EventsSame
<1>3. Running' = Running
  BY DEF EventsSame, Running
<1>4. CASE platform = "android"
  <2>1. AndroidEventsFit /\ due \in Nat /\ UNCHANGED <<due, state, platform>>
    BY <1>4 DEF EventsInv, Typed, NativeTypeOK, EventsSame
  <2>2. Asked("stop") \subseteq Asked("stop")'
    BY DEF EventsSame
  <2>3. AndroidEventsFit'
    BY <1>2, <1>3, <2>1, <2>2 DEF EventsSame, AndroidEventsFit
  <2> QED
    BY <1>4, <2>1, <2>3 DEF EventsInv
<1>5. CASE platform # "android"
  BY <1>3, <1>5 DEF EventsSame, EventsInv, IOSEventsFit
<1> QED
  BY <1>4, <1>5

\* An answer is one more call that asked; other calls have not moved.
LEMMA AskedGrows ==
  ASSUME Typed, OutcomesInv, NEW c \in Call, NEW r, Answers(c, r)
  PROVE  /\ c \notin Asked(method[c])
         /\ \A m : Asked(m)' = IF m = method[c] THEN Asked(m) \cup {c} ELSE Asked(m)
<1>1. thread[c] # "ended" /\ c \in Call
  BY DEF Answers, OutcomesInv, CallFits, InThread
<1> QED
  BY <1>1, AnswerFacts DEF Asked

LEMMA PicksEvents ==
  ASSUME Typed, OutcomesInv, EventsInv, NEW c \in Call, NEW t, Picks(c, t),
         UNCHANGED <<due, news>>
  PROVE  EventsInv'
<1>1. thread[c] # "ended"
  BY DEF Picks, OutcomesInv, CallFits, InThread
<1>2. /\ UNCHANGED <<heard, unheard, created, state, platform, method>>
      /\ thread' = [thread EXCEPT ![c] = t] /\ t # "ended"
  BY DEF Picks, pageVars
<1>3. \A m : Asked(m)' = Asked(m)
  BY <1>1, <1>2 DEF Asked, Typed, NativeTypeOK
<1> QED
  BY <1>2, <1>3, EventsSameKeeps DEF EventsSame, Posted

LEMMA AnswerEvents ==
  ASSUME Typed, OutcomesInv, EventsInv, NEW c \in Call, NEW r, Answers(c, r),
         UNCHANGED <<created, state, due, news>>
  PROVE  EventsInv'
<1>1. UNCHANGED <<heard, unheard, platform>>
  BY DEF Answers, pageVars
<1>2. Asked("start") \subseteq Asked("start")' /\ Asked("stop") \subseteq Asked("stop")'
  BY AskedGrows
<1>3. Posted' = Posted
  BY <1>1 DEF Posted
<1> QED
  BY <1>1, <1>2, <1>3, EventsSameKeeps DEF EventsSame

LEMMA AndroidStartEvents ==
  ASSUME Typed, OutcomesInv, EventsInv, platform = "android",
         UNCHANGED platform, NEW c \in Call, Answers(c, "ok"),
         method[c] = "start", state \notin {"Started", "Stopping"},
         state' = "Started", due' = due + 1, UNCHANGED created
  PROVE  EventsInv'
<1>1. Posted' = Posted /\ Posted \in Nat
  BY PostedType DEF Posted, Answers, pageVars
<1>2. Running = 0 /\ Running' = 1
  BY DEF Running
<1>3. /\ Asked("start")' = Asked("start") \cup {c} /\ c \notin Asked("start")
      /\ Asked("stop")' = Asked("stop")
  BY AskedGrows
<1>4. /\ Cardinality(Asked("start")) \in Nat
      /\ Cardinality(Asked("start")') = Cardinality(Asked("start")) + 1
  <2>1. Asked("start") \in SUBSET Call
    BY DEF Asked
  <2> QED
    BY <1>3, <2>1, CallsFinite, FS_AddElement
<1>5. AndroidEventsFit /\ due \in Nat
  BY DEF EventsInv, Typed, NativeTypeOK
<1>6. AndroidEventsFit'
  BY <1>1, <1>2, <1>3, <1>4, <1>5 DEF AndroidEventsFit
<1> QED
  BY <1>6 DEF EventsInv

LEMMA AndroidStopEvents ==
  ASSUME Typed, OutcomesInv, EventsInv, platform = "android",
         UNCHANGED platform, NEW c \in Call, NEW r, Answers(c, r),
         method[c] = "stop", state = "Pending",
         state' = "Stopped", due' = due + 1,
         created' = Append(created, "complete")
  PROVE  EventsInv'
<1>1. Posted' = Posted + 1 /\ Posted \in Nat
  BY PostedType, PostedAppend DEF Answers, pageVars, Event
<1>2. Running = 0 /\ Running' = 0
  BY DEF Running
<1>3. Asked("stop")' # {} /\ Asked("start")' = Asked("start")
  BY AskedGrows
<1>4. Cardinality(Asked("start")) \in Nat
  BY CallsFinite DEF Asked
<1>5. AndroidEventsFit /\ due \in Nat
  BY DEF EventsInv, Typed, NativeTypeOK
<1>6. AndroidEventsFit'
  BY <1>1, <1>2, <1>3, <1>4, <1>5 DEF AndroidEventsFit
<1> QED
  BY <1>6 DEF EventsInv

LEMMA AndroidStopUnderWay ==
  ASSUME Typed, OutcomesInv, EventsInv, platform = "android",
         UNCHANGED platform, NEW c \in Call, NEW r, Answers(c, r),
         state = "Started", state' = "Stopping", UNCHANGED <<due, created>>
  PROVE  EventsInv'
<1>1. Posted' = Posted
  BY DEF Posted, Answers, pageVars
<1>2. Running = 1 /\ Running' = 1
  BY DEF Running
<1>3. \A m \in {"start", "stop"} :
        /\ Asked(m) \subseteq Asked(m)' /\ Asked(m)' \in SUBSET Call
  BY AskedGrows DEF Asked
<1>4. /\ Cardinality(Asked("start")) \in Nat /\ Cardinality(Asked("start")') \in Nat
      /\ Cardinality(Asked("start")) <= Cardinality(Asked("start")')
  BY <1>3, CallsFinite, FS_Subset
<1>5. AndroidEventsFit /\ due \in Nat
  BY DEF EventsInv, Typed, NativeTypeOK
<1>6. AndroidEventsFit'
  BY <1>1, <1>2, <1>3, <1>4, <1>5 DEF AndroidEventsFit
<1> QED
  BY <1>6 DEF EventsInv

\* Which of the steps a call took shows in its thread.
LEMMA CallStepIs ==
  ASSUME Typed, NEW c \in Call, CallStep(c)
  PROVE  IF thread'[c] = "ended" THEN Answers(c, result'[c])
                                 ELSE \E t \in {"found", "halfway"} : Picks(c, t)
<1>1. ASSUME NEW t \in {"found", "halfway"}, Picks(c, t)
      PROVE  thread'[c] # "ended"
  BY <1>1 DEF Picks, Typed, NativeTypeOK
<1>2. ASSUME NEW r, Answers(c, r)
      PROVE  thread'[c] = "ended" /\ Answers(c, result'[c])
  BY <1>2 DEF Answers, Typed, NativeTypeOK, ScriptTypeOK
<1> QED
  BY <1>1, <1>2 DEF CallStep

LEMMA AndroidCallEvents ==
  ASSUME Typed, OutcomesInv, EventsInv, platform = "android",
         UNCHANGED <<iosVars, platform>>, NEW c \in Call, Android!ThreadStep(c)
  PROVE  EventsInv'
<1>1. UNCHANGED <<news, platform>> /\ thread \in [Call -> {"idle", "found", "halfway", "ended"}]
  BY DEF iosVars, Typed, NativeTypeOK
<1>2. CASE Android!GetReplicator(c)
  <2>1. thread'[c] # "ended" /\ UNCHANGED due
    BY <1>1, <1>2 DEF Android!GetReplicator
  <2> QED
    BY <1>1, <2>1, AndroidCallStep, CallStepIs, PicksEvents
<1>3. ASSUME NEW r, Android!Answer(c, r)
      PROVE  Answers(c, result'[c]) /\ result'[c] = r
  <2>1. thread'[c] = "ended" /\ result'[c] = r
    BY <1>1, <1>3, AndroidNames DEF Android!Answer, SendResult, Typed, ScriptTypeOK
  <2> QED
    BY <2>1, AndroidCallStep, CallStepIs
<1>4. CASE Android!GetNull(c) \/ Android!GetReplicationStatus(c)
             \/ Android!DestroyReplicator(c)
  <2>1. Answers(c, result'[c]) /\ UNCHANGED <<created, state, due>>
    BY <1>3, <1>4 DEF Android!GetNull, Android!GetReplicationStatus,
       Android!DestroyReplicator
  <2> QED
    BY <1>1, <2>1, AnswerEvents
<1>5. CASE Android!StartReplication(c)
  <2>1. Answers(c, "ok") /\ method[c] = "start" /\ UNCHANGED created
    BY <1>3, <1>5 DEF Android!StartReplication
  <2>2. CASE state \in {"Started", "Stopping"}
    <3>1. UNCHANGED <<state, due>>
      BY <1>5, <2>2 DEF Android!StartReplication
    <3> QED
      BY <1>1, <2>1, <3>1, AnswerEvents
  <2>3. CASE state \notin {"Started", "Stopping"}
    <3>1. state' = "Started" /\ due' = due + 1
      BY <1>5, <2>3 DEF Android!StartReplication
    <3> QED
      BY <1>1, <2>1, <2>3, <3>1, AndroidStartEvents
  <2> QED
    BY <2>2, <2>3
<1>6. CASE Android!StopReplication(c)
  <2>1. Answers(c, "Stopping") /\ method[c] = "stop"
    BY <1>3, <1>6 DEF Android!StopReplication
  <2>2. CASE state = "Pending"
    <3>1. /\ state' = "Stopped" /\ due' = due + 1
          /\ created' = Append(created, "complete")
      BY <1>6, <2>2, AndroidNames DEF Android!StopReplication, Android!Listener,
         SendCreated
    <3> QED
      BY <1>1, <2>1, <2>2, <3>1, AndroidStopEvents
  <2>3. CASE state = "Started"
    <3>1. state' = "Stopping" /\ UNCHANGED <<due, created>>
      BY <1>6, <2>3 DEF Android!StopReplication
    <3> QED
      BY <1>1, <2>1, <2>3, <3>1, AndroidStopUnderWay
  <2>4. CASE state \notin {"Pending", "Started"}
    <3>1. UNCHANGED <<state, due, created>>
      BY <1>6, <2>4 DEF Android!StopReplication
    <3> QED
      BY <1>1, <2>1, <3>1, AnswerEvents
  <2> QED
    BY <2>2, <2>3, <2>4
<1> QED
  BY <1>2, <1>4, <1>5, <1>6 DEF Android!ThreadStep

LEMMA AndroidEndEvents ==
  ASSUME Typed, EventsInv, platform = "android",
         UNCHANGED platform, Android!ReplicationEnds
  PROVE  EventsInv'
<1>1. PICK e \in Event : created' = Append(created, e)
  BY AndroidNames DEF Android!ReplicationEnds, Android!Listener, SendCreated, Event
<1>2. /\ UNCHANGED <<pageVars, thread, due>>
      /\ state \in {"Started", "Stopping"}
      /\ state' \in {"Complete", "Stopped", "Error"}
  BY AndroidNames DEF Android!ReplicationEnds
<1>3. Posted' = Posted + 1 /\ Posted \in Nat
  <2>1. UNCHANGED <<heard, unheard>>
    BY <1>2 DEF pageVars
  <2> QED
    BY <1>1, <2>1, PostedAppend, PostedType
<1>4. Running = 1 /\ Running' = 0
  BY <1>2 DEF Running
<1>5. \A m : Asked(m)' = Asked(m)
  BY <1>2 DEF Asked, pageVars
<1>6. AndroidEventsFit /\ due \in Nat
  BY DEF EventsInv, Typed, NativeTypeOK
<1>7. AndroidEventsFit'
  BY <1>2, <1>3, <1>4, <1>5, <1>6 DEF AndroidEventsFit
<1> QED
  BY <1>7 DEF EventsInv

\* An event the CDTReplicator has for its delegate.
News == IF news = "none" THEN 0 ELSE 1

LEMMA IOSFits ==
  IOSEventsFit <=>
    /\ Posted + Running + News <= 1
    /\ Posted + Running + News = 1 => Asked("start") \cup Asked("stop") # {}
    /\ state = "Pending" => Posted + Running + News = 0
  BY DEF IOSEventsFit, News

LEMMA IOSFitsNext ==
  (IOSEventsFit <=>
    /\ Posted + Running + News <= 1
    /\ Posted + Running + News = 1 => Asked("start") \cup Asked("stop") # {}
    /\ state = "Pending" => Posted + Running + News = 0)'
  BY IOSFits, PTL

LEMMA IOSCallEvents ==
  ASSUME Typed, OutcomesInv, EventsInv, platform # "android",
         UNCHANGED <<androidVars, platform>>, NEW c \in Call, IOS!CallStep(c)
  PROVE  EventsInv'
<1>1. /\ UNCHANGED <<due, platform>> /\ Posted \in Nat
      /\ thread \in [Call -> {"idle", "found", "halfway", "ended"}]
      /\ Running \in {0, 1} /\ Running' \in {0, 1}
      /\ News \in {0, 1} /\ News' \in {0, 1}
  BY PostedType DEF androidVars, Typed, NativeTypeOK, Running, News
<1>2. CASE IOS!FindReplicator(c) \/ IOS!SetDelegate(c) \/ IOS!RemoveDelegate(c)
  <2>1. thread'[c] # "ended" /\ UNCHANGED news
    BY <1>1, <1>2 DEF IOS!FindReplicator, IOS!SetDelegate, IOS!RemoveDelegate
  <2> QED
    BY <1>1, <2>1, IOSCallStep, CallStepIs, PicksEvents
<1>3. ASSUME NEW r, IOS!Answer(c, r)
      PROVE  Answers(c, result'[c]) /\ UNCHANGED created
  <2>1. thread'[c] = "ended" /\ UNCHANGED created
    BY <1>1, <1>3, IOSNames DEF IOS!Answer
  <2> QED
    BY <2>1, IOSCallStep, CallStepIs
<1>4. ASSUME NEW r, IOS!Answer(c, r), method[c] \in {"start", "stop"},
             state = "Pending", state' # "Pending",
             (Running' = 1 /\ News' = 0) \/ (Running' = 0 /\ News' = 1)
      PROVE  EventsInv'
  <2>1. Posted' = Posted
    BY <1>3, <1>4 DEF Posted, Answers, pageVars
  <2>2. Asked("start")' \cup Asked("stop")' # {}
    BY <1>3, <1>4, AskedGrows
  <2>3. Posted = 0
    BY <1>1, <1>4, IOSFits DEF EventsInv
  <2>4. Posted' + Running' + News' = 1
    <3>1. Posted' = 0
      BY <2>1, <2>3
    <3>2. CASE Running' = 1 /\ News' = 0
      BY <3>1, <3>2
    <3>3. CASE Running' = 0 /\ News' = 1
      BY <3>1, <3>3
    <3> QED
      BY <1>4, <3>2, <3>3
  <2>5. IOSEventsFit'
    BY <1>4, <2>2, <2>4, IOSFitsNext
  <2> QED
    BY <1>1, <2>5 DEF EventsInv
<1>5. ASSUME NEW r, IOS!Answer(c, r), Running' = Running, News' = News,
             state # "Pending", state' # "Pending"
      PROVE  EventsInv'
  <2>1. Posted' = Posted
    BY <1>3, <1>5 DEF Posted, Answers, pageVars
  <2>2. Asked("start") \subseteq Asked("start")' /\ Asked("stop") \subseteq Asked("stop")'
    BY <1>3, <1>5, AskedGrows
  <2>3. IOSEventsFit'
    BY <1>1, <1>5, <2>1, <2>2, IOSFits, IOSFitsNext DEF EventsInv
  <2> QED
    BY <1>1, <2>3 DEF EventsInv
<1>6. CASE IOS!NotFound(c) \/ IOS!GetReplicationStatus(c) \/ IOS!RemoveReplicator(c)
  <2>1. Answers(c, result'[c]) /\ UNCHANGED <<created, state, news>>
    BY <1>3, <1>6 DEF IOS!NotFound, IOS!GetReplicationStatus, IOS!RemoveReplicator
  <2> QED
    BY <1>1, <2>1, AnswerEvents
<1>7. state = "Pending" => news = "none"
  BY <1>1, IOSFits DEF EventsInv, News
<1>8. CASE IOS!StartWithError(c)
  <2>1. PICK r : IOS!Answer(c, r)
    BY <1>8 DEF IOS!StartWithError
  <2>2. method[c] = "start" /\ UNCHANGED news
    BY <1>8 DEF IOS!StartWithError
  <2>3. CASE state = "Pending"
    <3>1. state' = "Started"
      BY <1>8, <2>3 DEF IOS!StartWithError
    <3>2. Running' = 1 /\ News' = 0
      BY <1>7, <2>2, <2>3, <3>1 DEF Running, News
    <3> QED
      BY <1>4, <2>1, <2>2, <2>3, <3>1, <3>2
  <2>4. CASE state # "Pending"
    <3>1. UNCHANGED state
      BY <1>8, <2>4 DEF IOS!StartWithError
    <3> QED
      BY <1>1, <1>3, <2>1, <2>2, <3>1, AnswerEvents
  <2> QED
    BY <2>3, <2>4
<1>9. CASE IOS!StopReplication(c)
  <2>1. IOS!Answer(c, "ok") /\ method[c] = "stop"
    BY <1>9 DEF IOS!StopReplication
  <2>2. CASE state = "Pending"
    <3>1. state' = "Stopped" /\ news' = "complete"
      BY <1>9, <2>2 DEF IOS!StopReplication
    <3>2. Running' = 0 /\ News' = 1
      BY <1>7, <2>1, <2>2, <3>1 DEF Running, News
    <3> QED
      BY <1>4, <2>1, <2>2, <3>1, <3>2
  <2>3. CASE state = "Started"
    <3>1. state' \in {"Started", "Stopping"} /\ UNCHANGED news
      BY <1>9, <2>3 DEF IOS!StopReplication
    <3>2. Running' = Running /\ News' = News
      BY <2>3, <3>1 DEF Running, News
    <3> QED
      BY <1>5, <2>1, <2>3, <3>1, <3>2
  <2>4. CASE state \notin {"Pending", "Started"}
    <3>1. UNCHANGED <<state, news>>
      BY <1>9, <2>4 DEF IOS!StopReplication
    <3> QED
      BY <1>1, <1>3, <2>1, <3>1, AnswerEvents
  <2> QED
    BY <2>2, <2>3, <2>4
<1> QED
  BY <1>2, <1>6, <1>8, <1>9 DEF IOS!CallStep

LEMMA IOSLibraryEvents ==
  ASSUME Typed, OutcomesInv, EventsInv, platform # "android",
         UNCHANGED platform, IOS!ReplicationEnds \/ IOS!TellDelegate
  PROVE  EventsInv'
<1>1. IOSEventsFit /\ Posted \in Nat
  BY PostedType DEF EventsInv
<1>2. CASE IOS!ReplicationEnds
  <2>1. /\ UNCHANGED <<pageVars, created, thread>>
        /\ state \in {"Started", "Stopping"}
        /\ state' \in {"Complete", "Stopped", "Error"}
        /\ news' # "none"
    BY <1>2, IOSNames DEF IOS!ReplicationEnds, scriptVars
  <2>2. Posted' = Posted /\ \A m : Asked(m)' = Asked(m)
    BY <2>1 DEF Posted, Asked, pageVars
  <2>3. Running = 1 /\ Running' = 0
    BY <2>1 DEF Running
  <2>4. IOSEventsFit'
    BY <1>1, <2>1, <2>2, <2>3 DEF IOSEventsFit
  <2> QED
    BY <2>4 DEF EventsInv
<1>3. CASE IOS!TellDelegate
  <2>1. /\ UNCHANGED <<pageVars, thread, state>>
        /\ news # "none" /\ news' = "none"
        /\ created' = created \/ created' = Append(created, news)
        /\ news \in Event
    BY <1>3, IOSNames DEF IOS!TellDelegate, SendCreated, Typed, NativeTypeOK
  <2>2. UNCHANGED <<heard, unheard, method>>
    BY <2>1 DEF pageVars
  <2>3. Posted' = Posted \/ Posted' = Posted + 1
    BY <2>1, <2>2, PostedAppend DEF Posted
  <2>4. Running' = Running /\ Running \in {0, 1} /\ \A m : Asked(m)' = Asked(m)
    BY <2>1, <2>2 DEF Running, Asked
  <2>5. IOSEventsFit'
    BY <1>1, <2>1, <2>3, <2>4 DEF IOSEventsFit
  <2> QED
    BY <2>5 DEF EventsInv
<1> QED
  BY <1>2, <1>3

-----------------------------------------------------------------------------
(* What the page does *)

\* An event is the first thing in the queue only if nothing else is in it; what
\* else there is comes alone.
LEMMA QueueIs ==
  ASSUME Typed, OutcomesInv, created # <<>>
  PROVE  IF Head(created) \in Event
         THEN /\ creation \in {"resolved", "rejected"}
              /\ \A i \in 1..Len(created) : created[i] \in Event
         ELSE creation = "pending" /\ creator = "ended" /\ Len(created) = 1
                /\ created \in {<<"ok">>, <<"failed">>}
<1>1. /\ creation \in {"none", "pending", "resolved", "rejected"}
      /\ creator \in {"queued", "ended"}
      /\ created \in Seq(Event \cup {"ok", "failed"})
  BY DEF Typed, ScriptTypeOK, NativeTypeOK
<1>2. CreationFits
  BY DEF OutcomesInv
<1>3. CASE creation \in {"resolved", "rejected"}
  <2>1. Head(created) = created[1] /\ 1 \in 1..Len(created)
    BY <1>1
  <2> QED
    BY <1>2, <1>3, <2>1 DEF CreationFits
<1>4. CASE creation \in {"none", "pending"}
  <2>1. creation = "pending" /\ creator = "ended"
    BY <1>1, <1>2, <1>4 DEF CreationFits
  <2>2. created \in {<<"ok">>, <<"failed">>}
    BY <1>2, <2>1 DEF CreationFits
  <2>3. Head(created) \notin Event /\ Len(created) = 1
    BY <2>2 DEF Event
  <2> QED
    BY <2>1, <2>2, <2>3
<1> QED
  BY <1>1, <1>3, <1>4

LEMMA ScriptQuiet ==
  ASSUME Typed, OutcomesInv, UNCHANGED nativeVars,
         Create \/ (\E e \in Event : On(e)) \/ HandleCreated \/ Emit
  PROVE  Quiet /\ InMap' = InMap /\ (Destroyed' <=> Destroyed)
<1>1. UNCHANGED callVars
  BY DEF nativeVars, callVars, Create, On, HandleCreated, Emit
<1>2. UNCHANGED <<state, platform>> /\ InMap' = InMap
  BY DEF nativeVars, androidVars, iosVars, InMap
<1>3. creation = "resolved" => creation' = "resolved"
  BY QueueIs DEF Create, On, HandleCreated, Emit, Event
<1>4. Destroyed' <=> Destroyed
  BY <1>1 DEF callVars, Destroyed, Succeeded
<1> QED
  BY <1>1, <1>2, <1>3, <1>4 DEF Quiet

LEMMA CreateKeeps ==
  ASSUME Typed, OutcomesInv, UNCHANGED nativeVars,
         Create \/ \E e \in Event : On(e)
  PROVE  OutcomesInv' /\ Posted' = Posted
<1>1. /\ UNCHANGED <<created, creator, state>>
      /\ UNCHANGED <<heard, unheard>>
      /\ UNCHANGED creation \/ (creation = "none" /\ creation' = "pending")
  BY DEF nativeVars, Create, On
<1>2. CreationFits'
  BY <1>1, ScriptQuiet DEF OutcomesInv, CreationFits
<1>3. Posted' = Posted
  BY <1>1 DEF Posted
<1> QED
  BY <1>2, <1>3, ScriptQuiet, QuietKeeps DEF OutcomesInv

\* The creation is reported before anything else.
LEMMA HandleCreatedKeeps ==
  ASSUME Typed, OutcomesInv, UNCHANGED nativeVars, HandleCreated
  PROVE  OutcomesInv' /\ Posted' = Posted
<1>1. /\ created \in {<<"ok">>, <<"failed">>} /\ created' = <<>>
      /\ creation = "pending" /\ creator = "ended"
      /\ creation' = IF created = <<"ok">> THEN "resolved" ELSE "rejected"
      /\ UNCHANGED <<creator, state, heard, unheard>>
  BY QueueIs DEF HandleCreated, nativeVars, Event
<1>2. CreationFits'
  BY <1>1, ScriptQuiet DEF OutcomesInv, CreationFits
<1>3. Posted' = Posted
  BY <1>1, EventsNone DEF Posted
<1> QED
  BY <1>2, <1>3, ScriptQuiet, QuietKeeps DEF OutcomesInv

\* An event leaves the queue for a handler or for nowhere.
LEMMA EmitKeeps ==
  ASSUME Typed, OutcomesInv, UNCHANGED nativeVars, Emit
  PROVE  OutcomesInv' /\ Posted' = Posted
<1>1. /\ created # <<>> /\ created' = Tail(created)
      /\ creation \in {"resolved", "rejected"}
      /\ \A i \in 1..Len(created) : created[i] \in Event
      /\ UNCHANGED <<creator, creation, state>>
  BY QueueIs DEF Emit, nativeVars
<1>2. created \in Queue
  BY DEF Typed, ScriptTypeOK, Queue
<1>3. /\ created' \in Queue /\ Len(created') = Len(created) - 1
      /\ \A i \in 1..Len(created') : created'[i] \in Event
      /\ Len(created) \in Nat
  BY <1>1, <1>2 DEF Queue
<1>4. CreationFits'
  BY <1>1, <1>3, ScriptQuiet DEF OutcomesInv, CreationFits, Typed, NativeTypeOK
<1>5. Posted' = Posted
  <2>1. Cardinality(Events(created)) = Len(created)
    BY <1>1, <1>2, EventsAll
  <2>2. Cardinality(Events(created')) = Len(created) - 1
    BY <1>3, EventsAll
  <2>3. /\ Len(heard) \in Nat /\ unheard \in Nat
        /\ Len(heard') + unheard' = Len(heard) + unheard + 1
        /\ Len(heard') \in Nat /\ unheard' \in Nat
    <3>1. heard \in Seq(Event) /\ unheard \in Nat /\ Head(created) \in Event
      BY DEF Emit, Typed, ScriptTypeOK
    <3>2. CASE heard' = Append(heard, Head(created)) /\ unheard' = unheard
      <4>1. Len(heard') = Len(heard) + 1 /\ Len(heard) \in Nat
        BY <3>1, <3>2
      <4> QED
        BY <3>1, <3>2, <4>1
    <3>3. CASE heard' = heard /\ unheard' = unheard + 1
      <4>1. Len(heard) \in Nat
        BY <3>1
      <4> QED
        BY <3>1, <3>3, <4>1
    <3> QED
      BY <3>2, <3>3 DEF Emit
  <2> QED
    BY <1>3, <2>1, <2>2, <2>3 DEF Posted
<1> QED
  BY <1>4, <1>5, ScriptQuiet, QuietKeeps DEF OutcomesInv

LEMMA ScriptKeeps ==
  ASSUME Typed, OutcomesInv, EventsInv, ScriptStep, UNCHANGED nativeVars
  PROVE  OutcomesInv' /\ EventsInv'
<1>1. /\ UNCHANGED <<creator, thread, state, platform, due, news>>
      /\ InMap' = InMap
  BY DEF nativeVars, androidVars, iosVars, InMap
<1>2. ASSUME Posted' = Posted, UNCHANGED method
      PROVE  EventsInv'
  <2>1. \A m : Asked(m)' = Asked(m)
    BY <1>1, <1>2 DEF Asked
  <2> QED
    BY <1>1, <1>2, <2>1, EventsSameKeeps DEF EventsSame
<1>3. CASE Create \/ \E e \in Event : On(e)
  <2>1. UNCHANGED method
    BY <1>3 DEF Create, On
  <2> QED
    BY <1>2, <1>3, <2>1, CreateKeeps
<1>4. CASE HandleCreated \/ Emit
  <2>1. UNCHANGED method
    BY <1>4 DEF HandleCreated, Emit
  <2> QED
    BY <1>2, <1>4, <2>1, HandleCreatedKeeps, EmitKeeps
<1>5. ASSUME NEW c \in Call, Settle(c)
      PROVE  OutcomesInv' /\ EventsInv'
  <2>1. UNCHANGED method /\ Posted' = Posted
    BY <1>5 DEF Settle, Posted
  <2> QED
    BY <1>1, <1>2, <1>5, <2>1, SettleKeeps
<1>6. ASSUME NEW c \in Call, Invoke(c)
      PROVE  OutcomesInv' /\ EventsInv'
  <2>1. Posted' = Posted
    BY <1>6 DEF Invoke, Posted
  <2>2. thread[c] = "idle"
    BY <1>6 DEF Invoke, OutcomesInv, CallFits
  <2>3. \A d \in Call \ {c} : method'[d] = method[d]
    BY <1>6 DEF Invoke, Typed, ScriptTypeOK
  <2>4. Asked("start") \subseteq Asked("start")' /\ Asked("stop") \subseteq Asked("stop")'
    BY <1>1, <2>2, <2>3 DEF Asked
  <2>5. EventsInv'
    BY <1>1, <2>1, <2>4, EventsSameKeeps DEF EventsSame
  <2> QED
    BY <1>1, <1>6, <2>5, InvokeKeeps
<1> QED
  BY <1>3, <1>4, <1>5, <1>6 DEF ScriptStep, Handle

-----------------------------------------------------------------------------
(* Types are kept *)

LEMMA ScriptTypes ==
  ASSUME Typed, StatesAnswered, ScriptStep
  PROVE  ScriptTypeOK'
<1> USE DEF Typed, ScriptTypeOK
<1>1. CASE Create
  BY <1>1 DEF Create
<1>2. ASSUME NEW e \in Event, On(e)
      PROVE  ScriptTypeOK'
  BY <1>2 DEF On
<1>3. CASE HandleCreated
  BY <1>3 DEF HandleCreated
<1>4. CASE Emit
  <2>1. Head(created) \in Event /\ created' \in Seq(Event \cup {"ok", "failed"})
    BY <1>4 DEF Emit
  <2>2. heard \in Seq(Event) /\ unheard \in Nat
    OBVIOUS
  <2>3. \/ heard' = Append(heard, Head(created)) /\ unheard' = unheard
        \/ heard' = heard /\ unheard' = unheard + 1
    BY <1>4 DEF Emit
  <2>4. heard' \in Seq(Event)
    <3>1. \A h \in Seq(Event), e \in Event : Append(h, e) \in Seq(Event)
      OBVIOUS
    <3> QED
      BY ONLY <2>1, <2>2, <2>3, <3>1
  <2>5. unheard' \in Nat
    BY <2>2, <2>3
  <2> QED
    BY <1>4, <2>1, <2>4, <2>5 DEF Emit
<1>5. ASSUME NEW c \in Call, Settle(c)
      PROVE  ScriptTypeOK'
  <2>1. status' \in [Call -> State \cup {"none"}]
    BY <1>5 DEF Settle, StatesAnswered, State
  <2> QED
    BY <1>5, <2>1 DEF Settle
<1>6. ASSUME NEW c \in Call, Invoke(c)
      PROVE  ScriptTypeOK'
  <2>1. {d \in Call : Settled(d)} \in SUBSET Call
    OBVIOUS
  <2>2. ready' \subseteq Call
    BY <1>6 DEF Invoke
  <2> QED
    BY <1>6, <2>1, <2>2 DEF Invoke
<1> QED
  BY <1>1, <1>2, <1>3, <1>4, <1>5, <1>6 DEF ScriptStep, Handle

\* The variables of the page that native code writes.
LEMMA NativeScriptTypes ==
  ASSUME Typed, UNCHANGED pageVars,
         UNCHANGED created \/ \E r \in Event \cup {"ok", "failed"} :
                                created' = Append(created, r),
         UNCHANGED result \/ \E c \in Call, r \in State \cup {"ok", "failed"} :
                               result' = [result EXCEPT ![c] = r],
         UNCHANGED execs \/ \E c \in Call : execs' = execs \ {c}
  PROVE  ScriptTypeOK'
<1> USE DEF Typed, ScriptTypeOK
<1>1. created' \in Seq(Event \cup {"ok", "failed"})
  OBVIOUS
<1>2. result' \in [Call -> State \cup {"none", "ok", "failed"}]
  OBVIOUS
<1>3. execs' \subseteq Call
  OBVIOUS
<1> QED
  BY <1>1, <1>2, <1>3 DEF pageVars

LEMMA CallStepTypes ==
  ASSUME Typed, NEW c \in Call, CallStep(c)
  PROVE  ScriptTypeOK'
<1>1. ASSUME NEW t \in {"found", "halfway"}, Picks(c, t)
      PROVE  ScriptTypeOK'
  BY <1>1, NativeScriptTypes DEF Picks
<1>2. ASSUME NEW r \in State \cup {"ok", "failed"}, Answers(c, r)
      PROVE  ScriptTypeOK'
  BY <1>2, NativeScriptTypes DEF Answers, CreatedGrows
<1> QED
  BY <1>1, <1>2 DEF CallStep

LEMMA AndroidTypes ==
  ASSUME Typed, OutcomesInv, AndroidStep
  PROVE  Typed'
<1> USE DEF NativeTypeOK
<1>1. NativeTypeOK /\ platform = "android" /\ UNCHANGED <<iosVars, platform>>
      /\ Android!NativeStep
  BY DEF AndroidStep, Typed
<1>2. CASE Android!CreateRefused \/ Android!CreateReplicator
  <2>1. PICK r \in {"ok", "failed"} : Creates(r)
    BY <1>1, <1>2, AndroidCreates
  <2>2. ScriptTypeOK'
    BY <2>1, NativeScriptTypes DEF Creates
  <2>3. NativeTypeOK'
    BY <1>1, <1>2 DEF Android!CreateRefused, Android!CreateReplicator
  <2> QED
    BY <2>2, <2>3 DEF Typed
<1>3. ASSUME NEW c \in Call, Android!ThreadStep(c)
      PROVE  Typed'
  <2>1. ScriptTypeOK'
    BY <1>1, <1>3, AndroidCallStep, CallStepTypes
  <2>2. \/ UNCHANGED creator /\ thread' = [thread EXCEPT ![c] = "found"]
        \/ UNCHANGED creator /\ thread' = [thread EXCEPT ![c] = "ended"]
    BY <1>3 DEF Android!ThreadStep, Android!Answer, Android!GetReplicator,
       Android!GetNull, Android!StartReplication, Android!StopReplication,
       Android!GetReplicationStatus, Android!DestroyReplicator
  <2>5. due' \in Nat
    BY <1>1, <1>3 DEF Android!ThreadStep, Android!GetReplicator,
       Android!GetNull, Android!StartReplication, Android!StopReplication,
       Android!GetReplicationStatus, Android!DestroyReplicator
  <2>6. replicators' \in BOOLEAN
    BY <1>1, <1>3 DEF Android!ThreadStep, Android!GetReplicator,
       Android!GetNull, Android!StartReplication, Android!StopReplication,
       Android!GetReplicationStatus, Android!DestroyReplicator
  <2>3. state' \in State
    BY <1>1, <1>3 DEF Android!ThreadStep, Android!GetReplicator,
       Android!GetNull, Android!StartReplication, Android!StopReplication,
       Android!GetReplicationStatus, Android!DestroyReplicator, State
  <2>4. NativeTypeOK'
    BY <1>1, <2>2, <2>3, <2>5, <2>6
  <2> QED
    BY <2>1, <2>4 DEF Typed
<1>4. CASE Android!ReplicationEnds
  <2>1. LibraryStep
    BY <1>1, <1>4, AndroidLibraryStep
  <2>2. ScriptTypeOK'
    BY <2>1, NativeScriptTypes DEF LibraryStep, CreatedGrows
  <2>3. NativeTypeOK'
    BY <1>1, <1>4 DEF Android!ReplicationEnds, State
  <2> QED
    BY <2>2, <2>3 DEF Typed
<1> QED
  BY <1>1, <1>2, <1>3, <1>4 DEF Android!NativeStep

LEMMA IOSTypes ==
  ASSUME Typed, OutcomesInv, EventsInv, IOSStep, platform # "android"
  PROVE  Typed'
<1> USE DEF NativeTypeOK
<1>1. NativeTypeOK /\ UNCHANGED <<androidVars, platform>> /\ IOS!NativeStep
  BY DEF IOSStep, Typed
<1>2. CASE IOS!CreateRefused \/ IOS!CreateReplicator
  <2>1. PICK r \in {"ok", "failed"} : Creates(r)
    BY <1>1, <1>2, IOSCreates
  <2>2. ScriptTypeOK'
    BY <2>1, NativeScriptTypes DEF Creates
  <2>3. NativeTypeOK'
    BY <1>1, <1>2 DEF IOS!CreateRefused, IOS!CreateReplicator
  <2> QED
    BY <2>2, <2>3 DEF Typed
<1>3. ASSUME NEW c \in Call, IOS!CallStep(c)
      PROVE  Typed'
  <2>1. ScriptTypeOK'
    BY <1>1, <1>3, IOSCallStep, CallStepTypes
  <2>2. /\ UNCHANGED creator /\ replicatorMap' \in BOOLEAN
        /\ delegateMap' \in BOOLEAN /\ delegate' \in BOOLEAN
        /\ news' \in Event \cup {"none"}
        /\ \E t \in {"found", "halfway", "ended"} :
             thread' = [thread EXCEPT ![c] = t]
    BY <1>1, <1>3 DEF IOS!CallStep, IOS!Answer, IOS!NotFound,
       IOS!FindReplicator, IOS!SetDelegate, IOS!StartWithError,
       IOS!GetReplicationStatus, IOS!StopReplication, IOS!RemoveDelegate,
       IOS!RemoveReplicator, Event
  <2>3. state' \in State
    BY <1>1, <1>3 DEF IOS!CallStep, IOS!NotFound,
       IOS!FindReplicator, IOS!SetDelegate, IOS!StartWithError,
       IOS!GetReplicationStatus, IOS!StopReplication, IOS!RemoveDelegate,
       IOS!RemoveReplicator, State
  <2>4. NativeTypeOK'
    BY <1>1, <2>2, <2>3
  <2> QED
    BY <2>1, <2>4 DEF Typed
<1>4. CASE IOS!ReplicationEnds \/ IOS!TellDelegate
  <2>1. LibraryStep
    BY <1>1, <1>4, IOSLibraryStep
  <2>2. ScriptTypeOK'
    BY <2>1, NativeScriptTypes DEF LibraryStep, CreatedGrows
  <2>3. NativeTypeOK'
    BY <1>1, <1>4 DEF IOS!ReplicationEnds, IOS!TellDelegate, State, Event
  <2> QED
    BY <2>2, <2>3 DEF Typed
<1> QED
  BY <1>1, <1>2, <1>3, <1>4 DEF IOS!NativeStep

-----------------------------------------------------------------------------
(* The inductive invariant *)

LEMMA StatesAnsweredKept ==
  ASSUME Typed, OutcomesInv, StatesAnswered,
         \/ ScriptStep /\ UNCHANGED nativeVars
         \/ UNCHANGED <<method, result>>
         \/ \E c \in Call : CallStep(c)
  PROVE  StatesAnswered'
<1>1. CASE UNCHANGED <<method, result>>
  BY <1>1 DEF StatesAnswered
<1>2. ASSUME NEW c \in Call, CallStep(c)
      PROVE  StatesAnswered'
  <2>1. CASE \E t \in {"found", "halfway"} : Picks(c, t)
    BY <2>1 DEF Picks, pageVars, StatesAnswered
  <2>2. ASSUME NEW r \in State \cup {"ok", "failed"}, Answers(c, r),
               r = "failed" \/ Does(c, r)
        PROVE  StatesAnswered'
    <3>1. method[c] = "getState" => r \in State \cup {"failed"}
      BY <2>2 DEF Does
    <3> QED
      BY <2>2, <3>1, AnswerFacts DEF StatesAnswered
  <2> QED
    BY <1>2, <2>1, <2>2 DEF CallStep
<1>3. CASE ScriptStep
  <2>1. ASSUME NEW c \in Call, Invoke(c)
        PROVE  StatesAnswered'
    <3>1. result[c] = "none" /\ UNCHANGED result
      BY <2>1 DEF Invoke, OutcomesInv, CallFits
    <3>2. \A d \in Call \ {c} : method'[d] = method[d]
      BY <2>1 DEF Invoke, Typed, ScriptTypeOK
    <3> QED
      BY <3>1, <3>2 DEF StatesAnswered
  <2>2. ASSUME NEW c \in Call, Settle(c)
        PROVE  StatesAnswered'
    BY <2>2 DEF Settle, StatesAnswered, Typed, ScriptTypeOK
  <2>3. CASE Create \/ (\E e \in Event : On(e)) \/ HandleCreated \/ Emit
    BY <2>3 DEF Create, On, HandleCreated, Emit, StatesAnswered
  <2> QED
    BY <1>3, <2>1, <2>2, <2>3 DEF ScriptStep, Handle
<1> QED
  BY <1>1, <1>2, <1>3

\* In the beginning there are no calls and no events.
LEMMA RegistryInit == PlatformInit => RegistryInv
<1> SUFFICES ASSUME PlatformInit PROVE RegistryInv
  OBVIOUS
<1>1. ScriptInit
  BY DEF PlatformInit, Android!Init, Android!ScriptInit, ScriptInit
<1>2. /\ creator = "queued" /\ state = "Pending"
      /\ thread = [c \in Call |-> "idle"]
      /\ replicators = FALSE /\ due = 0
      /\ replicatorMap = FALSE /\ delegateMap = FALSE /\ delegate = FALSE
      /\ news = "none"
  BY DEF PlatformInit, Android!Init, IOS!Init
<1>3. Typed
  <2>1. created \in Seq(Event \cup {"ok", "failed"}) /\ heard \in Seq(Event)
    BY <1>1 DEF ScriptInit
  <2>2. ScriptTypeOK
    BY <1>1, <2>1 DEF ScriptInit, ScriptTypeOK
  <2>3. NativeTypeOK
    BY <1>2 DEF NativeTypeOK, State
  <2> QED
    BY <2>2, <2>3 DEF Typed
<1>4. StatesAnswered
  BY <1>1 DEF ScriptInit, StatesAnswered
<1>5. \A c \in Call : /\ CallFits(c)
                      /\ ~Succeeded(c) /\ ~Failed(c)
  BY <1>1, <1>2 DEF ScriptInit, CallFits, Succeeded, Failed, Settled
<1>6. OutcomesInv
  BY <1>1, <1>2, <1>5 DEF ScriptInit, OutcomesInv, CreationFits, DestroyFits,
     FailureFits, StateFits
<1>7. Posted = 0
  <2>1. Cardinality(Events(created)) = 0 /\ Len(heard) = 0 /\ unheard = 0
    BY <1>1, EventsNone DEF ScriptInit
  <2> QED
    BY <2>1 DEF Posted
<1>8. Cardinality(Asked("start")) \in Nat
  BY CallsFinite DEF Asked
<1>9. EventsInv
  BY <1>2, <1>7, <1>8 DEF EventsInv, AndroidEventsFit, IOSEventsFit, Running
<1> QED
  BY <1>3, <1>4, <1>6, <1>9, TypedIs DEF RegistryInv

LEMMA RegistryNext == RegistryInv /\ [Next]_vars => RegistryInv'
<1> SUFFICES ASSUME RegistryInv, [Next]_vars PROVE RegistryInv'
  OBVIOUS
<1>1. Typed /\ OutcomesInv /\ EventsInv /\ StatesAnswered
  BY TypedIs DEF RegistryInv
<1>2. CASE ScriptStep /\ UNCHANGED nativeVars
  <2>1. Typed'
    <3>1. ScriptTypeOK'
      BY <1>1, <1>2, ScriptTypes
    <3>2. NativeTypeOK'
      BY <1>1, <1>2 DEF Typed, NativeTypeOK, nativeVars, androidVars, iosVars
    <3> QED
      BY <3>1, <3>2 DEF Typed
  <2> QED
    BY <1>1, <1>2, <2>1, ScriptKeeps, StatesAnsweredKept, TypedIsNext
       DEF RegistryInv
<1>3. CASE AndroidStep
  <2>1. /\ platform = "android" /\ UNCHANGED <<iosVars, platform>>
        /\ UNCHANGED platform /\ Android!NativeStep
    BY <1>3 DEF AndroidStep
  <2>2. Typed'
    BY <1>1, <1>3, AndroidTypes
  <2>3. CASE Android!CreateRefused \/ Android!CreateReplicator
    <3>1. PICK r \in {"ok", "failed"} : Creates(r)
      BY <1>1, <2>1, <2>3, AndroidCreates
    <3>2. OutcomesInv'
      BY <1>1, <3>1, CreatesKeeps
    <3>3. UNCHANGED <<method, result, heard, unheard, thread, state, due>>
      BY <1>1, <2>1, <2>3, <3>1, AndroidCreates DEF Creates, pageVars
    <3>4. Posted' = Posted
      <4>1. created \in Queue /\ r \notin Event /\ created' = Append(created, r)
        BY <1>1, <3>1 DEF Typed, ScriptTypeOK, Queue, Event, Creates
      <4>2. /\ Cardinality(Events(created')) = Cardinality(Events(created)) + 0
            /\ Cardinality(Events(created)) \in Nat
        BY <4>1, EventsAppend, EventsFinite
      <4> QED
        BY <3>3, <4>2 DEF Posted
    <3>5. EventsInv'
      BY <1>1, <2>1, <3>3, <3>4, EventsSameKeeps DEF EventsSame, Asked
    <3> QED
      BY <1>1, <2>2, <3>2, <3>3, <3>5, StatesAnsweredKept, TypedIsNext
         DEF RegistryInv
  <2>4. ASSUME NEW c \in Call, Android!ThreadStep(c)
        PROVE  RegistryInv'
    <3>1. CallStep(c)
      BY <1>1, <2>1, <2>4, AndroidCallStep
    <3>2. OutcomesInv' /\ StatesAnswered'
      BY <1>1, <3>1, CallStepKeeps, StatesAnsweredKept
    <3>3. EventsInv'
      BY <1>1, <2>1, <2>4, AndroidCallEvents
    <3> QED
      BY <2>2, <3>2, <3>3, TypedIsNext DEF RegistryInv
  <2>5. CASE Android!ReplicationEnds
    <3>1. LibraryStep
      BY <1>1, <2>1, <2>5, AndroidLibraryStep
    <3>2. OutcomesInv' /\ StatesAnswered'
      BY <1>1, <3>1, LibraryStepKeeps, StatesAnsweredKept
         DEF LibraryStep, pageVars
    <3>3. EventsInv'
      BY <1>1, <2>1, <2>5, AndroidEndEvents
    <3> QED
      BY <2>2, <3>2, <3>3, TypedIsNext DEF RegistryInv
  <2> QED
    BY <2>1, <2>3, <2>4, <2>5 DEF Android!NativeStep
<1>4. CASE IOSStep
  <2>1. /\ platform # "android" /\ UNCHANGED <<androidVars, platform>>
        /\ UNCHANGED platform /\ IOS!NativeStep
    BY <1>4 DEF IOSStep
  <2>2. Typed'
    BY <1>1, <1>4, <2>1, IOSTypes
  <2>3. CASE IOS!CreateRefused \/ IOS!CreateReplicator
    <3>1. PICK r \in {"ok", "failed"} : Creates(r)
      BY <1>1, <2>1, <2>3, IOSCreates
    <3>2. OutcomesInv'
      BY <1>1, <3>1, CreatesKeeps
    <3>3. UNCHANGED <<method, result, heard, unheard, thread, state, news>>
      BY <1>1, <2>1, <2>3, <3>1, IOSCreates DEF Creates, pageVars
    <3>4. Posted' = Posted
      <4>1. created \in Queue /\ r \notin Event /\ created' = Append(created, r)
        BY <1>1, <3>1 DEF Typed, ScriptTypeOK, Queue, Event, Creates
      <4>2. /\ Cardinality(Events(created')) = Cardinality(Events(created)) + 0
            /\ Cardinality(Events(created)) \in Nat
        BY <4>1, EventsAppend, EventsFinite
      <4> QED
        BY <3>3, <4>2 DEF Posted
    <3>5. EventsInv'
      BY <1>1, <2>1, <3>3, <3>4, EventsSameKeeps DEF EventsSame, Asked
    <3> QED
      BY <1>1, <2>2, <3>2, <3>3, <3>5, StatesAnsweredKept, TypedIsNext
         DEF RegistryInv
  <2>4. ASSUME NEW c \in Call, IOS!CallStep(c)
        PROVE  RegistryInv'
    <3>1. CallStep(c)
      BY <1>1, <2>1, <2>4, IOSCallStep
    <3>2. OutcomesInv' /\ StatesAnswered'
      BY <1>1, <3>1, CallStepKeeps, StatesAnsweredKept
    <3>3. EventsInv'
      BY <1>1, <2>1, <2>4, IOSCallEvents
    <3> QED
      BY <2>2, <3>2, <3>3, TypedIsNext DEF RegistryInv
  <2>5. CASE IOS!ReplicationEnds \/ IOS!TellDelegate
    <3>1. LibraryStep
      BY <1>1, <2>1, <2>5, IOSLibraryStep
    <3>2. OutcomesInv' /\ StatesAnswered'
      BY <1>1, <3>1, LibraryStepKeeps, StatesAnsweredKept
         DEF LibraryStep, pageVars
    <3>3. EventsInv'
      BY <1>1, <2>1, <2>5, IOSLibraryEvents
    <3> QED
      BY <2>2, <3>2, <3>3, TypedIsNext DEF RegistryInv
  <2> QED
    BY <2>1, <2>3, <2>4, <2>5 DEF IOS!NativeStep
<1>5. CASE UNCHANGED vars
  <2>1. /\ UNCHANGED <<creation, method, promise, status, handlers, destroyed,
                       heard, unheard, before, ready, execs, created, result>>
        /\ UNCHANGED <<creator, thread, state, replicators, due>>
        /\ UNCHANGED <<replicatorMap, delegateMap, delegate, news, platform>>
    BY <1>5 DEF vars, scriptVars, pageVars, nativeVars, androidVars, iosVars
  <2>2. Typed'
    BY <1>1, <2>1 DEF Typed, ScriptTypeOK, NativeTypeOK
  <2>3. LibraryStep
    BY <2>1 DEF LibraryStep, pageVars, InMap, CreatedGrows
  <2>4. OutcomesInv' /\ StatesAnswered'
    BY <1>1, <2>1, <2>3, LibraryStepKeeps, StatesAnsweredKept
  <2>5. EventsInv'
    BY <1>1, <2>1, EventsSameKeeps DEF EventsSame, Posted, Asked
  <2> QED
    BY <2>2, <2>4, <2>5, TypedIsNext DEF RegistryInv
<1> QED
  BY <1>2, <1>3, <1>4, <1>5 DEF Next

LEMMA RegistryInvariant == Spec => []RegistryInv
  BY RegistryInit, RegistryNext, PTL DEF Spec, Safe

-----------------------------------------------------------------------------
(* What follows from it *)

\* Each variable has its type, on the platform that has it: in particular the
\* callback of createReplicator is sent nothing but its one result and events,
\* and getState is answered with a state (replicator.js, CloudantSyncPlugin,
\* CDTSyncPlugin).
THEOREM TypeCorrect == Spec => []TypeOK
<1>1. RegistryInv => TypeOK
  BY DEF RegistryInv
<1> QED
  BY <1>1, RegistryInvariant, PTL

LEMMA AndroidAgrees ==
  ASSUME Typed, OutcomesInv, platform = "android"
  PROVE  Android!OutcomesAgree
<1>1. \A c \in Call : /\ promise[c] = "resolved" => Succeeded(c)
                      /\ promise[c] = "rejected" => Failed(c)
                      /\ Succeeded(c) => promise[c] # "rejected"
  BY DEF Succeeded, Failed, OutcomesInv, CallFits
<1>2. Android!DestroyIsFinal /\ Android!SingleDestroy
  BY <1>1 DEF Android!DestroyIsFinal, Android!SingleDestroy, Android!Resolved,
     OutcomesInv, DestroyFits
<1>3. Android!RefusedAfterDestroy
  BY <1>1 DEF Android!RefusedAfterDestroy, Android!RefusedOnlyDestroyed,
     OutcomesInv, FailureFits
<1>4. Android!NotPendingAgain /\ Android!StopIsSeen
  BY <1>1 DEF Android!NotPendingAgain, Android!StopIsSeen, Android!Resolved,
     OutcomesInv, StateFits, StartedAfter
<1> QED
  BY <1>2, <1>3, <1>4 DEF Android!OutcomesAgree

LEMMA IOSAgrees ==
  ASSUME Typed, OutcomesInv, platform # "android"
  PROVE  IOS!OutcomesAgree
<1>1. \A c \in Call : /\ promise[c] = "resolved" => Succeeded(c)
                      /\ promise[c] = "rejected" => Failed(c)
                      /\ Succeeded(c) => promise[c] # "rejected"
  BY DEF Succeeded, Failed, OutcomesInv, CallFits
<1>2. IOS!DestroyIsFinal
  BY <1>1 DEF IOS!DestroyIsFinal, IOS!Resolved, OutcomesInv, DestroyFits
<1>3. IOS!RefusedAfterDestroy
  BY <1>1 DEF IOS!RefusedAfterDestroy, IOS!RefusedOnlyDestroyed,
     OutcomesInv, FailureFits
<1>4. IOS!NotPendingAgain
  BY <1>1 DEF IOS!NotPendingAgain, IOS!Resolved, OutcomesInv, StateFits
<1>5. IOS!SingleStart
  BY <1>1 DEF IOS!SingleStart, IOS!Resolved, OutcomesInv, StateFits
<1> QED
  BY <1>2, <1>3, <1>4, <1>5 DEF IOS!OutcomesAgree

\* However many calls of start, stop, getState and destroy overlap, what their
\* promises say makes sense together: nothing succeeds that was called after a
\* destroy was reported, nothing is refused without a destroy, no getState
\* contradicts a start or a stop that was reported.  On Android one destroy
\* succeeds (replicators.remove); on iOS one start does (startWithError:).
THEOREM OutcomesAgreeCorrect == Spec => []OutcomesAgree
<1>1. RegistryInv => OutcomesAgree
  BY TypedIs, AndroidAgrees, IOSAgrees DEF RegistryInv, OutcomesAgree
<1> QED
  BY <1>1, RegistryInvariant, PTL

LEMMA EventsWereAskedFor ==
  ASSUME Typed, EventsInv
  PROVE  EventsAskedFor
<1> DEFINE Starts == {c \in Call : method[c] = "start"}
           n == Cardinality(Starts)
           k == Cardinality(Asked("start"))
           p == Posted
<1>1. Asked("start") \in SUBSET Starts /\ Starts \in SUBSET Call
  BY DEF Asked
<1>2. n \in Nat /\ k \in Nat /\ k <= n
  BY <1>1, CallsFinite, FS_Subset
<1>3. p \in Nat
  BY PostedType
<1>4. Asked("stop") # {} => \E c \in Call : method[c] = "stop"
  BY DEF Asked
<1>5. CASE platform = "android"
  <2>1. due \in Nat /\ AndroidEventsFit
    BY <1>5 DEF EventsInv, Typed, NativeTypeOK
  <2>2. p <= due /\ due <= k + (IF Asked("stop") # {} THEN 1 ELSE 0)
    BY <1>3, <2>1 DEF AndroidEventsFit, Running
  <2> HIDE DEF n, k, p
  <2>3. p <= n + (IF \E c \in Call : method[c] = "stop" THEN 1 ELSE 0)
    BY <1>2, <1>3, <1>4, <2>1, <2>2
  <2> QED
    BY <2>3 DEF EventsAskedFor, Posted, p, n
<1>6. CASE platform # "android"
  <2>1. p <= 1 /\ (p = 1 => Asked("start") \cup Asked("stop") # {})
    BY <1>3, <1>6 DEF EventsInv, IOSEventsFit, Running
  <2>2. Asked("start") # {} => n >= 1
    BY <1>1, <1>2, CallsFinite, FS_EmptySet
  <2> HIDE DEF n, k, p
  <2>3. p <= n + (IF \E c \in Call : method[c] = "stop" THEN 1 ELSE 0)
    BY <1>2, <1>3, <1>4, <2>1, <2>2
  <2> QED
    BY <2>3 DEF EventsAskedFor, Posted, p, n
<1> QED
  BY <1>5, <1>6

\* The page is never told of more ends of replications than were asked for:
\* one for each start, and one for a stop of a replication nobody had started
\* (SyncPluginListener, CDTSyncPluginDelegate, emit in replicator.js).
THEOREM EventsAskedForCorrect == Spec => []EventsAskedFor
<1>1. RegistryInv => EventsAskedFor
  BY TypedIs, EventsWereAskedFor DEF RegistryInv
<1> QED
  BY <1>1, RegistryInvariant, PTL

=============================================================================
