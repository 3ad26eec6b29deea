------------------------ MODULE SyncPluginInterceptor ------------------------
(***************************************************************************)
(* HTTP interception on Android: SyncPluginInterceptor.java composed with  *)
(* the JavaScript pipeline that answers it and with the plugin actions     *)
(* unlockInterceptor and destroyReplicator (CloudantSyncPlugin.java).      *)
(*                                                                         *)
(* Three kinds of thread meet here.  An HTTP thread caches its context and *)
(* a latch under a fresh UUID, sends the event and waits on the latch for  *)
(* at most 60 seconds.  JavaScript answers.  A pool thread runs            *)
(* unlockInterceptor: it looks up the interceptor, takes the latch out of  *)
(* the map, puts the answer into the cached context and counts the latch   *)
(* down, each step on a synchronized map but with no lock across them.     *)
(***************************************************************************)
EXTENDS InterceptorPipeline

CONSTANT NativeTimer  \* whether a wait may outlast the 60 seconds

ASSUME NativeTimerAssumption == NativeTimer \in BOOLEAN

VARIABLES
  interceptors,  \* keys of CloudantSyncPlugin.interceptors
  pc,            \* where each HTTP thread is
  contextMap,    \* keys of contextMap
  context,       \* the JSONObject cached for each interception
  latchMap,      \* keys of latchMap
  latch,         \* count of the CountDownLatch of each interception
  tasks,         \* unlockInterceptor calls running on a pool thread
  wokenBy,       \* history: what ended each wait
  result         \* what each HTTP thread took from its context

nativeVars == <<interceptors, pc, contextMap, context, latchMap, latch, tasks,
                wokenBy, result>>
vars == <<pipelineVars, nativeVars>>

\* A pool thread inside updateContext, and whether it got hold of the latch.
Task == [call: Unlock, at: {"updating", "unlocking"}, hasLatch: BOOLEAN]

TypeOK ==
  /\ PipelineTypeOK
  /\ interceptors \subseteq Token
  /\ pc \in [Uuid -> {"idle", "waiting", "awake", "returned"}]
  /\ contextMap \subseteq Uuid
  /\ context \in [Uuid -> [request: Seq(Nat), replay: Seq(Nat)]]
  /\ latchMap \subseteq Uuid
  /\ latch \in [Uuid -> {0, 1}]
  /\ tasks \subseteq Task
  /\ wokenBy \in [Uuid -> {"none", "latch", "timer"}]
  /\ result \in [Uuid -> Seq(Nat)]

Init ==
  /\ PipelineInit
  /\ interceptors = Token
  /\ pc = [u \in Uuid |-> "idle"]
  /\ contextMap = {}
  /\ context = [u \in Uuid |-> [request |-> <<>>, replay |-> <<>>]]
  /\ latchMap = {}
  /\ latch = [u \in Uuid |-> 1]
  /\ tasks = {}
  /\ wokenBy = [u \in Uuid |-> "none"]
  /\ result = [u \in Uuid |-> <<>>]

-----------------------------------------------------------------------------
(* The HTTP thread *)

\* interceptRequest / interceptResponse up to the wait: nobody knows the UUID
\* before the event is sent, so the puts and the send are one step.
Intercept(u) ==
  /\ pc[u] = "idle"
  /\ pc' = [pc EXCEPT ![u] = "waiting"]
  /\ contextMap' = contextMap \cup {u}
  /\ latchMap' = latchMap \cup {u}
  /\ events' = events \cup {u}
  /\ UNCHANGED <<origin, stage, edits, finished, surplus, promise, settled,
                 unlocks, sent, interceptors, context, latch, tasks, wokenBy,
                 result>>

\* await returns because the latch was counted down.
Released(u) ==
  /\ pc[u] = "waiting"
  /\ latch[u] = 0
  /\ pc' = [pc EXCEPT ![u] = "awake"]
  /\ wokenBy' = [wokenBy EXCEPT ![u] = "latch"]
  /\ UNCHANGED <<pipelineVars, interceptors, contextMap, context, latchMap,
                 latch, tasks, result>>

\* await returns after 60 seconds, or is interrupted: the code goes on alike.
WaitOver(u) ==
  /\ NativeTimer
  /\ pc[u] = "waiting"
  /\ latch[u] # 0
  /\ pc' = [pc EXCEPT ![u] = "awake"]
  /\ wokenBy' = [wokenBy EXCEPT ![u] = "timer"]
  /\ UNCHANGED <<pipelineVars, interceptors, contextMap, context, latchMap,
                 latch, tasks, result>>

\* The field of its cached context that the thread of u reads.
Field(u) == IF origin[u].kind = "request" THEN "request" ELSE "replay"

\* Mutant: the entry is read but never removed.
ResumeKeepsEntry(u) ==
  /\ pc[u] = "awake"
  /\ pc' = [pc EXCEPT ![u] = "returned"]
  /\ result' = [result EXCEPT ![u] = context[u][Field(u)]]
  /\ UNCHANGED <<pipelineVars, interceptors, contextMap, context, latchMap,
                 latch, tasks, wokenBy>>

\* Take the headers (request) or the replay flag (response) of the cached
\* context into the HTTP exchange and drop the entry.  updateContext puts both
\* fields before it counts down, and a thread reads one field only: reading
\* and removing are one step.
Resume(u) ==
  /\ pc[u] = "awake"
  /\ pc' = [pc EXCEPT ![u] = "returned"]
  /\ result' = [result EXCEPT ![u] = context[u][Field(u)]]
  /\ contextMap' = contextMap \ {u}
  /\ UNCHANGED <<pipelineVars, interceptors, context, latchMap, latch, tasks,
                 wokenBy>>

-----------------------------------------------------------------------------
(* The pool threads *)

\* unlockInterceptor finds no interceptor under the token: the call errors,
\* JavaScript logs it, and the HTTP thread is not told.
UnlockRefused(m) ==
  /\ m \in unlocks
  /\ m.token \notin interceptors
  /\ unlocks' = unlocks \ {m}
  /\ UNCHANGED <<origin, events, stage, edits, finished, surplus, promise,
                 settled, sent, nativeVars>>

\* Mutants: the latch is looked up again after it was removed; it is left in
\* the map; it is counted down before the context is updated.
UnlockFoundReread(m) ==
  /\ m \in unlocks
  /\ m.token \in interceptors
  /\ unlocks' = unlocks \ {m}
  /\ latchMap' = latchMap \ {m.uuid}
  /\ tasks' = tasks \cup {[call |-> m, at |-> "updating",
                           hasLatch |-> m.uuid \in latchMap']}
  /\ UNCHANGED <<origin, events, stage, edits, finished, surplus, promise,
                 settled, sent, interceptors, pc, contextMap, context, latch,
                 wokenBy, result>>

UnlockFoundKeepsLatch(m) ==
  /\ m \in unlocks
  /\ m.token \in interceptors
  /\ unlocks' = unlocks \ {m}
  /\ tasks' = tasks \cup {[call |-> m, at |-> "updating",
                           hasLatch |-> m.uuid \in latchMap]}
  /\ UNCHANGED <<origin, events, stage, edits, finished, surplus, promise,
                 settled, sent, interceptors, pc, contextMap, context, latchMap,
                 latch, wokenBy, result>>

UnlockFoundEager(m) ==
  /\ m \in unlocks
  /\ m.token \in interceptors
  /\ unlocks' = unlocks \ {m}
  /\ latchMap' = latchMap \ {m.uuid}
  /\ latch' = [latch EXCEPT ![m.uuid] = 0]
  /\ tasks' = tasks \cup {[call |-> m, at |-> "updating", hasLatch |-> FALSE]}
  /\ UNCHANGED <<origin, events, stage, edits, finished, surplus, promise,
                 settled, sent, interceptors, pc, contextMap, context, wokenBy,
                 result>>

\* unlockInterceptor up to latchMap.remove: only such calls touch that entry.
UnlockFound(m) ==
  /\ m \in unlocks
  /\ m.token \in interceptors
  /\ unlocks' = unlocks \ {m}
  /\ latchMap' = latchMap \ {m.uuid}
  /\ tasks' = tasks \cup {[call |-> m, at |-> "updating",
                           hasLatch |-> m.uuid \in latchMap]}
  /\ UNCHANGED <<origin, events, stage, edits, finished, surplus, promise,
                 settled, sent, interceptors, pc, contextMap, context, latch,
                 wokenBy, result>>

\* The JSON puts of updateContext: nothing for a null context or a missing
\* entry; the request first, so a bad replayRequest leaves only that one put.
Updated(c, old) ==
  [request |-> IF c.given /\ c.requestOk THEN c.edits ELSE old.request,
   replay |-> IF c.given /\ c.requestOk /\ c.replayOk THEN c.edits
              ELSE old.replay]

\* Mutant: the updated context is put back whether or not it is still there.
PutContextAlways(t) ==
  LET u == t.call.uuid IN
  /\ t \in tasks
  /\ t.at = "updating"
  /\ contextMap' = contextMap \cup {u}
  /\ context' = [context EXCEPT ![u] = Updated(t.call.context, @)]
  /\ tasks' = (tasks \ {t}) \cup {[t EXCEPT !.at = "unlocking"]}
  /\ UNCHANGED <<pipelineVars, interceptors, pc, latchMap, latch, wokenBy,
                 result>>

PutContext(t) ==
  LET u == t.call.uuid IN
  /\ t \in tasks
  /\ t.at = "updating"
  /\ context' = IF u \in contextMap
                THEN [context EXCEPT ![u] = Updated(t.call.context, @)]
                ELSE context
  /\ tasks' = (tasks \ {t}) \cup {[t EXCEPT !.at = "unlocking"]}
  /\ UNCHANGED <<pipelineVars, interceptors, pc, contextMap, latchMap, latch,
                 wokenBy, result>>

\* The countDown that lets the HTTP thread go, if the latch was still there.
CountDown(t) ==
  /\ t \in tasks
  /\ t.at = "unlocking"
  /\ tasks' = tasks \ {t}
  /\ latch' = IF t.hasLatch THEN [latch EXCEPT ![t.call.uuid] = 0] ELSE latch
  /\ UNCHANGED <<pipelineVars, interceptors, pc, contextMap, context, latchMap,
                 wokenBy, result>>

\* destroyReplicator forgets the interceptor.  It neither stops a running
\* replication nor lets its waiting HTTP threads go.
DestroyReplicator(r) ==
  /\ r \in interceptors
  /\ interceptors' = interceptors \ {r}
  /\ UNCHANGED <<pipelineVars, pc, contextMap, context, latchMap, latch, tasks,
                 wokenBy, result>>

-----------------------------------------------------------------------------
ScriptStep == \E u \in Uuid : PipelineStep(u) /\ UNCHANGED nativeVars

ThreadStep ==
  \E u \in Uuid : Intercept(u) \/ Released(u) \/ WaitOver(u) \/ Resume(u)

PoolStep ==
  \/ \E m \in unlocks : UnlockRefused(m) \/ UnlockFound(m)
  \/ \E t \in tasks : PutContext(t) \/ CountDown(t)
  \/ \E r \in Token : DestroyReplicator(r)

Next == ScriptStep \/ ThreadStep \/ PoolStep

Safe == Init /\ [][Next]_vars

\* Threads that can run do run and timers fire; HTTP requests, done() calls
\* and destroyReplicator are up to the library and the application.
Fairness ==
  /\ PipelineFairness
  /\ \A u \in Uuid : WF_vars(Released(u) \/ WaitOver(u) \/ Resume(u))
  /\ WF_vars(\E m \in unlocks : UnlockRefused(m) \/ UnlockFound(m))
  /\ WF_vars(\E t \in tasks : PutContext(t) \/ CountDown(t))

Spec == Safe /\ Fairness

-----------------------------------------------------------------------------
(* Properties *)

Waiting(u) == pc[u] \in {"waiting", "awake"}

\* An HTTP thread finds its cached context when it wakes, or it would die of
\* a NullPointerException inside the replication library; and no entry
\* outlives the thread that waits for it, so contextMap cannot grow with late
\* or lost answers (SyncPluginInterceptor.java, get and remove after await).
ContextCached == \A u \in Uuid : u \in contextMap <=> Waiting(u)

\* The latch of a waiting thread is never mislaid: it is in latchMap, or in
\* the hands of a pool thread that will count it down, or counted down.
LatchAccounted ==
  \A u \in Uuid : pc[u] = "waiting" =>
    \/ u \in latchMap
    \/ latch[u] = 0
    \/ \E t \in tasks : t.call.uuid = u /\ t.hasLatch

\* JavaScript answers an interception at most once, however its promise chain,
\* its timer and its done() calls race (emit in www/replicator.js).
SingleAnswer == \A u \in Uuid : Len(sent[u]) <= 1

\* A thread that was let go by its latch goes on with exactly what JavaScript
\* answered: the answer is in the context before the latch opens.
AnswerApplied ==
  \A u \in Uuid : pc[u] = "returned" /\ wokenBy[u] = "latch" =>
    /\ sent[u] # <<>>
    /\ result[u] = Updated(sent[u][1],
                           [request |-> <<>>, replay |-> <<>>])[Field(u)]

\* The request or response goes on untouched or as ALL its interceptors left
\* it, in order: not a timeout, an exception, a lost answer or a race of the
\* answer with the end of the wait lets a partial change through.
AllOrNothing ==
  \A u \in Uuid : pc[u] = "returned" => result[u] \in {<<>>, Chain(Hooks(u))}

\* "Interceptors are executed in a pipeline and modify the connection context
\* in a serial fashion": one is invoked only after those before it are done.
SerialInterceptors ==
  \A u \in Uuid :
    /\ edits[u] = Chain(Len(edits[u]))
    /\ 1..(stage[u] - 1) \subseteq finished[u]

\* A latch stays behind in latchMap only after a wait that ended without an
\* answer, and only until an answer reaches updateContext.
LatchLeftByTimerOnly ==
  \A u \in latchMap : pc[u] = "returned" => wokenBy[u] = "timer"

\* The two maps follow the HTTP threads, whatever is under way between them
\* and JavaScript: an entry is there when its thread needs it, and is left
\* behind only by a wait without an answer.
MapsFollowThread == ContextCached /\ LatchAccounted /\ LatchLeftByTimerOnly

\* An answer that comes too late changes nothing the native side keeps for the
\* interception, nor what the thread went on with.
LateAnswerIgnored ==
  [][\A u \in Uuid : pc[u] = "returned" =>
       /\ (u \in contextMap)' = (u \in contextMap)
       /\ context'[u] = context[u]
       /\ result'[u] = result[u]]_vars

\* Without the 60-second timer, whatever the interceptors do and whichever of
\* the chain and the timer of the page is first: only a destroyed replicator,
\* or an interceptor that threw null or undefined (the `.catch` of emit reads
\* error.message and dies), can leave a thread waiting.
AnswerReachesThread ==
  \A u \in Uuid : pc[u] = "waiting" ~>
    \/ pc[u] = "returned"
    \/ origin[u].token \notin interceptors
    \/ promise[u] = "empty" /\ settled[u] /\ ~Sent(u)

-----------------------------------------------------------------------------
(* The inductive invariant behind MapsFollowThread, SingleAnswer, AnswerApplied
   and AllOrNothing.  It follows the one answer of each
   interception: not sent, in a message, in a pool thread, in the context. *)

Original == [request |-> <<>>, replay |-> <<>>]

\* The context once the answer of u is in it.
Answered(u) == Updated(sent[u][1], Original)

\* An interception that has not begun has left no trace anywhere; an event
\* still on its way has not been looked at.
BeginInv ==
  \A u \in Uuid :
    /\ pc[u] = "idle" =>
         /\ u \notin events \cup latchMap
         /\ promise[u] = "none" /\ ~settled[u]
         /\ latch[u] = 1
         /\ context[u] = Original
    /\ pc[u] # "idle" /\ ~Sent(u) => u \in latchMap
    /\ u \in events => promise[u] = "none" /\ ~settled[u]

\* A message carries the answer of an interception nobody has begun to unlock.
MessageInv ==
  \A m \in unlocks :
    /\ Sent(m.uuid)
    /\ m.token = origin[m.uuid].token
    /\ m.context = sent[m.uuid][1]
    /\ m.uuid \in latchMap
    /\ context[m.uuid] = Original

\* So does a pool thread, which holds the latch and is alone with it; past the
\* put, a thread that still waits has the answer in its context.
TaskInv ==
  /\ \A t \in tasks :
       /\ Sent(t.call.uuid)
       /\ t.call.context = sent[t.call.uuid][1]
       /\ t.call.uuid \notin latchMap
       /\ t.hasLatch
       /\ latch[t.call.uuid] = 1
       /\ t.at = "updating" => context[t.call.uuid] = Original
       /\ t.at = "unlocking" /\ Waiting(t.call.uuid) =>
            context[t.call.uuid] = Answered(t.call.uuid)
  /\ \A t1, t2 \in tasks : t1.call.uuid = t2.call.uuid => t1 = t2

\* A latch still in the map is closed; an open one stands for an answer put.
LatchInv ==
  \A u \in Uuid :
    /\ u \in latchMap => latch[u] = 1
    /\ latch[u] = 0 =>
         Sent(u) /\ (Waiting(u) => context[u] = Answered(u))

\* The context holds what it began with or the answer; a thread is woken by
\* an open latch only, and takes its result from the context.
WakeInv ==
  \A u \in Uuid :
    /\ context[u] # Original => Sent(u) /\ context[u] = Answered(u)
    /\ pc[u] \in {"idle", "waiting"} <=> wokenBy[u] = "none"
    /\ wokenBy[u] = "latch" => latch[u] = 0
    /\ pc[u] = "returned" =>
         /\ wokenBy[u] = "latch" => result[u] = Answered(u)[Field(u)]
         /\ result[u] # <<>> => Sent(u) /\ result[u] = Answered(u)[Field(u)]

HandshakeInv ==
  /\ ContextCached /\ LatchAccounted
  /\ BeginInv /\ AnswerInv /\ MessageInv /\ TaskInv /\ LatchInv /\ WakeInv

-----------------------------------------------------------------------------
(* Refinement *)

StatusOf(u) == CASE pc[u] = "idle" -> "idle"
                 [] Waiting(u) -> "open"
                 [] OTHER -> "closed"

OutcomeOf(u) == CASE pc[u] # "returned" -> "none"
                  [] pc[u] = "returned" /\ result[u] = <<>> -> "original"
                  [] pc[u] = "returned" /\ result[u] # <<>> ->
                       IF result[u] = Chain(Hooks(u)) THEN "complete"
                       ELSE "partial"

\* Interception as the replication library may rely on it: every thread that
\* reaches an interception point is let go, with all changes or with none.
Interception == INSTANCE HttpInterception WITH
  status <- [u \in Uuid |-> StatusOf(u)],
  outcome <- [u \in Uuid |-> OutcomeOf(u)]

ImplementsInterception == Interception!Spec

=============================================================================
