---------------------- MODULE SyncPluginInterceptorIOS ----------------------
(***************************************************************************)
(* HTTP interception on iOS: CDTSyncPluginInterceptor.m and the action     *)
(* unlockInterceptor (CDTSyncPlugin.m), composed with the JavaScript       *)
(* pipeline that answers.                                                  *)
(*                                                                         *)
(* As on Android, an HTTP thread caches its context and something to wait  *)
(* on, here a semaphore, sends the event and waits for at most 60 seconds. *)
(* Unlike Android, one lock protects both maps, the thread clears BOTH of  *)
(* its entries when it wakes, and updateContext signals whatever it found  *)
(* in the map, if anything.  destroyReplicator keeps the interceptor, so   *)
(* unlockInterceptor always finds it.                                      *)
(***************************************************************************)
EXTENDS InterceptorPipeline

VARIABLES
  pc,            \* where each HTTP thread is
  contextMap,    \* keys of contextMap
  context,       \* the dictionary cached for each interception
  semaphoreMap,  \* keys of semaphoreMap
  semaphore,     \* count of the semaphore of each interception
  tasks,         \* updateContext calls between the lock and the signal
  wokenBy,       \* history: what ended each wait
  result,        \* what each HTTP thread took from its context
  crashed        \* the process has signalled a null semaphore

nativeVars == <<pc, contextMap, context, semaphoreMap, semaphore, tasks,
                wokenBy, result, crashed>>
vars == <<pipelineVars, nativeVars>>

\* A block past the lock of updateContext, and whether it found the semaphore.
Task == [uuid: Uuid, found: BOOLEAN]

TypeOK ==
  /\ PipelineTypeOK
  /\ pc \in [Uuid -> {"idle", "waiting", "awake", "returned"}]
  /\ contextMap \subseteq Uuid
  /\ context \in [Uuid -> [request: Seq(Nat), replay: Seq(Nat)]]
  /\ semaphoreMap \subseteq Uuid
  /\ semaphore \in [Uuid -> {0, 1}]
  /\ tasks \subseteq Task
  /\ wokenBy \in [Uuid -> {"none", "signal", "timer"}]
  /\ result \in [Uuid -> Seq(Nat)]
  /\ crashed \in BOOLEAN

Init ==
  /\ PipelineInit
  /\ pc = [u \in Uuid |-> "idle"]
  /\ contextMap = {}
  /\ context = [u \in Uuid |-> [request |-> <<>>, replay |-> <<>>]]
  /\ semaphoreMap = {}
  /\ semaphore = [u \in Uuid |-> 0]
  /\ tasks = {}
  /\ wokenBy = [u \in Uuid |-> "none"]
  /\ result = [u \in Uuid |-> <<>>]
  /\ crashed = FALSE

-----------------------------------------------------------------------------
(* The HTTP thread *)

\* Cache the semaphore and the context, send the event, begin to wait.
Intercept(u) ==
  /\ pc[u] = "idle"
  /\ pc' = [pc EXCEPT ![u] = "waiting"]
  /\ contextMap' = contextMap \cup {u}
  /\ semaphoreMap' = semaphoreMap \cup {u}
  /\ events' = events \cup {u}
  /\ UNCHANGED <<origin, stage, edits, finished, surplus, promise, settled,
                 unlocks, sent, context, semaphore, tasks, wokenBy, result,
                 crashed>>

Signalled(u) ==
  /\ pc[u] = "waiting"
  /\ semaphore[u] > 0
  /\ pc' = [pc EXCEPT ![u] = "awake"]
  /\ semaphore' = [semaphore EXCEPT ![u] = @ - 1]
  /\ wokenBy' = [wokenBy EXCEPT ![u] = "signal"]
  /\ UNCHANGED <<pipelineVars, contextMap, context, semaphoreMap, tasks,
                 result, crashed>>

\* The wait ends after 60 seconds; its return value is not looked at.
WaitOver(u) ==
  /\ pc[u] = "waiting"
  /\ semaphore[u] = 0
  /\ pc' = [pc EXCEPT ![u] = "awake"]
  /\ wokenBy' = [wokenBy EXCEPT ![u] = "timer"]
  /\ UNCHANGED <<pipelineVars, contextMap, context, semaphoreMap, semaphore,
                 tasks, result, crashed>>

\* The field of its cached context that the thread of u reads.
Field(u) == IF origin[u].kind = "request" THEN "request" ELSE "replay"

\* Mutant: the context stays in the map.
ResumeKeepsContext(u) ==
  /\ pc[u] = "awake"
  /\ pc' = [pc EXCEPT ![u] = "returned"]
  /\ semaphoreMap' = semaphoreMap \ {u}
  /\ result' = [result EXCEPT ![u] = context[u][Field(u)]]
  /\ UNCHANGED <<pipelineVars, contextMap, context, semaphore, tasks, wokenBy,
                 crashed>>

\* Under the lock, take both entries out; then use the context, which nobody
\* else can reach any more.
Resume(u) ==
  /\ pc[u] = "awake"
  /\ pc' = [pc EXCEPT ![u] = "returned"]
  /\ semaphoreMap' = semaphoreMap \ {u}
  /\ contextMap' = contextMap \ {u}
  /\ result' = [result EXCEPT ![u] = context[u][Field(u)]]
  /\ UNCHANGED <<pipelineVars, context, semaphore, tasks, wokenBy, crashed>>

-----------------------------------------------------------------------------
(* unlockInterceptor on the background queue *)

\* The fields taken over from the answer: headers that are not there leave the
\* request as it was, and so does a replay flag (it was NO to begin with).
Updated(c, old) ==
  [request |-> IF c.given /\ c.requestOk THEN c.edits ELSE old.request,
   replay |-> IF c.given /\ c.replayOk THEN c.edits ELSE old.replay]

\* Mutant: the context of the answer is dropped.
UpdateContextDropped(m) ==
  LET u == m.uuid IN
  /\ m \in unlocks
  /\ unlocks' = unlocks \ {m}
  /\ tasks' = tasks \cup {[uuid |-> u, found |-> u \in semaphoreMap]}
  /\ UNCHANGED <<origin, events, stage, edits, finished, surplus, promise,
                 settled, sent, pc, contextMap, context, semaphoreMap,
                 semaphore, wokenBy, result, crashed>>

\* updateContext under the lock.
UpdateContext(m) ==
  LET u == m.uuid IN
  /\ m \in unlocks
  /\ unlocks' = unlocks \ {m}
  /\ context' = IF u \in contextMap
                THEN [context EXCEPT ![u] = Updated(m.context, @)]
                ELSE context
  /\ tasks' = tasks \cup {[uuid |-> u, found |-> u \in semaphoreMap]}
  /\ UNCHANGED <<origin, events, stage, edits, finished, surplus, promise,
                 settled, sent, pc, contextMap, semaphoreMap, semaphore,
                 wokenBy, result, crashed>>

\* Mutant: an answer without a context is taken for none at all.
SignalLost(t) ==
  /\ t \in tasks
  /\ t.found
  /\ tasks' = tasks \ {t}
  /\ semaphore' = IF sent[t.uuid][1].given
                  THEN [semaphore EXCEPT ![t.uuid] = @ + 1] ELSE semaphore
  /\ UNCHANGED <<pipelineVars, pc, contextMap, context, semaphoreMap, wokenBy,
                 result, crashed>>

\* dispatch_semaphore_signal after the lock is released.
Signal(t) ==
  /\ t \in tasks
  /\ t.found
  /\ tasks' = tasks \ {t}
  /\ semaphore' = [semaphore EXCEPT ![t.uuid] = @ + 1]
  /\ UNCHANGED <<pipelineVars, pc, contextMap, context, semaphoreMap, wokenBy,
                 result, crashed>>

\* dispatch_semaphore_signal of the null an empty map returned.
SignalNull(t) ==
  /\ t \in tasks
  /\ ~t.found
  /\ tasks' = tasks \ {t}
  /\ crashed' = TRUE
  /\ UNCHANGED <<pipelineVars, pc, contextMap, context, semaphoreMap,
                 semaphore, wokenBy, result>>

-----------------------------------------------------------------------------
ScriptStep == \E u \in Uuid : PipelineStep(u) /\ UNCHANGED nativeVars

ThreadStep ==
  \E u \in Uuid : Intercept(u) \/ Signalled(u) \/ WaitOver(u) \/ Resume(u)

QueueStep ==
  \/ \E m \in unlocks : UpdateContext(m)
  \/ \E t \in tasks : Signal(t) \/ SignalNull(t)

\* Nothing runs in a process that has crashed.
Next == ~crashed /\ (ScriptStep \/ ThreadStep \/ QueueStep)

Safe == Init /\ [][Next]_vars

\* While the process lives, threads that can run do run and the timer of the
\* page fires.  Nothing is assumed of the native timer: it may end a wait,
\* and only a thread that JavaScript never answers may need it.  HTTP requests
\* and done() calls are up to the library and the application.
Fairness ==
  /\ \A u \in Uuid :
       WF_vars(~crashed /\ UNCHANGED nativeVars
               /\ (EmitUnhooked(u) \/ EmitHooked(u) \/ SendContext(u)
                   \/ SendFailure(u) \/ FailureUnreadable(u)
                   \/ InterceptorTimeout(u)))
  /\ \A u \in Uuid :
       WF_vars(~crashed /\ (Signalled(u) \/ Resume(u)))
  /\ WF_vars(~crashed /\ QueueStep)

Spec == Safe /\ Fairness

-----------------------------------------------------------------------------
(* Properties *)

Waiting(u) == pc[u] \in {"waiting", "awake"}

\* Neither map keeps an entry longer than the thread that made it, and none
\* loses one earlier: no leak, no lookup that misses (Resume under the lock).
MapsFollowThread ==
  \A u \in Uuid :
    /\ u \in contextMap <=> Waiting(u)
    /\ u \in semaphoreMap <=> Waiting(u)

\* A thread woken by a signal goes on with exactly what JavaScript answered:
\* the context is written before the semaphore is signalled.
AnswerApplied ==
  \A u \in Uuid : pc[u] = "returned" /\ wokenBy[u] = "signal" =>
    /\ sent[u] # <<>>
    /\ result[u] = Updated(sent[u][1],
                           [request |-> <<>>, replay |-> <<>>])[Field(u)]

\* A process that crashes had a thread that gave up first: only an answer that
\* comes after the 60 seconds finds no semaphore.
CrashNeedsTimer == crashed => \E u \in Uuid : wokenBy[u] = "timer"

\* An interceptor that outlasts the native wait is reported ("timed out in the
\* JavaScript layer", unlockInterceptor in CDTSyncPlugin.m), not fatal.
LateAnswerSurvived == ~crashed

\* Every HTTP thread goes on, even if its 60-second timer never fires, unless
\* an interceptor threw null or undefined, which leaves emit with an error it
\* cannot log and no answer: any answer sent finds the semaphore.
AnswerReachesThread ==
  \A u \in Uuid : pc[u] = "waiting" ~>
    \/ pc[u] = "returned"
    \/ crashed
    \/ promise[u] = "empty" /\ settled[u] /\ ~Sent(u)

-----------------------------------------------------------------------------
(* The inductive invariant behind MapsFollowThread, AnswerApplied and
   CrashNeedsTimer.  The one answer of an interception is not sent, in a
   message, in a block past the lock, in the semaphore, or with its thread. *)

Original == [request |-> <<>>, replay |-> <<>>]

\* The context once the answer of u is in it.
Answered(u) == Updated(sent[u][1], Original)

\* An interception that has not begun has left no trace; an event still on its
\* way has not been looked at; a count or a change stands for the answer.
BeginInv ==
  \A u \in Uuid :
    /\ pc[u] = "idle" =>
         /\ u \notin events
         /\ promise[u] = "none" /\ ~settled[u]
    /\ u \in events => promise[u] = "none" /\ ~settled[u]
    /\ semaphore[u] # 0 => Sent(u) /\ context[u] = Answered(u)
    /\ context[u] # Original => Sent(u) /\ context[u] = Answered(u)

\* A message carries the answer of an interception that no block has touched.
MessageInv ==
  \A m \in unlocks :
    /\ Sent(m.uuid)
    /\ m.token = origin[m.uuid].token
    /\ m.context = sent[m.uuid][1]
    /\ context[m.uuid] = Original
    /\ semaphore[m.uuid] = 0
    /\ wokenBy[m.uuid] # "signal"

\* A block that found the semaphore has put the answer; one that found none is
\* late.
TaskInv ==
  /\ \A t \in tasks :
       /\ Sent(t.uuid)
       /\ semaphore[t.uuid] = 0
       /\ wokenBy[t.uuid] # "signal"
       /\ t.found => context[t.uuid] = Answered(t.uuid)
       /\ ~t.found => wokenBy[t.uuid] = "timer"
       /\ \A m \in unlocks : m.uuid # t.uuid
  /\ \A t1, t2 \in tasks : t1.uuid = t2.uuid => t1 = t2

\* A signal wakes a thread whose answer is in its context, from which it then
\* takes its result.
WakeInv ==
  \A u \in Uuid :
    /\ pc[u] \in {"idle", "waiting"} <=> wokenBy[u] = "none"
    /\ wokenBy[u] = "signal" => Sent(u) /\ context[u] = Answered(u)
    /\ pc[u] = "returned" =>
         /\ wokenBy[u] = "signal" => result[u] = Answered(u)[Field(u)]
         /\ result[u] # <<>> => Sent(u) /\ result[u] = Answered(u)[Field(u)]

HandshakeInv ==
  /\ MapsFollowThread /\ CrashNeedsTimer
  /\ BeginInv /\ AnswerInv /\ MessageInv /\ TaskInv /\ WakeInv

-----------------------------------------------------------------------------
(* Refinement *)

StatusOf(u) == CASE pc[u] = "idle" -> "idle"
                 [] Waiting(u) -> "open"
                 [] OTHER -> "closed"

OutcomeOf(u) == CASE pc[u] # "returned" -> "none"
                  [] pc[u] = "returned" /\ result[u] = <<>> -> "original"
                  [] pc[u] = "returned" /\ result[u] # <<>> ->
                       IF result[u] = Chain(Hooks(u)) THEN "complete"
                       ELSE "partial"

Interception == INSTANCE HttpInterception WITH
  status <- [u \in Uuid |-> StatusOf(u)],
  outcome <- [u \in Uuid |-> OutcomeOf(u)]

\* As far as it lives: safety only.
ImplementsInterception == Interception!Safe

=============================================================================
