-------------------- MODULE SyncPluginInterceptorIOSProofs --------------------
(* Proofs about SyncPluginInterceptorIOS, for every set of interceptions and  *)
(* replicators and any number of installed interceptors.                      *)
EXTENDS SyncPluginInterceptorIOS, InterceptorPipelineProofs, TLAPS

-----------------------------------------------------------------------------
(* Type correctness.  That a semaphore is counted up once at most needs the
   handshake, so the two are one induction. *)

IInv == TypeOK /\ HandshakeInv

LEMMA InitIInv == Init => IInv
<1> SUFFICES ASSUME Init
             PROVE  IInv
  OBVIOUS
<1>1. PipelineTypeOK /\ AnswerInv
  BY InitPipeline DEF Init
<1>2. /\ context \in [Uuid -> [request: Seq(Nat), replay: Seq(Nat)]]
      /\ result \in [Uuid -> Seq(Nat)]
  BY DEF Init
<1>3. TypeOK
  BY <1>1, <1>2 DEF Init, TypeOK
<1> USE DEF Init, PipelineInit
<1>4. MapsFollowThread /\ CrashNeedsTimer
  BY DEF MapsFollowThread, Waiting, CrashNeedsTimer
<1>5. BeginInv /\ MessageInv /\ TaskInv
  BY DEF BeginInv, MessageInv, TaskInv, Original
<1>6. WakeInv
  BY DEF WakeInv
<1> QED
  BY <1>1, <1>3, <1>4, <1>5, <1>6 DEF IInv, HandshakeInv

LEMMA UpdatedType ==
  ASSUME NEW c \in Context, NEW old \in [request: Seq(Nat), replay: Seq(Nat)]
  PROVE  Updated(c, old) \in [request: Seq(Nat), replay: Seq(Nat)]
BY DEF Context, Updated

-----------------------------------------------------------------------------
(* One lemma per kind of step, under it one step per conjunct *)

\* A script step that sends nothing.
LEMMA QuietStep ==
  ASSUME IInv, PipelineTypeOK', NEW u \in Uuid, UNCHANGED nativeVars, Quiet(u),
         events' = events \ {u}, pc[u] # "idle"
  PROVE  IInv'
<1> USE DEF IInv, HandshakeInv, TypeOK, PipelineTypeOK, nativeVars, Quiet,
        Waiting, Answered, Sent
<1>1. TypeOK' /\ MapsFollowThread' /\ CrashNeedsTimer'
  BY DEF MapsFollowThread, CrashNeedsTimer
<1>2. BeginInv'
  BY DEF BeginInv
<1>3. AnswerInv'
  BY DEF AnswerInv
<1>4. MessageInv'
  BY DEF MessageInv
<1>5. TaskInv'
  BY DEF TaskInv
<1>6. WakeInv'
  BY DEF WakeInv, Field
<1> QED
  BY <1>1, <1>2, <1>3, <1>4, <1>5, <1>6

\* A script step that sends the answer.
LEMMA AnswerStep ==
  ASSUME IInv, PipelineTypeOK', NEW u \in Uuid, UNCHANGED nativeVars,
         Answers(u), events' = events \ {u}, pc[u] # "idle"
  PROVE  IInv'
<1>1. PICK c \in Context :
        /\ unlocks' = unlocks \cup
             {[uuid |-> u, token |-> origin[u].token, context |-> c]}
        /\ sent' = [sent EXCEPT ![u] = Append(@, c)]
  BY DEF Answers, Answer
<1>2. sent[u] = <<>> /\ ~Sent(u)
  BY DEF Answers, IInv, HandshakeInv, AnswerInv, Sent
<1>3. Len(sent'[u]) = 1 /\ sent'[u][1] = c /\ Sent(u)'
  BY <1>1, <1>2 DEF IInv, TypeOK, PipelineTypeOK, Sent
<1>4. /\ ~Sent(u) /\ settled'[u]
      /\ \A v \in Uuid \ {u} : /\ sent'[v] = sent[v] /\ settled'[v] = settled[v]
                              /\ Sent(v)' = Sent(v)
      /\ UNCHANGED <<origin, promise>>
  BY <1>1, <1>2 DEF Answers, IInv, TypeOK, PipelineTypeOK, Sent
<1>5. /\ context[u] = Original /\ semaphore[u] = 0 /\ wokenBy[u] # "signal"
      /\ pc[u] = "returned" => result[u] = <<>>
  BY <1>4 DEF IInv, HandshakeInv, BeginInv, WakeInv
<1>6. /\ \A n \in unlocks : n \in Unlock /\ n.uuid \in Uuid \ {u}
      /\ \A t \in tasks : t \in Task /\ t.uuid \in Uuid \ {u}
  BY <1>4 DEF IInv, HandshakeInv, MessageInv, TaskInv, TypeOK, PipelineTypeOK,
              Task, Unlock
<1> USE DEF nativeVars
<1>7. TypeOK' /\ MapsFollowThread' /\ CrashNeedsTimer'
  BY DEF IInv, HandshakeInv, TypeOK, MapsFollowThread, CrashNeedsTimer, Waiting
<1>8. BeginInv'
  BY <1>4, <1>5 DEF IInv, HandshakeInv, BeginInv, Answered
<1>9. AnswerInv'
  <2>1. ASSUME NEW v \in Uuid \ {u}
        PROVE  AnswerInv!(v)'
    BY <1>4 DEF IInv, HandshakeInv, AnswerInv
  <2>2. AnswerInv!(u)'
    BY <1>3, <1>4
  <2> QED
    BY <2>1, <2>2 DEF AnswerInv
<1>10. MessageInv'
  BY <1>1, <1>3, <1>4, <1>5, <1>6 DEF IInv, HandshakeInv, MessageInv, Unlock
<1>11. TaskInv'
  BY <1>1, <1>4, <1>6 DEF IInv, HandshakeInv, TaskInv, Answered
<1>12. WakeInv'
  BY <1>4, <1>5 DEF IInv, HandshakeInv, WakeInv, Answered, Field
<1> QED
  BY <1>7, <1>8, <1>9, <1>10, <1>11, <1>12 DEF IInv, HandshakeInv

LEMMA ScriptIInv ==
  ASSUME IInv, NEW u \in Uuid, PipelineStep(u), UNCHANGED nativeVars
  PROVE  IInv'
<1>1. /\ u \in events => promise[u] = "none" /\ ~settled[u]
      /\ u \in events \/ promise[u] # "none" => pc[u] # "idle"
  BY DEF IInv, HandshakeInv, BeginInv
<1>2. /\ PipelineTypeOK' /\ pc[u] # "idle" /\ events' = events \ {u}
      /\ Quiet(u) \/ Answers(u)
  BY <1>1, ScriptCases, PipelineStepType DEF IInv, TypeOK
<1> QED
  BY <1>2, QuietStep, AnswerStep

LEMMA InterceptIInv ==
  ASSUME IInv, NEW u \in Uuid, Intercept(u)
  PROVE  IInv'
<1> USE DEF Intercept, IInv, HandshakeInv, TypeOK, PipelineTypeOK, Sent
<1>1. TypeOK' /\ MapsFollowThread' /\ CrashNeedsTimer'
  BY DEF MapsFollowThread, CrashNeedsTimer, Waiting
<1>2. BeginInv'
  BY DEF BeginInv, Answered
<1>3. AnswerInv' /\ MessageInv'
  BY DEF AnswerInv, MessageInv
<1>4. TaskInv'
  BY DEF TaskInv, Answered
<1>5. WakeInv'
  BY DEF WakeInv, Answered, Field
<1> QED
  BY <1>1, <1>2, <1>3, <1>4, <1>5

LEMMA SignalledIInv ==
  ASSUME IInv, NEW u \in Uuid, Signalled(u)
  PROVE  IInv'
<1> USE DEF Sent
<1>1. /\ pc[u] = "waiting" /\ semaphore[u] = 1
      /\ pc'[u] = "awake" /\ wokenBy'[u] = "signal" /\ semaphore'[u] = 0
      /\ \A v \in Uuid \ {u} : /\ pc'[v] = pc[v] /\ wokenBy'[v] = wokenBy[v]
                               /\ semaphore'[v] = semaphore[v]
      /\ UNCHANGED <<origin, events, promise, settled, unlocks, sent,
                     contextMap, context, semaphoreMap, tasks, result, crashed>>
  BY DEF Signalled, pipelineVars, IInv, TypeOK
<1>2. Sent(u) /\ context[u] = Answered(u) /\ wokenBy[u] = "none"
  BY <1>1 DEF IInv, HandshakeInv, BeginInv, WakeInv
<1>3. /\ \A m \in unlocks : m.uuid \in Uuid \ {u}
      /\ \A t \in tasks : t.uuid \in Uuid \ {u}
  BY <1>1 DEF IInv, HandshakeInv, MessageInv, TaskInv, TypeOK, PipelineTypeOK,
              Task, Unlock
<1>4. TypeOK'
  <2>1. PipelineTypeOK'
    BY DEF Signalled, pipelineVars, IInv, TypeOK, PipelineTypeOK
  <2>2. /\ pc' \in [Uuid -> {"idle", "waiting", "awake", "returned"}]
        /\ wokenBy' \in [Uuid -> {"none", "signal", "timer"}]
    BY DEF Signalled, IInv, TypeOK
  <2>3. semaphore' \in [Uuid -> {0, 1}]
    BY <1>1 DEF Signalled, IInv, TypeOK
  <2> QED
    BY <1>1, <2>1, <2>2, <2>3 DEF IInv, TypeOK
<1>5. MapsFollowThread'
  BY <1>1 DEF IInv, HandshakeInv, MapsFollowThread, Waiting
<1>6. CrashNeedsTimer'
  BY <1>1, <1>2 DEF IInv, HandshakeInv, CrashNeedsTimer
<1>7. BeginInv' /\ AnswerInv'
  BY <1>1 DEF IInv, HandshakeInv, BeginInv, AnswerInv, Answered
<1>8. MessageInv' /\ TaskInv'
  BY <1>1, <1>3 DEF IInv, HandshakeInv, MessageInv, TaskInv, Answered
<1>9. WakeInv'
  BY <1>1, <1>2 DEF IInv, HandshakeInv, WakeInv, Answered, Field
<1> QED
  BY <1>4, <1>5, <1>6, <1>7, <1>8, <1>9 DEF IInv, HandshakeInv

LEMMA WaitOverIInv ==
  ASSUME IInv, NEW u \in Uuid, WaitOver(u)
  PROVE  IInv'
<1> USE DEF Sent
<1>1. /\ pc[u] = "waiting" /\ pc'[u] = "awake" /\ wokenBy'[u] = "timer"
      /\ \A v \in Uuid \ {u} : pc'[v] = pc[v] /\ wokenBy'[v] = wokenBy[v]
      /\ UNCHANGED <<origin, events, promise, settled, unlocks, sent,
                     contextMap, context, semaphoreMap, semaphore, tasks,
                     result, crashed>>
  BY DEF WaitOver, pipelineVars, IInv, TypeOK
<1>2. /\ \A m \in unlocks : m.uuid \in Uuid
      /\ \A t \in tasks : t.uuid \in Uuid
  BY DEF IInv, TypeOK, PipelineTypeOK, Task, Unlock
<1>3. TypeOK'
  <2>1. PipelineTypeOK'
    BY DEF WaitOver, pipelineVars, IInv, TypeOK, PipelineTypeOK
  <2>2. /\ pc' \in [Uuid -> {"idle", "waiting", "awake", "returned"}]
        /\ wokenBy' \in [Uuid -> {"none", "signal", "timer"}]
    BY DEF WaitOver, IInv, TypeOK
  <2> QED
    BY <1>1, <2>1, <2>2 DEF IInv, TypeOK
<1>4. MapsFollowThread'
  BY <1>1 DEF IInv, HandshakeInv, MapsFollowThread, Waiting
<1>5. CrashNeedsTimer'
  BY <1>1 DEF CrashNeedsTimer
<1>6. BeginInv' /\ AnswerInv'
  BY <1>1 DEF IInv, HandshakeInv, BeginInv, AnswerInv, Answered
<1>7. MessageInv' /\ TaskInv'
  BY <1>1, <1>2 DEF IInv, HandshakeInv, MessageInv, TaskInv, Answered
<1>8. WakeInv'
  BY <1>1 DEF IInv, HandshakeInv, WakeInv, Answered, Field
<1> QED
  BY <1>3, <1>4, <1>5, <1>6, <1>7, <1>8 DEF IInv, HandshakeInv

LEMMA ResumeIInv ==
  ASSUME IInv, NEW u \in Uuid, Resume(u)
  PROVE  IInv'
<1> USE DEF Resume, IInv, HandshakeInv, TypeOK, PipelineTypeOK, pipelineVars,
        Sent
<1>1. TypeOK'
  <2>1. context[u][Field(u)] \in Seq(Nat)
    BY DEF Field
  <2> QED
    BY <2>1
<1>2. MapsFollowThread' /\ CrashNeedsTimer'
  BY DEF MapsFollowThread, CrashNeedsTimer, Waiting
<1>3. BeginInv' /\ AnswerInv' /\ MessageInv'
  BY DEF BeginInv, AnswerInv, MessageInv, Answered
<1>4. TaskInv'
  BY DEF TaskInv, Answered
<1>5. WakeInv'
  <2>1. \A v \in Uuid : Field(v)' = Field(v) /\ Answered(v)' = Answered(v)
    BY DEF Field, Answered
  <2>2. Original[Field(u)] = <<>>
    BY DEF Original, Field
  <2>3. context[u] = Original \/ (Sent(u) /\ context[u] = Answered(u))
    BY DEF BeginInv
  <2>4. result'[u] = context[u][Field(u)] /\ pc'[u] = "returned"
    OBVIOUS
  <2> SUFFICES ASSUME NEW v \in Uuid
               PROVE  WakeInv!(v)'
    BY DEF WakeInv
  <2>5. CASE v = u
    BY <2>1, <2>2, <2>3, <2>4, <2>5 DEF WakeInv
  <2>6. CASE v # u
    <3>1. /\ pc'[v] = pc[v] /\ result'[v] = result[v]
          /\ UNCHANGED <<wokenBy, sent, context>>
      BY <2>6
    <3>2. WakeInv!(v)
      BY DEF WakeInv
    <3> HIDE DEF Resume, IInv, HandshakeInv, TypeOK, PipelineTypeOK,
                 pipelineVars
    <3> QED
      BY <2>1, <3>1, <3>2
  <2> QED
    BY <2>5, <2>6
<1> QED
  BY <1>1, <1>2, <1>3, <1>4, <1>5

\* Two messages for one interception would be the same message.
LEMMA OneMessage ==
  ASSUME IInv, NEW m \in unlocks, NEW n \in unlocks, m.uuid = n.uuid
  PROVE  m = n
<1>1. m \in Unlock /\ n \in Unlock
  BY DEF IInv, TypeOK, PipelineTypeOK
<1>2. m.token = n.token /\ m.context = n.context
  BY DEF IInv, HandshakeInv, MessageInv
<1> QED
  BY <1>1, <1>2 DEF Unlock

LEMMA UpdateContextIInv ==
  ASSUME IInv, NEW m \in unlocks, UpdateContext(m)
  PROVE  IInv'
<1> USE DEF Sent
<1> DEFINE u == m.uuid
           t == [uuid |-> u, found |-> u \in semaphoreMap]
<1>1. /\ unlocks' = unlocks \ {m}
      /\ tasks' = tasks \cup {t}
      /\ context' = IF u \in contextMap
                    THEN [context EXCEPT ![u] = Updated(m.context, @)]
                    ELSE context
      /\ UNCHANGED <<origin, events, promise, settled, sent, pc, contextMap,
                     semaphoreMap, semaphore, wokenBy, result, crashed>>
  BY DEF UpdateContext
<1>2. /\ u \in Uuid /\ m.context \in Context /\ Sent(u)
      /\ m.context = sent[u][1] /\ context[u] = Original
      /\ semaphore[u] = 0 /\ wokenBy[u] # "signal"
  BY DEF IInv, TypeOK, PipelineTypeOK, Unlock, HandshakeInv, MessageInv
<1>3. /\ context'[u] = IF Waiting(u) THEN Answered(u) ELSE Original
      /\ \A v \in Uuid \ {u} : context'[v] = context[v]
  BY <1>1, <1>2 DEF IInv, TypeOK, HandshakeInv, MapsFollowThread, Answered
<1>4. t \in Task /\ t.uuid = u /\ (t.found <=> Waiting(u))
  <2>1. t \in Task /\ t.uuid = u /\ t.found = (u \in semaphoreMap)
    BY <1>2 DEF Task
  <2>2. u \in semaphoreMap <=> Waiting(u)
    BY <1>2 DEF IInv, HandshakeInv, MapsFollowThread
  <2> HIDE DEF t
  <2> QED
    BY ONLY <2>1, <2>2, Zenon
<1>5. ~Waiting(u) => wokenBy[u] = "timer" /\ pc[u] = "returned"
  <2>1. pc[u] # "idle"
    BY <1>2 DEF IInv, HandshakeInv, BeginInv, AnswerInv
  <2>2. wokenBy[u] \in {"none", "timer"} /\ (wokenBy[u] = "none" => Waiting(u))
    BY <1>2, <2>1 DEF IInv, TypeOK, HandshakeInv, WakeInv, Waiting
  <2>3. pc[u] \in {"waiting", "awake", "returned"}
    BY <1>2, <2>1 DEF IInv, TypeOK
  <2> QED
    BY <2>2, <2>3 DEF Waiting
<1>6. /\ \A n \in unlocks' : n.uuid \in Uuid \ {u}
      /\ \A s \in tasks : s.uuid \in Uuid \ {u}
  BY <1>1, OneMessage
     DEF IInv, TypeOK, PipelineTypeOK, Unlock, Task, HandshakeInv, TaskInv
<1> HIDE DEF t
<1>7. TypeOK'
  <2>1. Updated(m.context, context[u]) \in [request: Seq(Nat), replay: Seq(Nat)]
    BY <1>2, UpdatedType DEF IInv, TypeOK
  <2>2. context' \in [Uuid -> [request: Seq(Nat), replay: Seq(Nat)]]
    BY <1>1, <2>1 DEF IInv, TypeOK
  <2> QED
    BY <1>4, <2>2 DEF UpdateContext, t, IInv, TypeOK, PipelineTypeOK
<1>8. MapsFollowThread' /\ CrashNeedsTimer' /\ AnswerInv'
  BY <1>1 DEF IInv, HandshakeInv, MapsFollowThread, CrashNeedsTimer, AnswerInv,
              Waiting
<1>9. BeginInv'
  BY <1>1, <1>2, <1>3 DEF IInv, HandshakeInv, BeginInv, Answered
<1>10. MessageInv'
  BY <1>1, <1>3, <1>6 DEF IInv, HandshakeInv, MessageInv
<1>11. TaskInv'
  <2>1. Answered(u)' = Answered(u)
    BY <1>1 DEF Answered
  <2> QED
    BY <1>1, <1>2, <1>3, <1>4, <1>5, <1>6, <2>1
       DEF IInv, HandshakeInv, TaskInv, Answered
<1>12. WakeInv'
  BY <1>1, <1>2, <1>3 DEF IInv, HandshakeInv, WakeInv, Answered, Field
<1> QED
  BY <1>7, <1>8, <1>9, <1>10, <1>11, <1>12 DEF IInv, HandshakeInv

LEMMA SignalIInv ==
  ASSUME IInv, NEW t \in tasks, Signal(t)
  PROVE  IInv'
<1> USE DEF Sent
<1> DEFINE u == t.uuid
<1>1. /\ u \in Uuid /\ Sent(u) /\ semaphore[u] = 0
      /\ wokenBy[u] # "signal" /\ context[u] = Answered(u)
  BY DEF Signal, IInv, TypeOK, Task, HandshakeInv, TaskInv
<1>2. /\ tasks' = tasks \ {t}
      /\ semaphore'[u] = 1
      /\ \A v \in Uuid \ {u} : semaphore'[v] = semaphore[v]
      /\ UNCHANGED <<origin, events, promise, settled, unlocks, sent, pc,
                     contextMap, context, semaphoreMap, wokenBy, result,
                     crashed>>
  BY <1>1 DEF Signal, pipelineVars, IInv, TypeOK
<1>3. /\ \A m \in unlocks : m.uuid \in Uuid \ {u}
      /\ \A s \in tasks' : s.uuid \in Uuid \ {u}
  BY <1>2 DEF IInv, TypeOK, PipelineTypeOK, Task, Unlock, HandshakeInv, TaskInv
<1>4. TypeOK'
  <2>1. semaphore' \in [Uuid -> {0, 1}]
    BY <1>1 DEF Signal, IInv, TypeOK
  <2> QED
    BY <2>1 DEF Signal, pipelineVars, IInv, TypeOK, PipelineTypeOK
<1>5. MapsFollowThread' /\ CrashNeedsTimer' /\ AnswerInv'
  BY <1>2 DEF IInv, HandshakeInv, MapsFollowThread, CrashNeedsTimer, AnswerInv,
              Waiting
<1>6. BeginInv'
  BY <1>1, <1>2 DEF IInv, HandshakeInv, BeginInv, Answered
<1>7. MessageInv' /\ TaskInv'
  BY <1>2, <1>3 DEF IInv, HandshakeInv, MessageInv, TaskInv, Answered
<1>8. WakeInv'
  BY <1>2 DEF IInv, HandshakeInv, WakeInv, Answered, Field
<1> QED
  BY <1>4, <1>5, <1>6, <1>7, <1>8 DEF IInv, HandshakeInv

LEMMA SignalNullIInv ==
  ASSUME IInv, NEW t \in tasks, SignalNull(t)
  PROVE  IInv'
<1> USE DEF SignalNull, pipelineVars, IInv, HandshakeInv, TypeOK,
        PipelineTypeOK, Sent
<1>1. TypeOK' /\ MapsFollowThread'
  BY DEF MapsFollowThread, Waiting
<1>2. CrashNeedsTimer'
  <2>1. t.uuid \in Uuid /\ wokenBy[t.uuid] = "timer"
    BY DEF TaskInv, Task
  <2> QED
    BY <2>1 DEF CrashNeedsTimer
<1>3. BeginInv' /\ AnswerInv' /\ MessageInv'
  BY DEF BeginInv, AnswerInv, MessageInv, Answered
<1>4. TaskInv'
  BY DEF TaskInv, Answered
<1>5. WakeInv'
  BY DEF WakeInv, Answered, Field
<1> QED
  BY <1>1, <1>2, <1>3, <1>4, <1>5

LEMMA StutterIInv ==
  ASSUME IInv, UNCHANGED vars
  PROVE  IInv'
<1> USE DEF vars, pipelineVars, nativeVars, IInv, HandshakeInv, Sent
<1>1. TypeOK' /\ MapsFollowThread' /\ CrashNeedsTimer'
  BY DEF TypeOK, PipelineTypeOK, MapsFollowThread, Waiting, CrashNeedsTimer
<1>2. BeginInv' /\ AnswerInv' /\ MessageInv'
  BY DEF BeginInv, AnswerInv, MessageInv, Answered
<1>3. TaskInv' /\ WakeInv'
  BY DEF TaskInv, WakeInv, Answered, Field
<1> QED
  BY <1>1, <1>2, <1>3

\* The inductive invariant of the iOS handshake: the one answer of each
\* interception is in one place, and what its thread finds when it is woken is
\* that answer.
THEOREM HandshakeCorrect == Spec => []IInv
<1>1. IInv /\ [Next]_vars => IInv'
  BY ScriptIInv, InterceptIInv, SignalledIInv, WaitOverIInv, ResumeIInv,
     UpdateContextIInv, SignalIInv, SignalNullIInv, StutterIInv
     DEF Next, ScriptStep, ThreadStep, QueueStep
<1> QED
  BY InitIInv, <1>1, PTL DEF Spec, Safe

\* Every variable keeps its type: no semaphore is ever counted above one.
THEOREM TypeCorrect == Spec => []TypeOK
<1>1. IInv => TypeOK
  BY DEF IInv
<1> QED
  BY HandshakeCorrect, <1>1, PTL

\* Both maps keep the entries of the waiting threads, and no others.
THEOREM MapsFollowThreadCorrect == Spec => []MapsFollowThread
<1>1. IInv => MapsFollowThread
  BY DEF IInv, HandshakeInv
<1> QED
  BY HandshakeCorrect, <1>1, PTL

\* A process crashes only after some native wait has ended without an answer.
THEOREM CrashNeedsTimerCorrect == Spec => []CrashNeedsTimer
<1>1. IInv => CrashNeedsTimer
  BY DEF IInv, HandshakeInv
<1> QED
  BY HandshakeCorrect, <1>1, PTL

\* A thread woken by a signal goes on with what JavaScript answered.
THEOREM AnswerAppliedCorrect == Spec => []AnswerApplied
<1>1. IInv => AnswerApplied
  <2> SUFFICES ASSUME IInv, NEW u \in Uuid,
                      pc[u] = "returned", wokenBy[u] = "signal"
               PROVE  /\ sent[u] # <<>>
                      /\ result[u] = Answered(u)[Field(u)]
    BY DEF AnswerApplied, Answered, Original
  <2>1. Sent(u)
    BY DEF IInv, HandshakeInv, WakeInv
  <2> QED
    BY <2>1 DEF IInv, HandshakeInv, WakeInv, Sent
<1> QED
  BY HandshakeCorrect, <1>1, PTL

-----------------------------------------------------------------------------
(* The chain, when every interceptor calls done() once *)

LEMMA NextChain ==
  ASSUME SurplusDone = 0, IInv, ChainInv, [Next]_vars
  PROVE  ChainInv'
<1>1. CASE ScriptStep
  <2>1. PICK u \in Uuid : PipelineStep(u)
    BY <1>1 DEF ScriptStep
  <2>2. /\ PipelineTypeOK /\ AnswerInv
        /\ u \in events => promise[u] = "none" /\ ~settled[u]
    BY DEF IInv, TypeOK, HandshakeInv, BeginInv
  <2> QED
    BY <2>1, <2>2, ScriptChain
<1>2. CASE ThreadStep
  BY <1>2, NativeChain DEF ThreadStep, Intercept, Signalled, WaitOver, Resume,
     pipelineVars
<1>3. CASE QueueStep
  BY <1>3, NativeChain DEF QueueStep, UpdateContext, Signal, SignalNull,
     pipelineVars
<1>4. CASE UNCHANGED vars
  BY <1>4, NativeChain DEF vars, pipelineVars
<1> QED
  BY <1>1, <1>2, <1>3, <1>4 DEF Next

THEOREM ChainCorrect ==
  ASSUME SurplusDone = 0
  PROVE  Spec => []ChainInv
<1>1. IInv /\ ChainInv /\ [Next]_vars => ChainInv'
  BY NextChain
<1>2. Init => ChainInv
  BY InitPipeline DEF Init
<1> QED
  BY HandshakeCorrect, <1>1, <1>2, PTL DEF Spec, Safe

\* No partial change reaches the HTTP exchange.
LEMMA ResultAllOrNothing ==
  ASSUME IInv, ChainInv, NEW u \in Uuid, pc[u] = "returned"
  PROVE  result[u] \in {<<>>, Chain(Hooks(u))}
<1> SUFFICES ASSUME result[u] # <<>>
             PROVE  result[u] = Chain(Hooks(u))
  OBVIOUS
<1>1. Sent(u) /\ result[u] = Answered(u)[Field(u)]
  BY DEF IInv, HandshakeInv, WakeInv
<1>2. \/ Answered(u)[Field(u)] = <<>>
      \/ sent[u][1].given /\ Answered(u)[Field(u)] = sent[u][1].edits
  BY DEF Answered, Updated, Original, Field
<1> QED
  BY <1>1, <1>2 DEF ChainInv, Chained

-----------------------------------------------------------------------------
(* Refinement *)

LEMMA InitRefines == Init => Interception!Init
<1> SUFFICES ASSUME Init
             PROVE  Interception!Init
  OBVIOUS
<1>1. ASSUME NEW u \in Uuid
      PROVE  StatusOf(u) = "idle" /\ OutcomeOf(u) = "none"
  <2>1. pc[u] = "idle"
    BY DEF Init
  <2>2. StatusOf(u) = "idle"
    BY <2>1 DEF StatusOf, Waiting
  <2>3. OutcomeOf(u) = "none"
    BY <2>1 DEF OutcomeOf
  <2> QED
    BY <2>2, <2>3
<1> QED
  BY ONLY <1>1 DEF Interception!Init

\* What the mapping shows of a thread depends on these variables only.
LEMMA SameThread ==
  ASSUME UNCHANGED origin, NEW v \in Uuid,
         pc'[v] = pc[v] \/ (Waiting(v) /\ Waiting(v)'),
         result'[v] = result[v]
  PROVE  StatusOf(v)' = StatusOf(v) /\ OutcomeOf(v)' = OutcomeOf(v)
<1>1. CASE pc'[v] = pc[v]
  BY <1>1 DEF StatusOf, OutcomeOf, Waiting, Hooks
<1>2. CASE Waiting(v) /\ Waiting(v)'
  BY <1>2 DEF StatusOf, OutcomeOf, Waiting
<1> QED
  BY <1>1, <1>2

LEMMA StutterRefines ==
  ASSUME UNCHANGED <<origin, result>>,
         \A v \in Uuid : pc'[v] = pc[v] \/ (Waiting(v) /\ Waiting(v)')
  PROVE  UNCHANGED Interception!vars
<1>1. \A v \in Uuid :
        StatusOf(v)' = StatusOf(v) /\ OutcomeOf(v)' = OutcomeOf(v)
  BY SameThread
<1> QED
  BY ONLY <1>1 DEF Interception!vars

LEMMA InterceptRefines ==
  ASSUME IInv, NEW u \in Uuid, Intercept(u)
  PROVE  Interception!Open(u)
<1>1. /\ pc[u] = "idle" /\ pc'[u] = "waiting"
      /\ \A v \in Uuid \ {u} : pc'[v] = pc[v]
      /\ UNCHANGED <<origin, result>>
  BY DEF Intercept, IInv, TypeOK
<1>2. /\ StatusOf(u) = "idle" /\ StatusOf(u)' = "open"
      /\ OutcomeOf(u) = "none" /\ OutcomeOf(u)' = "none"
  BY <1>1 DEF StatusOf, OutcomeOf, Waiting
<1>3. \A v \in Uuid \ {u} :
        StatusOf(v)' = StatusOf(v) /\ OutcomeOf(v)' = OutcomeOf(v)
  BY <1>1, SameThread
<1> QED
  BY ONLY <1>2, <1>3, u \in Uuid DEF Interception!Open

LEMMA ResumeRefines ==
  ASSUME IInv, IInv', ChainInv', NEW u \in Uuid, Resume(u)
  PROVE  Interception!Close(u)
<1>1. /\ pc[u] = "awake" /\ pc'[u] = "returned"
      /\ \A v \in Uuid \ {u} : pc'[v] = pc[v] /\ result'[v] = result[v]
      /\ UNCHANGED origin
  BY DEF Resume, IInv, TypeOK, pipelineVars
<1>2. (pc[u] = "returned" => result[u] \in {<<>>, Chain(Hooks(u))})'
  BY ResultAllOrNothing, PTL
<1>3. OutcomeOf(u)' \in {"original", "complete"}
  BY <1>1, <1>2 DEF OutcomeOf
<1>4. StatusOf(u) = "open" /\ StatusOf(u)' = "closed"
  BY <1>1 DEF StatusOf, Waiting
<1>5. \A v \in Uuid \ {u} :
        StatusOf(v)' = StatusOf(v) /\ OutcomeOf(v)' = OutcomeOf(v)
  BY <1>1, SameThread
<1> QED
  BY ONLY <1>3, <1>4, <1>5, u \in Uuid DEF Interception!Close

LEMMA NextRefines ==
  ASSUME IInv, IInv', ChainInv', [Next]_vars
  PROVE  [Interception!Next]_(Interception!vars)
<1>1. CASE ScriptStep \/ QueueStep \/ UNCHANGED vars
  <2>1. UNCHANGED <<origin, pc, result>>
    BY <1>1 DEF ScriptStep, PipelineStep, EmitUnhooked, EmitHooked, Edit, Done,
       RepeatDone, Throw, SendContext, SendFailure, FailureUnreadable,
       InterceptorTimeout, nativeVars, QueueStep, UpdateContext, Signal,
       SignalNull, pipelineVars, vars
  <2> QED
    BY <2>1, StutterRefines
<1>2. ASSUME NEW u \in Uuid, Signalled(u) \/ WaitOver(u)
      PROVE  UNCHANGED Interception!vars
  <2>1. /\ pc[u] = "waiting" /\ pc'[u] = "awake"
        /\ \A v \in Uuid \ {u} : pc'[v] = pc[v]
        /\ UNCHANGED <<origin, result>>
    BY <1>2 DEF Signalled, WaitOver, pipelineVars, IInv, TypeOK
  <2> QED
    BY <2>1, StutterRefines DEF Waiting
<1>3. CASE ThreadStep
  BY <1>2, <1>3, InterceptRefines, ResumeRefines
     DEF ThreadStep, Interception!Next
<1> QED
  BY <1>1, <1>3 DEF Next

\* As long as the process lives, the iOS handshake implements HttpInterception:
\* each HTTP thread is held and let go at most once, with the original or the
\* completely changed context.
THEOREM RefinesInterception ==
  ASSUME SurplusDone = 0
  PROVE  Spec => ImplementsInterception
<1>1. IInv /\ IInv' /\ ChainInv' /\ [Next]_vars
        => [Interception!Next]_(Interception!vars)
  BY NextRefines
<1> QED
  BY InitRefines, HandshakeCorrect, ChainCorrect, <1>1, PTL
     DEF Spec, Safe, ImplementsInterception, Interception!Safe

=============================================================================
