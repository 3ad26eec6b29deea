--------------------- MODULE SyncPluginInterceptorProofs ---------------------
(* Proofs about SyncPluginInterceptor, for every set of interceptions and   *)
(* replicators and any number of installed interceptors.                    *)
EXTENDS SyncPluginInterceptor, InterceptorPipelineProofs, TLAPS

-----------------------------------------------------------------------------
(* Type correctness *)

LEMMA InitTypeOK == Init => TypeOK
<1> SUFFICES ASSUME Init
             PROVE  TypeOK
  OBVIOUS
<1>1. PipelineTypeOK
  BY InitPipeline DEF Init
<1>2. /\ context \in [Uuid -> [request: Seq(Nat), replay: Seq(Nat)]]
      /\ result \in [Uuid -> Seq(Nat)]
  BY DEF Init
<1> QED
  BY <1>1, <1>2 DEF Init, TypeOK

LEMMA UpdatedType ==
  ASSUME NEW c \in Context, NEW old \in [request: Seq(Nat), replay: Seq(Nat)]
  PROVE  Updated(c, old) \in [request: Seq(Nat), replay: Seq(Nat)]
BY DEF Context, Updated

LEMMA ScriptTypeOK ==
  ASSUME TypeOK, NEW u \in Uuid, PipelineStep(u), UNCHANGED nativeVars
  PROVE  TypeOK'
BY PipelineStepType DEF TypeOK, nativeVars

LEMMA NextTypeOK == TypeOK /\ [Next]_vars => TypeOK'
<1> SUFFICES ASSUME TypeOK, [Next]_vars
             PROVE  TypeOK'
  OBVIOUS
<1>1. ASSUME NEW u \in Uuid, Intercept(u)
      PROVE  TypeOK'
  BY <1>1 DEF Intercept, TypeOK, PipelineTypeOK
<1>2. ASSUME NEW u \in Uuid, Released(u) \/ WaitOver(u)
      PROVE  TypeOK'
  BY <1>2 DEF Released, WaitOver, TypeOK, PipelineTypeOK, pipelineVars
<1>3. ASSUME NEW u \in Uuid, Resume(u)
      PROVE  TypeOK'
  <2>1. context[u][Field(u)] \in Seq(Nat)
    BY DEF TypeOK, Field
  <2> QED
    BY <1>3, <2>1 DEF Resume, TypeOK, PipelineTypeOK, pipelineVars
<1>4. ASSUME NEW m \in unlocks, UnlockRefused(m)
      PROVE  TypeOK'
  BY <1>4 DEF UnlockRefused, TypeOK, PipelineTypeOK, nativeVars
<1>5. ASSUME NEW m \in unlocks, UnlockFound(m)
      PROVE  TypeOK'
  <2>1. m \in Unlock
    BY DEF TypeOK, PipelineTypeOK
  <2>2. [call |-> m, at |-> "updating", hasLatch |-> m.uuid \in latchMap]
          \in Task
    BY <2>1 DEF Task
  <2> QED
    BY <1>5, <2>2 DEF UnlockFound, TypeOK, PipelineTypeOK
<1>6. ASSUME NEW t \in tasks, PutContext(t)
      PROVE  TypeOK'
  <2>1. t \in Task /\ t.call.uuid \in Uuid /\ t.call.context \in Context
    BY DEF TypeOK, Task, Unlock
  <2>2. Updated(t.call.context, context[t.call.uuid])
          \in [request: Seq(Nat), replay: Seq(Nat)]
    BY <2>1, UpdatedType DEF TypeOK
  <2>3. [t EXCEPT !.at = "unlocking"] \in Task
    BY <2>1 DEF Task
  <2>4. context' \in [Uuid -> [request: Seq(Nat), replay: Seq(Nat)]]
    BY <1>6, <2>1, <2>2 DEF PutContext, TypeOK
  <2>5. tasks' \subseteq Task
    BY <1>6, <2>3 DEF PutContext, TypeOK
  <2> QED
    BY <1>6, <2>4, <2>5 DEF PutContext, TypeOK, PipelineTypeOK, pipelineVars
<1>7. ASSUME NEW t \in tasks, CountDown(t)
      PROVE  TypeOK'
  <2>1. t.call.uuid \in Uuid
    BY DEF TypeOK, Task, Unlock
  <2> QED
    BY <1>7, <2>1 DEF CountDown, TypeOK, PipelineTypeOK, pipelineVars
<1>8. ASSUME NEW r \in Token, DestroyReplicator(r)
      PROVE  TypeOK'
  BY <1>8 DEF DestroyReplicator, TypeOK, PipelineTypeOK, pipelineVars
<1>9. CASE UNCHANGED vars
  BY <1>9 DEF vars, pipelineVars, nativeVars, TypeOK, PipelineTypeOK
<1> QED
  BY <1>1, <1>2, <1>3, <1>4, <1>5, <1>6, <1>7, <1>8, <1>9, ScriptTypeOK
     DEF Next, ScriptStep, ThreadStep, PoolStep

\* Every variable keeps its type: what is cached, sent and run stays within
\* the records the code builds.
THEOREM TypeCorrect == Spec => []TypeOK
BY InitTypeOK, NextTypeOK, PTL DEF Spec, Safe

-----------------------------------------------------------------------------
(* The handshake: one step per action, under it one per conjunct *)

LEMMA InitHandshake == Init => HandshakeInv
<1> SUFFICES ASSUME Init
             PROVE  HandshakeInv
  OBVIOUS
<1> USE DEF Init, PipelineInit, Waiting, Original
<1>1. ContextCached
  BY DEF ContextCached
<1>2. LatchAccounted
  BY DEF LatchAccounted
<1>3. BeginInv
  BY DEF BeginInv
<1>4. AnswerInv
  BY InitPipeline
<1>5. MessageInv /\ TaskInv
  BY DEF MessageInv, TaskInv
<1>6. LatchInv
  <2>1. latch = [u \in Uuid |-> 1] /\ latchMap = {}
    BY DEF Init
  <2>2. \A u \in Uuid : latch[u] = 1
    BY ONLY <2>1
  <2>3. ASSUME NEW u \in Uuid
        PROVE  latch[u] # 0 /\ u \notin latchMap
    BY ONLY <2>1, <2>2, <2>3
  <2> QED
    BY ONLY <2>3, Zenon DEF LatchInv
<1>7. WakeInv
  BY DEF WakeInv
<1> QED
  BY <1>1, <1>2, <1>3, <1>4, <1>5, <1>6, <1>7 DEF HandshakeInv

\* A script step that sends nothing moves the chain of one interception whose
\* event has been looked at, or gives it up.
LEMMA QuietStepHandshake ==
  ASSUME TypeOK, HandshakeInv, NEW u \in Uuid, UNCHANGED nativeVars,
         Quiet(u), events' \subseteq events, u \notin events', pc[u] # "idle"
  PROVE  HandshakeInv'
<1> USE DEF HandshakeInv, TypeOK, PipelineTypeOK, nativeVars, Waiting, Answered,
        Sent, Quiet
<1>1. ContextCached' /\ LatchAccounted'
  BY DEF ContextCached, LatchAccounted
<1>2. BeginInv'
  BY DEF BeginInv
<1>3. AnswerInv' /\ MessageInv'
  BY DEF AnswerInv, MessageInv
<1>4. TaskInv'
  BY DEF TaskInv
<1>5. LatchInv'
  BY DEF LatchInv
<1>6. WakeInv'
  BY DEF WakeInv, Field
<1> QED
  BY <1>1, <1>2, <1>3, <1>4, <1>5, <1>6

\* Settling the timed promise of an interception sends its one answer.
LEMMA AnswerStepHandshake ==
  ASSUME TypeOK, HandshakeInv, NEW u \in Uuid, NEW c \in Context,
         Answer(u, c), settled' = [settled EXCEPT ![u] = TRUE],
         ~settled[u], pc[u] # "idle", events' \subseteq events,
         u \notin events', UNCHANGED <<origin, promise>>, UNCHANGED nativeVars
  PROVE  HandshakeInv'
<1> DEFINE m == [uuid |-> u, token |-> origin[u].token, context |-> c]
<1>1. /\ unlocks' = unlocks \cup {m}
      /\ sent' = [sent EXCEPT ![u] = Append(@, c)]
  BY DEF Answer
<1>2. sent[u] = <<>> /\ ~Sent(u)
  BY DEF HandshakeInv, AnswerInv, Sent
<1>3. Len(sent'[u]) = 1 /\ sent'[u][1] = c /\ Sent(u)'
  BY <1>1, <1>2 DEF TypeOK, PipelineTypeOK, Sent
<1>4. \A v \in Uuid \ {u} : /\ sent'[v] = sent[v] /\ settled'[v] = settled[v]
                            /\ Sent(v)' = Sent(v)
  BY <1>1 DEF TypeOK, PipelineTypeOK, Sent
<1>5. settled'[u] /\ context[u] = Original /\ u \in latchMap
  BY <1>2 DEF TypeOK, PipelineTypeOK, HandshakeInv, BeginInv, WakeInv
<1>6. /\ \A n \in unlocks : n \in Unlock /\ n.uuid # u
      /\ \A t \in tasks : t \in Task /\ t.call.uuid \in Uuid \ {u}
  BY <1>2 DEF TypeOK, PipelineTypeOK, HandshakeInv, MessageInv, TaskInv, Task,
              Unlock
<1> USE DEF nativeVars
<1>7. ContextCached' /\ LatchAccounted'
  BY DEF HandshakeInv, ContextCached, LatchAccounted, Waiting
<1>8. BeginInv'
  BY <1>3, <1>4, <1>5 DEF HandshakeInv, BeginInv
<1>9. AnswerInv'
  <2>1. ASSUME NEW v \in Uuid \ {u}
        PROVE  AnswerInv!(v)'
    BY <1>4 DEF HandshakeInv, AnswerInv
  <2>2. AnswerInv!(u)'
    BY <1>3, <1>5
  <2> QED
    BY <2>1, <2>2 DEF AnswerInv
<1>10. MessageInv'
  BY <1>1, <1>3, <1>4, <1>5, <1>6 DEF HandshakeInv, MessageInv, Unlock
<1>11. TaskInv'
  BY <1>4, <1>6 DEF HandshakeInv, TaskInv, Waiting, Answered
<1>12. LatchInv'
  BY <1>3, <1>4, <1>5 DEF HandshakeInv, LatchInv, Waiting, Answered
<1>13. WakeInv'
  <2>1. result[u] = <<>> \/ pc[u] # "returned"
    BY <1>2 DEF HandshakeInv, WakeInv
  <2>2. wokenBy[u] # "latch"
    BY <1>5 DEF HandshakeInv, WakeInv, LatchInv
  <2> QED
    BY <1>3, <1>4, <1>5, <2>1, <2>2
       DEF HandshakeInv, WakeInv, Answered, Field
<1> QED
  BY <1>7, <1>8, <1>9, <1>10, <1>11, <1>12, <1>13 DEF HandshakeInv

LEMMA ScriptHandshake ==
  ASSUME TypeOK, HandshakeInv, NEW u \in Uuid, PipelineStep(u),
         UNCHANGED nativeVars
  PROVE  HandshakeInv'
<1>1. /\ u \in events => promise[u] = "none" /\ ~settled[u]
      /\ u \in events \/ promise[u] # "none" => pc[u] # "idle"
  BY DEF HandshakeInv, BeginInv
<1>2. /\ pc[u] # "idle" /\ events' \subseteq events /\ u \notin events'
      /\ Quiet(u) \/ Answers(u)
  BY <1>1, ScriptCases DEF TypeOK
<1>3. CASE Quiet(u)
  BY <1>2, <1>3, QuietStepHandshake
<1>4. CASE Answers(u)
  BY <1>2, <1>4, AnswerStepHandshake DEF Answers
<1> QED
  BY <1>2, <1>3, <1>4

LEMMA InterceptHandshake ==
  ASSUME TypeOK, HandshakeInv, NEW u \in Uuid, Intercept(u)
  PROVE  HandshakeInv'
<1> USE DEF Intercept, HandshakeInv, TypeOK, PipelineTypeOK, Sent
<1>1. ContextCached'
  BY DEF ContextCached, Waiting
<1>2. LatchAccounted'
  BY DEF LatchAccounted
<1>3. BeginInv'
  BY DEF BeginInv
<1>4. AnswerInv'
  BY DEF AnswerInv
<1>5. MessageInv'
  BY DEF MessageInv
<1>6. TaskInv'
  <2>1. \A t \in tasks : t.call.uuid # u
    BY DEF TaskInv, BeginInv, AnswerInv
  <2> QED
    BY <2>1 DEF TaskInv, Waiting, Answered
<1>7. LatchInv'
  BY DEF LatchInv, BeginInv, Waiting, Answered
<1>8. WakeInv'
  BY DEF WakeInv, Answered, Field
<1> QED
  BY <1>1, <1>2, <1>3, <1>4, <1>5, <1>6, <1>7, <1>8

LEMMA WakeHandshake ==
  ASSUME TypeOK, HandshakeInv, NEW u \in Uuid, Released(u) \/ WaitOver(u)
  PROVE  HandshakeInv'
<1> USE DEF Sent
<1>1. PICK by \in {"latch", "timer"} :
        /\ pc[u] = "waiting"
        /\ by = "latch" => latch[u] = 0
        /\ pc' = [pc EXCEPT ![u] = "awake"]
        /\ wokenBy' = [wokenBy EXCEPT ![u] = by]
        /\ UNCHANGED <<origin, events, promise, settled, unlocks, sent,
                       contextMap, context, latchMap, latch, tasks, result>>
  <2>1. CASE Released(u)
    BY <2>1 DEF Released, pipelineVars
  <2>2. CASE WaitOver(u)
    BY <2>2 DEF WaitOver, pipelineVars
  <2> QED
    BY <2>1, <2>2
<1>2. /\ pc'[u] = "awake" /\ wokenBy'[u] = by
      /\ \A v \in Uuid \ {u} : pc'[v] = pc[v] /\ wokenBy'[v] = wokenBy[v]
  BY <1>1 DEF TypeOK
<1>3. \A t \in tasks : t.call.uuid \in Uuid
  BY DEF TypeOK, Task, Unlock
<1>4. ContextCached' /\ LatchAccounted'
  BY <1>1, <1>2 DEF HandshakeInv, ContextCached, LatchAccounted, Waiting
<1>5. BeginInv'
  BY <1>1, <1>2 DEF HandshakeInv, BeginInv
<1>6. AnswerInv' /\ MessageInv'
  BY <1>1 DEF HandshakeInv, AnswerInv, MessageInv
<1>7. TaskInv'
  BY <1>1, <1>2, <1>3 DEF HandshakeInv, TaskInv, Waiting, Answered
<1>8. LatchInv'
  BY <1>1, <1>2 DEF HandshakeInv, LatchInv, Waiting, Answered
<1>9. WakeInv'
  BY <1>1, <1>2 DEF HandshakeInv, WakeInv, Answered, Field
<1> QED
  BY <1>4, <1>5, <1>6, <1>7, <1>8, <1>9 DEF HandshakeInv

LEMMA ResumeHandshake ==
  ASSUME TypeOK, HandshakeInv, NEW u \in Uuid, Resume(u)
  PROVE  HandshakeInv'
<1> USE DEF Resume, HandshakeInv, TypeOK, PipelineTypeOK, pipelineVars, Sent
<1>1. ContextCached' /\ LatchAccounted'
  BY DEF ContextCached, LatchAccounted, Waiting
<1>2. BeginInv'
  BY DEF BeginInv
<1>3. AnswerInv' /\ MessageInv'
  BY DEF AnswerInv, MessageInv
<1>4. TaskInv'
  BY DEF TaskInv, Waiting, Answered
<1>5. LatchInv'
  BY DEF LatchInv, Waiting, Answered
<1>6. WakeInv'
  <2>1. \A v \in Uuid : Field(v)' = Field(v) /\ Answered(v)' = Answered(v)
    BY DEF Field, Answered
  <2>2. wokenBy[u] = "latch" => context[u] = Answered(u)
    BY DEF WakeInv, LatchInv, Waiting
  <2>3. Original[Field(u)] = <<>>
    BY DEF Original, Field
  <2>4. result'[u] = context[u][Field(u)]
    OBVIOUS
  <2>5. context[u] = Original \/ (Sent(u) /\ context[u] = Answered(u))
    BY DEF WakeInv
  <2>6. ASSUME NEW v \in Uuid, v # u
        PROVE  pc'[v] = pc[v] /\ result'[v] = result[v]
    BY <2>6
  <2>7. ASSUME NEW v \in Uuid, pc'[v] = "returned"
        PROVE  /\ wokenBy[v] = "latch" => result'[v] = Answered(v)[Field(v)]
               /\ result'[v] # <<>> =>
                    Sent(v) /\ result'[v] = Answered(v)[Field(v)]
    <3>1. CASE v = u
      BY <2>2, <2>3, <2>4, <2>5, <3>1
    <3>2. CASE v # u
      BY <2>6, <2>7, <3>2 DEF WakeInv
    <3> QED
      BY <3>1, <3>2
  <2>8. \A v \in Uuid : pc'[v] \in {"idle", "waiting"} <=> wokenBy[v] = "none"
    BY DEF WakeInv
  <2>9. \A v \in Uuid :
          /\ context[v] # Original => Sent(v) /\ context[v] = Answered(v)
          /\ wokenBy[v] = "latch" => latch[v] = 0
    BY DEF WakeInv
  <2>10. /\ UNCHANGED <<sent, context, wokenBy, latch>>
         /\ Original' = Original
    BY DEF Original
  <2> HIDE DEF Resume, TypeOK, PipelineTypeOK, HandshakeInv
  <2> QED
    BY <2>1, <2>7, <2>8, <2>9, <2>10 DEF WakeInv
<1> QED
  BY <1>1, <1>2, <1>3, <1>4, <1>5, <1>6

LEMMA UnlockRefusedHandshake ==
  ASSUME TypeOK, HandshakeInv, NEW m \in unlocks, UnlockRefused(m)
  PROVE  HandshakeInv'
<1> USE DEF UnlockRefused, HandshakeInv, nativeVars, Sent
<1>1. ContextCached' /\ LatchAccounted'
  BY DEF ContextCached, LatchAccounted, Waiting
<1>2. BeginInv'
  BY DEF BeginInv
<1>3. AnswerInv' /\ MessageInv'
  BY DEF AnswerInv, MessageInv
<1>4. TaskInv'
  BY DEF TaskInv, Waiting, Answered
<1>5. LatchInv'
  BY DEF LatchInv, Waiting, Answered
<1>6. WakeInv'
  BY DEF WakeInv, Answered, Field
<1> QED
  BY <1>1, <1>2, <1>3, <1>4, <1>5, <1>6

\* Two messages for one interception would be the same message.
LEMMA OneMessage ==
  ASSUME TypeOK, HandshakeInv, NEW m \in unlocks, NEW n \in unlocks,
         m.uuid = n.uuid
  PROVE  m = n
<1>1. m \in Unlock /\ n \in Unlock
  BY DEF TypeOK, PipelineTypeOK
<1>2. m.token = n.token /\ m.context = n.context
  BY DEF HandshakeInv, MessageInv
<1> QED
  BY <1>1, <1>2 DEF Unlock

LEMMA UnlockFoundHandshake ==
  ASSUME TypeOK, HandshakeInv, NEW m \in unlocks, UnlockFound(m)
  PROVE  HandshakeInv'
<1> USE DEF Sent
<1> DEFINE new == [call |-> m, at |-> "updating",
                   hasLatch |-> m.uuid \in latchMap]
<1>1. /\ unlocks' = unlocks \ {m}
      /\ latchMap' = latchMap \ {m.uuid}
      /\ tasks' = tasks \cup {new}
      /\ UNCHANGED <<origin, events, promise, settled, sent, pc, contextMap,
                     context, latch, wokenBy, result>>
  BY DEF UnlockFound
<1>2. /\ m.uuid \in Uuid /\ Sent(m.uuid) /\ m.uuid \in latchMap
      /\ m.context = sent[m.uuid][1] /\ context[m.uuid] = Original
      /\ latch[m.uuid] = 1
  BY DEF TypeOK, PipelineTypeOK, Unlock, HandshakeInv, MessageInv, LatchInv
<1>3. /\ new.call = m /\ new.at = "updating" /\ new.hasLatch
  BY <1>2
<1> HIDE DEF new
<1>4. ContextCached'
  BY <1>1 DEF HandshakeInv, ContextCached, Waiting
<1>5. LatchAccounted'
  BY <1>1, <1>3 DEF HandshakeInv, LatchAccounted
<1>6. BeginInv'
  BY <1>1, <1>2 DEF HandshakeInv, BeginInv
<1>7. AnswerInv'
  BY <1>1 DEF HandshakeInv, AnswerInv
<1>8. MessageInv'
  BY <1>1, OneMessage DEF HandshakeInv, MessageInv
<1>9. TaskInv'
  BY <1>1, <1>2, <1>3 DEF HandshakeInv, TaskInv, Waiting, Answered
<1>10. LatchInv'
  BY <1>1 DEF HandshakeInv, LatchInv, Waiting, Answered
<1>11. WakeInv'
  BY <1>1 DEF HandshakeInv, WakeInv, Answered, Field
<1> QED
  BY <1>4, <1>5, <1>6, <1>7, <1>8, <1>9, <1>10, <1>11 DEF HandshakeInv

LEMMA PutContextHandshake ==
  ASSUME TypeOK, HandshakeInv, NEW t \in tasks, PutContext(t)
  PROVE  HandshakeInv'
<1> USE DEF Sent
<1> DEFINE u == t.call.uuid
           t2 == [t EXCEPT !.at = "unlocking"]
<1>1. /\ t.at = "updating"
      /\ context' = IF u \in contextMap
                    THEN [context EXCEPT ![u] = Updated(t.call.context, @)]
                    ELSE context
      /\ tasks' = (tasks \ {t}) \cup {t2}
      /\ UNCHANGED <<origin, events, promise, settled, sent, unlocks, pc,
                     contextMap, latchMap, latch, wokenBy, result>>
  BY DEF PutContext, pipelineVars
<1>2. /\ t \in Task /\ u \in Uuid /\ Sent(u) /\ t.hasLatch
      /\ t.call.context = sent[u][1] /\ context[u] = Original
      /\ latch[u] = 1 /\ u \notin latchMap /\ pc[u] # "idle"
  <2>1. t \in Task /\ u \in Uuid
    BY DEF TypeOK, Task, Unlock
  <2>2. /\ Sent(u) /\ t.hasLatch /\ t.call.context = sent[u][1]
        /\ context[u] = Original /\ latch[u] = 1 /\ u \notin latchMap
    BY <1>1 DEF HandshakeInv, TaskInv
  <2>3. pc[u] # "idle"
    BY <2>1, <2>2 DEF HandshakeInv, BeginInv, AnswerInv
  <2> QED
    BY <2>1, <2>2, <2>3
<1>3. t2.call = t.call /\ t2.at = "unlocking" /\ t2.hasLatch
  BY <1>2 DEF Task
<1>4. /\ context'[u] = IF Waiting(u) THEN Answered(u) ELSE Original
      /\ \A v \in Uuid \ {u} : context'[v] = context[v]
  BY <1>1, <1>2 DEF TypeOK, Answered, HandshakeInv, ContextCached
<1>5. \A s \in tasks : s.call.uuid = u => s = t
  BY DEF HandshakeInv, TaskInv
<1> HIDE DEF t2
<1>6. ContextCached'
  BY <1>1 DEF HandshakeInv, ContextCached, Waiting
<1>7. LatchAccounted'
  BY <1>1, <1>3 DEF HandshakeInv, LatchAccounted
<1>8. BeginInv'
  BY <1>1, <1>2, <1>4 DEF HandshakeInv, BeginInv
<1>9. AnswerInv'
  BY <1>1 DEF HandshakeInv, AnswerInv
<1>10. MessageInv'
  BY <1>1, <1>2, <1>4
     DEF HandshakeInv, MessageInv, TypeOK, PipelineTypeOK, Unlock
<1>11. TaskInv'
  <2>1. \A s \in tasks : s.call.uuid \in Uuid
    BY DEF TypeOK, Task, Unlock
  <2> QED
    BY <1>1, <1>2, <1>3, <1>4, <1>5, <2>1
       DEF HandshakeInv, TaskInv, Waiting, Answered
<1>12. LatchInv'
  BY <1>1, <1>2, <1>4 DEF HandshakeInv, LatchInv, Waiting, Answered
<1>13. WakeInv'
  BY <1>1, <1>2, <1>4 DEF HandshakeInv, WakeInv, Waiting, Answered, Field
<1> QED
  BY <1>6, <1>7, <1>8, <1>9, <1>10, <1>11, <1>12, <1>13 DEF HandshakeInv

LEMMA CountDownHandshake ==
  ASSUME TypeOK, HandshakeInv, NEW t \in tasks, CountDown(t)
  PROVE  HandshakeInv'
<1> USE DEF Sent
<1> DEFINE u == t.call.uuid
<1>1. /\ t.at = "unlocking" /\ t.hasLatch /\ u \in Uuid /\ Sent(u)
      /\ u \notin latchMap /\ pc[u] # "idle"
      /\ Waiting(u) => context[u] = Answered(u)
  BY DEF CountDown, TypeOK, Task, Unlock, HandshakeInv, TaskInv, BeginInv,
         AnswerInv
<1>2. /\ tasks' = tasks \ {t}
      /\ latch' = [latch EXCEPT ![u] = 0]
      /\ UNCHANGED <<origin, events, promise, settled, sent, unlocks, pc,
                     contextMap, context, latchMap, wokenBy, result>>
  BY <1>1 DEF CountDown, pipelineVars
<1>3. \A s \in tasks : s.call.uuid \in Uuid /\ (s.call.uuid = u => s = t)
  BY DEF TypeOK, Task, Unlock, HandshakeInv, TaskInv
<1>4. latch'[u] = 0 /\ \A v \in Uuid \ {u} : latch'[v] = latch[v]
  BY <1>1, <1>2 DEF TypeOK
<1>5. ContextCached'
  BY <1>2 DEF HandshakeInv, ContextCached, Waiting
<1>6. LatchAccounted'
  BY <1>2, <1>3, <1>4 DEF HandshakeInv, LatchAccounted
<1>7. BeginInv'
  BY <1>1, <1>2, <1>4 DEF HandshakeInv, BeginInv
<1>8. AnswerInv' /\ MessageInv'
  BY <1>2 DEF HandshakeInv, AnswerInv, MessageInv
<1>9. TaskInv'
  BY <1>2, <1>3, <1>4 DEF HandshakeInv, TaskInv, Waiting, Answered
<1>10. LatchInv'
  BY <1>1, <1>2, <1>4 DEF HandshakeInv, LatchInv, Waiting, Answered
<1>11. WakeInv'
  BY <1>2, <1>4 DEF HandshakeInv, WakeInv, Answered, Field
<1> QED
  BY <1>5, <1>6, <1>7, <1>8, <1>9, <1>10, <1>11 DEF HandshakeInv

LEMMA OtherHandshake ==
  ASSUME TypeOK, HandshakeInv,
         UNCHANGED vars \/ \E r \in Token : DestroyReplicator(r)
  PROVE  HandshakeInv'
<1> UNCHANGED <<pipelineVars, pc, contextMap, context, latchMap, latch, tasks,
                wokenBy, result>>
  BY DEF vars, nativeVars, DestroyReplicator
<1> USE DEF HandshakeInv, pipelineVars, Sent
<1>1. ContextCached' /\ LatchAccounted'
  BY DEF ContextCached, LatchAccounted, Waiting
<1>2. BeginInv' /\ AnswerInv' /\ MessageInv'
  BY DEF BeginInv, AnswerInv, MessageInv
<1>3. TaskInv' /\ LatchInv'
  BY DEF TaskInv, LatchInv, Waiting, Answered
<1>4. WakeInv'
  BY DEF WakeInv, Answered, Field
<1> QED
  BY <1>1, <1>2, <1>3, <1>4

LEMMA NextHandshake == TypeOK /\ HandshakeInv /\ [Next]_vars => HandshakeInv'
BY ScriptHandshake, InterceptHandshake, WakeHandshake, ResumeHandshake,
   UnlockRefusedHandshake, UnlockFoundHandshake, PutContextHandshake,
   CountDownHandshake, OtherHandshake
   DEF Next, ScriptStep, ThreadStep, PoolStep

THEOREM HandshakeCorrect == Spec => []HandshakeInv
<1>1. TypeOK /\ HandshakeInv /\ [Next]_vars => (TypeOK /\ HandshakeInv)'
  BY NextTypeOK, NextHandshake
<1> QED
  BY InitTypeOK, InitHandshake, <1>1, PTL DEF Spec, Safe

\* A woken HTTP thread finds its context, the latch of a waiting one is never
\* mislaid, and what stays in the maps is a latch that nobody answered for: a
\* latch in the map is closed, so its thread, if it went on, was not let go by
\* it.
THEOREM MapsFollowThreadCorrect == Spec => []MapsFollowThread
<1>1. TypeOK /\ HandshakeInv => MapsFollowThread
  <2> SUFFICES ASSUME TypeOK, HandshakeInv
               PROVE  MapsFollowThread
    OBVIOUS
  <2>1. ContextCached /\ LatchAccounted
    BY DEF HandshakeInv
  <2>2. ASSUME NEW u \in latchMap, pc[u] = "returned"
        PROVE  wokenBy[u] = "timer"
    <3>1. u \in Uuid /\ wokenBy[u] \in {"none", "latch", "timer"}
      BY DEF TypeOK
    <3>2. wokenBy[u] # "none"
      BY <2>2, <3>1 DEF HandshakeInv, WakeInv
    <3>3. wokenBy[u] # "latch"
      BY <3>1 DEF HandshakeInv, WakeInv, LatchInv
    <3> QED
      BY <3>1, <3>2, <3>3
  <2> QED
    BY <2>1, <2>2 DEF MapsFollowThread, LatchLeftByTimerOnly
<1> QED
  BY TypeCorrect, HandshakeCorrect, <1>1, PTL

\* JavaScript answers each interception at most once.
THEOREM SingleAnswerCorrect == Spec => []SingleAnswer
<1>1. TypeOK /\ HandshakeInv => SingleAnswer
  <2> SUFFICES ASSUME TypeOK, HandshakeInv, NEW u \in Uuid
               PROVE  Len(sent[u]) <= 1
    BY DEF SingleAnswer
  <2> QED
    BY DEF HandshakeInv, AnswerInv
<1> QED
  BY TypeCorrect, HandshakeCorrect, <1>1, PTL

\* A thread let go by its latch goes on with what JavaScript answered.
THEOREM AnswerAppliedCorrect == Spec => []AnswerApplied
<1>1. TypeOK /\ HandshakeInv => AnswerApplied
  <2> SUFFICES ASSUME TypeOK, HandshakeInv, NEW u \in Uuid,
                      pc[u] = "returned", wokenBy[u] = "latch"
               PROVE  /\ sent[u] # <<>>
                      /\ result[u] = Answered(u)[Field(u)]
    BY DEF AnswerApplied, Answered, Original
  <2>1. Sent(u)
    BY DEF HandshakeInv, WakeInv, LatchInv
  <2> QED
    BY <2>1 DEF HandshakeInv, WakeInv, Sent
<1> QED
  BY TypeCorrect, HandshakeCorrect, <1>1, PTL

-----------------------------------------------------------------------------
(* Late answers *)

LEMMA LateStep ==
  ASSUME TypeOK, ContextCached, Next, NEW u \in Uuid, pc[u] = "returned"
  PROVE  /\ (u \in contextMap)' = (u \in contextMap)
         /\ context'[u] = context[u]
         /\ result'[u] = result[u]
<1> USE DEF TypeOK
<1>1. u \notin contextMap
  BY DEF ContextCached, Waiting
<1>2. CASE ScriptStep
  BY <1>2 DEF ScriptStep, nativeVars
<1>3. ASSUME NEW v \in Uuid, Intercept(v) \/ Released(v) \/ WaitOver(v)
      PROVE  u \notin contextMap' /\ UNCHANGED <<context, result>>
  BY <1>1, <1>3 DEF Intercept, Released, WaitOver
<1>4. ASSUME NEW v \in Uuid, Resume(v)
      PROVE  /\ u \notin contextMap' /\ UNCHANGED context
             /\ result'[u] = result[u]
  BY <1>1, <1>4 DEF Resume
<1>5. CASE ThreadStep
  BY <1>1, <1>3, <1>4, <1>5 DEF ThreadStep
<1>6. ASSUME NEW t \in tasks, PutContext(t)
      PROVE  /\ UNCHANGED <<contextMap, result>>
             /\ context'[u] = context[u]
  <2>1. CASE t.call.uuid \in contextMap
    <3>1. t.call.uuid # u
      BY <1>1, <2>1
    <3>2. context' = [context EXCEPT
            ![t.call.uuid] = Updated(t.call.context, context[t.call.uuid])]
      BY <1>6, <2>1 DEF PutContext
    <3> QED
      BY <1>6, <3>1, <3>2 DEF PutContext
  <2>2. CASE t.call.uuid \notin contextMap
    BY <1>6, <2>2 DEF PutContext
  <2> QED
    BY <2>1, <2>2
<1>7. CASE PoolStep
  BY <1>1, <1>6, <1>7 DEF PoolStep, UnlockRefused, UnlockFound, CountDown,
     DestroyReplicator, nativeVars
<1> QED
  BY <1>2, <1>5, <1>7 DEF Next

\* Once an HTTP thread has gone on, no late answer, and nothing else either,
\* changes the context it was given, what it read there, or brings the entry
\* back: its entry is gone, and updateContext puts nothing where there is none.
THEOREM LateAnswerIgnoredCorrect == Spec => LateAnswerIgnored
<1> DEFINE Ignored ==
      \A u \in Uuid : pc[u] = "returned" =>
        /\ (u \in contextMap)' = (u \in contextMap)
        /\ context'[u] = context[u]
        /\ result'[u] = result[u]
<1>1. TypeOK /\ HandshakeInv /\ [Next]_vars => [Ignored]_vars
  BY LateStep DEF HandshakeInv
<1> QED
  BY <1>1, TypeCorrect, HandshakeCorrect, PTL DEF Spec, Safe, LateAnswerIgnored

-----------------------------------------------------------------------------
(* The chain, when every interceptor calls done() once *)

LEMMA NextChain ==
  ASSUME SurplusDone = 0, TypeOK, HandshakeInv, ChainInv, [Next]_vars
  PROVE  ChainInv'
<1>1. CASE ScriptStep
  <2>1. AnswerInv /\ \A u \in events : promise[u] = "none" /\ ~settled[u]
    BY DEF HandshakeInv, BeginInv, TypeOK, PipelineTypeOK
  <2> QED
    BY <1>1, <2>1, ScriptChain DEF ScriptStep, TypeOK
<1>2. CASE ThreadStep
  BY <1>2, NativeChain DEF ThreadStep, Intercept, Released, WaitOver, Resume,
     pipelineVars
<1>3. CASE PoolStep
  BY <1>3, NativeChain DEF PoolStep, UnlockRefused, UnlockFound, PutContext,
     CountDown, DestroyReplicator, pipelineVars
<1>4. CASE UNCHANGED vars
  BY <1>4, NativeChain DEF vars, pipelineVars
<1> QED
  BY <1>1, <1>2, <1>3, <1>4 DEF Next

THEOREM ChainCorrect ==
  ASSUME SurplusDone = 0
  PROVE  Spec => []ChainInv
<1>1. TypeOK /\ HandshakeInv /\ ChainInv /\ [Next]_vars => ChainInv'
  BY NextChain
<1>2. Init => ChainInv
  BY InitPipeline DEF Init
<1> QED
  BY TypeCorrect, HandshakeCorrect, <1>1, <1>2, PTL DEF Spec, Safe

LEMMA ResultAllOrNothing ==
  ASSUME TypeOK, HandshakeInv, ChainInv, NEW u \in Uuid, pc[u] = "returned"
  PROVE  result[u] \in {<<>>, Chain(Hooks(u))}
<1> SUFFICES ASSUME result[u] # <<>>
             PROVE  result[u] = Chain(Hooks(u))
  OBVIOUS
<1>1. Sent(u) /\ result[u] = Answered(u)[Field(u)]
  BY DEF HandshakeInv, WakeInv
<1>2. \/ Answered(u)[Field(u)] = <<>>
      \/ sent[u][1].given /\ Answered(u)[Field(u)] = sent[u][1].edits
  BY DEF Answered, Updated, Original, Field
<1> QED
  BY <1>1, <1>2 DEF ChainInv, Chained

\* No partial change ever reaches the HTTP exchange: whatever timeouts,
\* exceptions and races happen, it goes on untouched or with all changes.
THEOREM AllOrNothingCorrect ==
  ASSUME SurplusDone = 0
  PROVE  Spec => []AllOrNothing
<1>1. TypeOK /\ HandshakeInv /\ ChainInv => AllOrNothing
  BY ResultAllOrNothing DEF AllOrNothing
<1> QED
  BY TypeCorrect, HandshakeCorrect, ChainCorrect, <1>1, PTL

\* An interceptor runs only after those before it are done, and what they have
\* changed by then is what they change in order.
THEOREM SerialInterceptorsCorrect ==
  ASSUME SurplusDone = 0
  PROVE  Spec => []SerialInterceptors
<1>1. TypeOK /\ ChainInv => SerialInterceptors
  <2> SUFFICES ASSUME TypeOK, ChainInv, NEW u \in Uuid
               PROVE  /\ edits[u] = Chain(Len(edits[u]))
                      /\ 1..(stage[u] - 1) \subseteq finished[u]
    BY DEF SerialInterceptors
  <2>1. Chained(u) /\ stage[u] \in Nat
    BY DEF ChainInv, TypeOK, PipelineTypeOK
  <2>2. CASE promise[u] = "none"
    <3>1. edits[u] = <<>> /\ stage[u] = 0
      BY <2>1, <2>2 DEF Chained
    <3>2. Len(edits[u]) = 0 /\ Chain(0) = <<>>
      BY <3>1 DEF Chain
    <3>3. 1..(stage[u] - 1) = {}
      BY <3>1
    <3> QED
      BY <3>1, <3>2, <3>3
  <2>3. CASE promise[u] # "none"
    <3>1. stage[u] >= 1 /\ edits[u] \in {Chain(stage[u] - 1), Chain(stage[u])}
      BY <2>1, <2>3 DEF Chained
    <3>2. PICK n \in Nat : edits[u] = Chain(n)
      <4>1. stage[u] \in Nat /\ stage[u] - 1 \in Nat
        BY <2>1, <3>1
      <4> QED
        BY <3>1, <4>1
    <3>3. edits[u] = Chain(Len(edits[u]))
      <4>1. Len(Chain(n)) = n
        BY ChainLength
      <4> QED
        BY <3>2, <4>1
    <3>4. promise[u] \in {"pending", "resolved", "rejected", "empty"}
      BY <2>3 DEF TypeOK, PipelineTypeOK, Promise
    <3>5. 1..(stage[u] - 1) \subseteq finished[u]
      BY <2>1, <3>4 DEF Chained
    <3> QED
      BY <3>3, <3>5
  <2> QED
    BY <2>2, <2>3
<1> QED
  BY TypeCorrect, ChainCorrect, <1>1, PTL

-----------------------------------------------------------------------------
(* Refinement *)

LEMMA InitRefines == Init => Interception!Init
<1> SUFFICES ASSUME Init
             PROVE  Interception!Init
  OBVIOUS
<1>1. \A u \in Uuid : pc[u] = "idle"
  BY DEF Init
<1>2. \A u \in Uuid : StatusOf(u) = "idle" /\ OutcomeOf(u) = "none"
  <2> SUFFICES ASSUME NEW u \in Uuid
               PROVE  StatusOf(u) = "idle" /\ OutcomeOf(u) = "none"
    OBVIOUS
  <2>1. pc[u] = "idle"
    BY <1>1
  <2>2. StatusOf(u) = "idle"
    BY <2>1 DEF StatusOf, Waiting
  <2>3. OutcomeOf(u) = "none"
    BY <2>1 DEF OutcomeOf
  <2> QED
    BY <2>2, <2>3
<1> QED
  BY ONLY <1>2 DEF Interception!Init

\* What the mapping shows of a thread depends on these variables only.
LEMMA SameThread ==
  ASSUME UNCHANGED origin, NEW v \in Uuid,
         pc'[v] = pc[v] \/ {pc[v], pc'[v]} = {"waiting", "awake"},
         result'[v] = result[v]
  PROVE  StatusOf(v)' = StatusOf(v) /\ OutcomeOf(v)' = OutcomeOf(v)
<1>1. CASE pc'[v] = pc[v]
  BY <1>1 DEF StatusOf, OutcomeOf, Waiting, Hooks
<1>2. CASE pc[v] \in {"waiting", "awake"} /\ pc'[v] \in {"waiting", "awake"}
  BY <1>2 DEF StatusOf, OutcomeOf, Waiting
<1> QED
  BY <1>1, <1>2

LEMMA StutterRefines ==
  ASSUME UNCHANGED <<origin, result>>,
         \A v \in Uuid :
           pc'[v] = pc[v] \/ {pc[v], pc'[v]} = {"waiting", "awake"}
  PROVE  UNCHANGED Interception!vars
<1>1. \A v \in Uuid :
        StatusOf(v)' = StatusOf(v) /\ OutcomeOf(v)' = OutcomeOf(v)
  BY SameThread
<1> QED
  BY ONLY <1>1 DEF Interception!vars

LEMMA InterceptRefines ==
  ASSUME TypeOK, NEW u \in Uuid, Intercept(u)
  PROVE  Interception!Open(u)
<1>1. /\ pc[u] = "idle" /\ pc'[u] = "waiting"
      /\ \A v \in Uuid \ {u} : pc'[v] = pc[v]
      /\ UNCHANGED <<origin, result>>
  BY DEF Intercept, TypeOK
<1>2. /\ StatusOf(u) = "idle" /\ StatusOf(u)' = "open"
      /\ OutcomeOf(u) = "none" /\ OutcomeOf(u)' = "none"
  BY <1>1 DEF StatusOf, OutcomeOf, Waiting
<1>3. \A v \in Uuid \ {u} :
        StatusOf(v)' = StatusOf(v) /\ OutcomeOf(v)' = OutcomeOf(v)
  BY <1>1, SameThread
<1> QED
  BY ONLY <1>2, <1>3, u \in Uuid DEF Interception!Open

LEMMA ResumeRefines ==
  ASSUME TypeOK, TypeOK', HandshakeInv', ChainInv', NEW u \in Uuid, Resume(u)
  PROVE  Interception!Close(u)
<1>1. /\ pc[u] = "awake" /\ pc'[u] = "returned"
      /\ \A v \in Uuid \ {u} : pc'[v] = pc[v] /\ result'[v] = result[v]
      /\ UNCHANGED origin
  BY DEF Resume, TypeOK, pipelineVars
<1>2. (pc[u] = "returned" => result[u] \in {<<>>, Chain(Hooks(u))})'
  BY ResultAllOrNothing, PTL
<1>3. OutcomeOf(u)' \in {"original", "complete"}
  BY <1>1, <1>2 DEF OutcomeOf
<1>4. /\ StatusOf(u) = "open" /\ StatusOf(u)' = "closed"
  BY <1>1 DEF StatusOf, Waiting
<1>5. \A v \in Uuid \ {u} :
        StatusOf(v)' = StatusOf(v) /\ OutcomeOf(v)' = OutcomeOf(v)
  BY <1>1, SameThread
<1> QED
  BY ONLY <1>3, <1>4, <1>5, u \in Uuid DEF Interception!Close

LEMMA NextRefines ==
  ASSUME TypeOK, TypeOK', HandshakeInv', ChainInv', [Next]_vars
  PROVE  [Interception!Next]_(Interception!vars)
<1>1. CASE ScriptStep \/ PoolStep \/ UNCHANGED vars
  <2>1. UNCHANGED <<origin, pc, result>>
    BY <1>1 DEF ScriptStep, PipelineStep, EmitUnhooked, EmitHooked, Edit, Done,
       RepeatDone, Throw, SendContext, SendFailure, FailureUnreadable,
       InterceptorTimeout, nativeVars, PoolStep, UnlockRefused, UnlockFound,
       PutContext, CountDown, DestroyReplicator, pipelineVars, vars
  <2> QED
    BY <2>1, StutterRefines
<1>2. ASSUME NEW u \in Uuid, Released(u) \/ WaitOver(u)
      PROVE  UNCHANGED Interception!vars
  <2>1. /\ pc[u] = "waiting" /\ pc'[u] = "awake"
        /\ \A v \in Uuid \ {u} : pc'[v] = pc[v]
        /\ UNCHANGED <<origin, result>>
    BY <1>2 DEF Released, WaitOver, pipelineVars, TypeOK
  <2> QED
    BY <2>1, StutterRefines
<1>3. CASE ThreadStep
  BY <1>2, <1>3, InterceptRefines, ResumeRefines
     DEF ThreadStep, Interception!Next
<1> QED
  BY <1>1, <1>3 DEF Next

\* The Android handshake implements HttpInterception: each HTTP thread is held
\* and let go once, with the original or the completely changed context.
THEOREM RefinesInterception ==
  ASSUME SurplusDone = 0
  PROVE  Spec => Interception!Safe
<1>1. TypeOK /\ TypeOK' /\ HandshakeInv' /\ ChainInv' /\ [Next]_vars
        => [Interception!Next]_(Interception!vars)
  BY NextRefines
<1> QED
  BY InitRefines, TypeCorrect, HandshakeCorrect, ChainCorrect, <1>1, PTL
     DEF Spec, Safe, Interception!Safe

=============================================================================
