---------------------- MODULE InterceptorPipelineProofs ----------------------
(* What the proofs about both platforms use of the JavaScript pipeline, for   *)
(* every set of interceptions and replicators and any number of installed     *)
(* interceptors.                                                              *)
EXTENDS InterceptorPipeline, TLAPS

-----------------------------------------------------------------------------
(* Types and answers *)

LEMMA InitPipeline ==
  ASSUME PipelineInit
  PROVE  PipelineTypeOK /\ AnswerInv /\ ChainInv
<1>1. PipelineTypeOK
  <2>1. 0 \in 0..SurplusDone
    BY SurplusDoneAssumption DEF SurplusDoneAssumption
  <2>2. edits \in [Uuid -> Seq(Nat)] /\ sent \in [Uuid -> Seq(Context)]
    BY DEF PipelineInit
  <2> QED
    BY <2>1, <2>2 DEF PipelineInit, PipelineTypeOK, Promise
<1>2. AnswerInv
  <2>1. ASSUME NEW u \in Uuid
        PROVE  Len(sent[u]) <= 1 /\ ~Sent(u) /\ ~settled[u]
    <3>1. sent[u] = <<>> /\ Len(<<>>) = 0
      BY DEF PipelineInit
    <3> QED
      BY <3>1 DEF PipelineInit, Sent
  <2> QED
    BY <2>1 DEF AnswerInv
<1>3. ASSUME NEW u \in Uuid
      PROVE  /\ promise[u] = "none" /\ ~Sent(u)
             /\ stage[u] = 0 /\ edits[u] = <<>> /\ finished[u] = {}
  BY DEF PipelineInit, Sent
<1>4. ChainInv
  BY <1>3 DEF ChainInv, Chained
<1> QED
  BY <1>1, <1>2, <1>4

LEMMA NoContextType == NoContext \in Context
BY DEF NoContext, Context

LEMMA HooksType ==
  ASSUME PipelineTypeOK, NEW u \in Uuid
  PROVE  Hooks(u) \in Nat
<1>1. origin[u].token \in Token /\ origin[u].kind \in Kind
  BY DEF PipelineTypeOK
<1>2. Installed \in [Token -> [Kind -> Nat]]
  BY InstalledAssumption DEF InstalledAssumption
<1> QED
  BY <1>1, <1>2 DEF Hooks

LEMMA EndLatestType ==
  ASSUME PipelineTypeOK, NEW u \in Uuid, EndLatest(u)
  PROVE  /\ stage' \in [Uuid -> Nat]
         /\ promise' \in [Uuid -> Promise]
<1>1. stage \in [Uuid -> Nat] /\ stage[u] + 1 \in Nat
  BY DEF PipelineTypeOK
<1>2. promise \in [Uuid -> Promise]
  BY DEF PipelineTypeOK
<1>3. CASE stage[u] = Hooks(u)
  BY <1>1, <1>2, <1>3 DEF EndLatest, Promise
<1>4. CASE stage[u] # Hooks(u)
  BY <1>1, <1>2, <1>4 DEF EndLatest, Promise
<1> QED
  BY <1>3, <1>4

LEMMA AnswerType ==
  ASSUME PipelineTypeOK, NEW u \in Uuid, NEW c \in Context, Answer(u, c)
  PROVE  /\ unlocks' \subseteq Unlock
         /\ sent' \in [Uuid -> Seq(Context)]
<1>1. origin[u].token \in Token
  BY DEF PipelineTypeOK
<1>2. [uuid |-> u, token |-> origin[u].token, context |-> c] \in Unlock
  BY <1>1 DEF Unlock
<1>3. Append(sent[u], c) \in Seq(Context)
  BY DEF PipelineTypeOK
<1> QED
  BY <1>2, <1>3 DEF PipelineTypeOK, Answer

\* A chain that is through is answered with its context, or with none.
LEMMA SendContextAnswers ==
  ASSUME PipelineTypeOK, NEW u \in Uuid, SendContext(u)
  PROVE  \E c \in Context : Answer(u, c) /\ (c.given => c.edits = edits[u])
<1>1. CASE Answer(u, NoContext)
  <2>1. ~NoContext.given
    BY DEF NoContext
  <2> QED
    BY <1>1, <2>1, NoContextType
<1>2. ASSUME NEW requestOk \in BOOLEAN, NEW replayOk \in BOOLEAN,
             Answer(u, [given |-> TRUE, edits |-> edits[u],
                        requestOk |-> requestOk, replayOk |-> replayOk])
      PROVE  \E c \in Context : Answer(u, c) /\ (c.given => c.edits = edits[u])
  <2> DEFINE c == [given |-> TRUE, edits |-> edits[u],
                   requestOk |-> requestOk, replayOk |-> replayOk]
  <2>1. c \in Context /\ c.edits = edits[u]
    BY DEF Context, PipelineTypeOK
  <2>2. Answer(u, c)
    BY <1>2
  <2> HIDE DEF c
  <2> QED
    BY <2>1, <2>2
<1> QED
  BY <1>1, <1>2 DEF SendContext

LEMMA PipelineStepType ==
  ASSUME PipelineTypeOK, NEW u \in Uuid, PipelineStep(u)
  PROVE  PipelineTypeOK'
<1> USE DEF PipelineTypeOK
<1>1. CASE EmitUnhooked(u)
  BY <1>1, AnswerType, NoContextType DEF EmitUnhooked
<1>2. CASE EmitHooked(u)
  BY <1>2 DEF EmitHooked, Promise
<1>3. ASSUME NEW i \in 1..Hooks(u), Edit(u, i)
      PROVE  PipelineTypeOK'
  <2>1. Append(edits[u], i) \in Seq(Nat)
    BY HooksType
  <2> QED
    BY <1>3, <2>1 DEF Edit
<1>4. ASSUME NEW i \in 1..Hooks(u), Done(u, i)
      PROVE  PipelineTypeOK'
  <2>1. i \in Nat
    BY HooksType
  <2> QED
    BY <1>4, <2>1, EndLatestType DEF Done
<1>5. ASSUME NEW i \in 1..Hooks(u), RepeatDone(u, i)
      PROVE  PipelineTypeOK'
  <2>1. surplus[u] + 1 \in 0..SurplusDone
    BY <1>5, SurplusDoneAssumption DEF RepeatDone, SurplusDoneAssumption
  <2> QED
    BY <1>5, <2>1, EndLatestType DEF RepeatDone
<1>6. CASE Throw(u)
  BY <1>6 DEF Throw, Promise
<1>7. CASE SendContext(u)
  <2>1. PICK c \in Context : Answer(u, c)
    BY <1>7, SendContextAnswers
  <2>2. unlocks' \subseteq Unlock /\ sent' \in [Uuid -> Seq(Context)]
    BY <2>1, AnswerType
  <2> QED
    BY <1>7, <2>2 DEF SendContext
<1>8. CASE SendFailure(u)
  BY <1>8, AnswerType, NoContextType DEF SendFailure
<1>9. CASE FailureUnreadable(u)
  BY <1>9 DEF FailureUnreadable
<1>10. CASE InterceptorTimeout(u)
  BY <1>10, AnswerType, NoContextType DEF InterceptorTimeout
<1> QED
  BY <1>1, <1>2, <1>3, <1>4, <1>5, <1>6, <1>7, <1>8, <1>9, <1>10
     DEF PipelineStep

\* What a step of the script is to the native side: it moves the chain of an
\* event that has been looked at or gives it up without a word, or it settles a
\* promise and sends the answer.
Quiet(u) ==
  /\ UNCHANGED <<origin, unlocks, sent>>
  /\ \/ UNCHANGED settled
     \/ promise[u] = "empty" /\ settled' = [settled EXCEPT ![u] = TRUE]
  /\ \A v \in Uuid :
       v # u \/ promise[v] = "empty" => promise'[v] = promise[v]

Answers(u) ==
  /\ ~settled[u]
  /\ settled' = [settled EXCEPT ![u] = TRUE]
  /\ \E c \in Context : Answer(u, c)
  /\ UNCHANGED <<origin, promise>>

LEMMA ScriptCases ==
  ASSUME PipelineTypeOK, NEW u \in Uuid, PipelineStep(u),
         u \in events => promise[u] = "none" /\ ~settled[u]
  PROVE  /\ u \in events \/ promise[u] # "none"
         /\ events' = events \ {u}
         /\ Quiet(u) \/ Answers(u)
<1> USE DEF PipelineTypeOK
<1>1. CASE EmitUnhooked(u)
  BY <1>1, NoContextType DEF EmitUnhooked, Answers
<1>2. CASE EmitHooked(u)
  BY <1>2 DEF EmitHooked, Quiet
<1>3. ASSUME NEW i \in 1..Hooks(u),
             Edit(u, i) \/ Done(u, i) \/ RepeatDone(u, i)
      PROVE  promise[u] # "none" /\ events' = events /\ Quiet(u)
  BY <1>3 DEF Edit, Done, RepeatDone, EndLatest, Quiet
<1>4. CASE Throw(u)
  BY <1>4 DEF Throw, Quiet
<1>5. CASE SendContext(u)
  <2>1. \E c \in Context : Answer(u, c)
    BY <1>5, SendContextAnswers
  <2> QED
    BY <1>5, <2>1 DEF SendContext, Answers
<1>6. CASE SendFailure(u) \/ InterceptorTimeout(u)
  BY <1>6, NoContextType DEF SendFailure, InterceptorTimeout, Answers
<1>7. CASE FailureUnreadable(u)
  BY <1>7 DEF FailureUnreadable, Quiet
<1> QED
  BY <1>1, <1>2, <1>3, <1>4, <1>5, <1>6, <1>7 DEF PipelineStep

-----------------------------------------------------------------------------
(* The chain, when every interceptor calls done() once *)

LEMMA ChainNext ==
  ASSUME NEW n \in Nat
  PROVE  Append(Chain(n), n + 1) = Chain(n + 1)
<1>1. Chain(n) \in Seq(Nat) /\ Len(Chain(n)) = n
  BY DEF Chain
<1>2. Chain(n + 1) \in Seq(Nat) /\ Len(Chain(n + 1)) = n + 1
  BY DEF Chain
<1>3. Append(Chain(n), n + 1) \in Seq(Nat)
      /\ Len(Append(Chain(n), n + 1)) = n + 1
  BY <1>1
<1>4. ASSUME NEW i \in 1..(n + 1)
      PROVE  Append(Chain(n), n + 1)[i] = Chain(n + 1)[i]
  BY <1>1 DEF Chain
<1> QED
  BY <1>2, <1>3, <1>4

LEMMA ChainEdited ==
  ASSUME NEW u \in Uuid, NEW n \in Nat, edits[u] = Chain(n)
  PROVE  Edited(u) = 1..n
<1>1. DOMAIN edits[u] = 1..n /\ \A i \in 1..n : edits[u][i] = i
  BY DEF Chain
<1> QED
  BY <1>1 DEF Edited

LEMMA ChainZero == Chain(0) = <<>>
<1>1. Chain(0) \in Seq(Nat) /\ Len(Chain(0)) = 0
  BY DEF Chain
<1> QED
  BY <1>1

LEMMA ChainLength ==
  ASSUME NEW n \in Nat
  PROVE  Chain(n) \in Seq(Nat) /\ Len(Chain(n)) = n
BY DEF Chain

\* EndLatest with the last invoked interceptor through.
LEMMA EndLatestChain ==
  ASSUME PipelineTypeOK, ChainInv, NEW u \in Uuid, promise[u] = "pending",
         edits[u] = Chain(stage[u]), EndLatest(u),
         finished' = [finished EXCEPT ![u] = @ \cup {stage[u]}],
         UNCHANGED <<origin, edits, settled, sent>>
  PROVE  ChainInv'
<1>1. /\ stage[u] \in 1..Hooks(u) /\ stage[u] \in Nat /\ Hooks(u) \in Nat
      /\ finished[u] = 1..(stage[u] - 1)
  BY HooksType DEF ChainInv, Chained, PipelineTypeOK
<1>2. finished'[u] = 1..stage[u]
  <2>1. finished'[u] = finished[u] \cup {stage[u]}
    BY DEF PipelineTypeOK
  <2>2. \A n \in Nat : n \in 1..Hooks(u) => (1..(n - 1)) \cup {n} = 1..n
    BY <1>1
  <2> QED
    BY <1>1, <2>1, <2>2
<1>3. \A v \in Uuid \ {u} : /\ finished'[v] = finished[v]
                            /\ stage'[v] = stage[v] /\ promise'[v] = promise[v]
  BY DEF PipelineTypeOK, EndLatest
<1>4. \A v \in Uuid : Hooks(v)' = Hooks(v) /\ Sent(v)' = Sent(v)
  BY DEF Hooks, Sent
<1>5. CASE stage[u] = Hooks(u)
  <2>1. stage'[u] = stage[u] /\ promise'[u] = "resolved"
    BY <1>5 DEF EndLatest, PipelineTypeOK
  <2> QED
    BY <1>1, <1>2, <1>3, <1>4, <1>5, <2>1 DEF ChainInv, Chained
<1>6. CASE stage[u] # Hooks(u)
  <2>1. stage'[u] = stage[u] + 1 /\ promise'[u] = "pending"
    BY <1>6 DEF EndLatest, PipelineTypeOK
  <2>2. /\ stage'[u] \in 1..Hooks(u) /\ stage'[u] - 1 = stage[u]
        /\ stage'[u] # 0
    BY <1>1, <1>6, <2>1
  <2> QED
    BY <1>1, <1>2, <1>3, <1>4, <2>1, <2>2 DEF ChainInv, Chained
<1> QED
  BY <1>5, <1>6

LEMMA AnswerChain ==
  ASSUME PipelineTypeOK, AnswerInv, ChainInv, NEW u \in Uuid, NEW c \in Context,
         Answer(u, c), ~settled[u], settled' = [settled EXCEPT ![u] = TRUE],
         c.given => c.edits = Chain(Hooks(u)),
         UNCHANGED <<origin, stage, edits, finished, promise>>
  PROVE  ChainInv'
<1>1. sent[u] = <<>>
  BY DEF AnswerInv, Sent
<1>2. sent'[u][1] = c /\ \A v \in Uuid \ {u} : sent'[v] = sent[v]
  BY <1>1 DEF Answer, PipelineTypeOK
<1>3. \A v \in Uuid : Hooks(v)' = Hooks(v)
  BY DEF Hooks
<1> QED
  BY <1>2, <1>3 DEF ChainInv, Chained, Sent

\* Neither native steps nor the end of a promise nobody hears of touch the
\* chain.
LEMMA NativeChain ==
  ASSUME ChainInv, UNCHANGED <<origin, stage, edits, finished, promise, sent>>
  PROVE  ChainInv'
BY DEF ChainInv, Chained, Hooks, Sent

LEMMA ScriptChain ==
  ASSUME SurplusDone = 0, PipelineTypeOK, AnswerInv, ChainInv, NEW u \in Uuid,
         PipelineStep(u), u \in events => promise[u] = "none" /\ ~settled[u]
  PROVE  ChainInv'
<1>1. /\ stage[u] \in Nat /\ Hooks(u) \in Nat
      /\ promise[u] # "none" => stage[u] \in 1..Hooks(u)
  BY HooksType DEF ChainInv, Chained, PipelineTypeOK
<1>2. ~NoContext.given
  BY DEF NoContext
<1>3. CASE EmitUnhooked(u)
  <2>1. ~settled[u]
    BY <1>3 DEF EmitUnhooked
  <2> QED
    BY <1>2, <1>3, <2>1, AnswerChain, NoContextType DEF EmitUnhooked
<1>4. CASE EmitHooked(u)
  <2>1. promise[u] = "none"
    BY <1>4 DEF EmitHooked
  <2>2. /\ stage'[u] = 1 /\ promise'[u] = "pending"
        /\ stage'[u] - 1 = 0 /\ stage'[u] \in 1..Hooks(u) /\ edits[u] = Chain(0)
        /\ finished[u] = 1..0
    BY <1>1, <1>4, <2>1, ChainZero
       DEF EmitHooked, ChainInv, Chained, PipelineTypeOK
  <2>3. \A v \in Uuid \ {u} : stage'[v] = stage[v] /\ promise'[v] = promise[v]
    BY <1>4 DEF EmitHooked, PipelineTypeOK
  <2>4. \A v \in Uuid : Hooks(v)' = Hooks(v)
    BY <1>4 DEF EmitHooked, Hooks
  <2>5. UNCHANGED <<edits, finished, sent>>
    BY <1>4 DEF EmitHooked
  <2>6. ~Sent(u)
    BY <1>4 DEF EmitHooked, AnswerInv
  <2>7. /\ edits'[u] \in {Chain(stage'[u] - 1), Chain(stage'[u])}
        /\ finished'[u] = 1..(stage'[u] - 1)
        /\ stage'[u] \in 1..Hooks(u)'
        /\ ~Sent(u)'
    BY <2>2, <2>4, <2>5, <2>6 DEF Sent
  <2>8. \A v \in Uuid \ {u} :
          /\ edits'[v] = edits[v] /\ finished'[v] = finished[v]
          /\ Sent(v)' = Sent(v) /\ sent'[v] = sent[v]
    BY <2>5 DEF Sent
  <2>9. Chained(u)'
    BY <2>2, <2>7 DEF Chained
  <2>10. ASSUME NEW v \in Uuid \ {u}
         PROVE  Chained(v)'
    BY <2>3, <2>4, <2>8 DEF ChainInv, Chained
  <2> QED
    BY <2>9, <2>10 DEF ChainInv
<1>5. ASSUME NEW i \in 1..Hooks(u), Edit(u, i)
      PROVE  ChainInv'
  <2>1. /\ stage[u] \in 1..Hooks(u)
        /\ i \in 1..stage[u] /\ i \notin Edited(u)
        /\ edits' = [edits EXCEPT ![u] = Append(@, i)]
        /\ UNCHANGED <<origin, stage, finished, promise, sent>>
    BY <1>1, <1>5 DEF Edit
  <2>2. edits[u] = Chain(stage[u]) => Edited(u) = 1..stage[u]
    BY <1>1, ChainEdited
  <2>3. edits[u] = Chain(stage[u] - 1)
    BY <1>5, <2>1, <2>2 DEF Edit, ChainInv, Chained
  <2>4. Edited(u) = 1..(stage[u] - 1)
    BY <2>1, <2>3, ChainEdited
  <2>5. i = stage[u] /\ stage[u] - 1 \in Nat /\ (stage[u] - 1) + 1 = stage[u]
    BY <2>1, <2>4
  <2>6. edits'[u] = Chain(stage[u])
    BY <2>1, <2>3, <2>5, ChainNext DEF PipelineTypeOK
  <2>7. promise[u] = "pending"
    <3>1. edits[u] # Chain(stage[u])
      BY <2>1, <2>2
    <3> QED
      BY <1>5, <3>1 DEF Edit, ChainInv, Chained
  <2>8. \A v \in Uuid \ {u} : edits'[v] = edits[v]
    BY <2>1 DEF PipelineTypeOK
  <2>9. \A v \in Uuid : Hooks(v)' = Hooks(v) /\ Sent(v)' = Sent(v)
    BY <2>1 DEF Hooks, Sent
  <2>10. Chained(u)'
    BY <2>1, <2>6, <2>7, <2>9 DEF ChainInv, Chained
  <2>11. ASSUME NEW v \in Uuid \ {u}
         PROVE  Chained(v)'
    BY <2>1, <2>8, <2>9 DEF ChainInv, Chained
  <2> QED
    BY <2>10, <2>11 DEF ChainInv
<1>6. ASSUME NEW i \in 1..Hooks(u), Done(u, i)
      PROVE  ChainInv'
  <2>1. /\ promise[u] = "pending" /\ i \in Edited(u) \ finished[u]
        /\ finished[u] = 1..(stage[u] - 1)
        /\ edits[u] \in {Chain(stage[u] - 1), Chain(stage[u])}
        /\ stage[u] \in 1..Hooks(u)
    BY <1>6 DEF Done, ChainInv, Chained
  <2>2. edits[u] = Chain(stage[u] - 1) => Edited(u) = 1..(stage[u] - 1)
    BY <2>1, ChainEdited
  <2>3. edits[u] = Chain(stage[u])
    BY <2>1, <2>2
  <2>4. Edited(u) = 1..stage[u]
    BY <1>1, <2>3, ChainEdited
  <2>5. i = stage[u]
    BY <2>1, <2>4
  <2> QED
    BY <1>6, <2>1, <2>3, <2>5, EndLatestChain DEF Done
<1>7. ASSUME NEW i \in 1..Hooks(u), RepeatDone(u, i)
      PROVE  ChainInv'
  <2>1. surplus[u] \in 0..0 /\ surplus[u] < 0
    BY <1>7 DEF RepeatDone, PipelineTypeOK
  <2> QED
    BY <2>1
<1>8. CASE Throw(u)
  <2>1. promise[u] = "pending" /\ promise'[u] \in {"rejected", "empty"}
    BY <1>8 DEF Throw, PipelineTypeOK
  <2>2. \A v \in Uuid \ {u} : promise'[v] = promise[v]
    BY <1>8 DEF Throw, PipelineTypeOK
  <2>3. \A v \in Uuid : Hooks(v)' = Hooks(v) /\ Sent(v)' = Sent(v)
    BY <1>8 DEF Throw, Hooks, Sent
  <2>4. UNCHANGED <<stage, edits, finished, sent>>
    BY <1>8 DEF Throw
  <2> QED
    BY <2>1, <2>2, <2>3, <2>4 DEF ChainInv, Chained
<1>9. CASE SendContext(u)
  <2>1. PICK c \in Context : Answer(u, c) /\ (c.given => c.edits = edits[u])
    BY <1>9, SendContextAnswers
  <2>2. edits[u] = Chain(Hooks(u))
    BY <1>9 DEF SendContext, ChainInv, Chained
  <2> QED
    BY <1>9, <2>1, <2>2, AnswerChain DEF SendContext
<1>10. CASE SendFailure(u) \/ InterceptorTimeout(u)
  BY <1>2, <1>10, AnswerChain, NoContextType DEF SendFailure, InterceptorTimeout
<1>11. CASE FailureUnreadable(u)
  BY <1>11, NativeChain DEF FailureUnreadable
<1> QED
  BY <1>3, <1>4, <1>5, <1>6, <1>7, <1>8, <1>9, <1>10, <1>11 DEF PipelineStep

=============================================================================
