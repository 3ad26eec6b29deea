----------------------- MODULE ConflictResolverIOSProofs -----------------------
(* Proofs about ConflictResolverIOS, for any number of concurrent calls. *)
EXTENDS ConflictResolverIOS, SequenceTheorems, TLAPS

-----------------------------------------------------------------------------
(* The results of a call on their way: at most the conflicts and the end *)

LEMMA QueueFacts ==
  /\ <<"conflicts">> # <<>> /\ <<"ok">> # <<>> /\ <<"error">> # <<>>
  /\ <<"conflicts", "ok">> # <<>>
  /\ <<"conflicts">> # <<"ok">> /\ <<"conflicts">> # <<"error">>
  /\ <<"ok">> # <<"error">>
  /\ <<"conflicts", "ok">> # <<"conflicts">>
  /\ <<"conflicts", "ok">> # <<"ok">> /\ <<"conflicts", "ok">> # <<"error">>
OBVIOUS

LEMMA QueueTyped ==
  /\ Queue \subseteq Seq(Result)
  /\ <<>> \in Queue /\ <<"conflicts">> \in Queue /\ <<"ok">> \in Queue
  /\ <<"error">> \in Queue /\ <<"conflicts", "ok">> \in Queue
BY DEF Queue, Result

\* What a result leaves behind when it is handled.
LEMMA QueueTails ==
  ASSUME NEW q \in Queue, q # <<>>
  PROVE  /\ Head(q) = "conflicts" =>
              \/ q = <<"conflicts">> /\ Tail(q) = <<>>
              \/ q = <<"conflicts", "ok">> /\ Tail(q) = <<"ok">>
         /\ Head(q) = "ok" => q = <<"ok">> /\ Tail(q) = <<>>
         /\ Head(q) = "error" => q = <<"error">> /\ Tail(q) = <<>>
<1>1. CASE q = <<"conflicts">>
  BY <1>1
<1>2. CASE q = <<"conflicts", "ok">>
  BY <1>2
<1>3. CASE q = <<"ok">>
  BY <1>3
<1>4. CASE q = <<"error">>
  BY <1>4
<1> QED
  BY <1>1, <1>2, <1>3, <1>4 DEF Queue

\* What a result leads to when it is sent.
LEMMA QueueAppends ==
  /\ Append(<<>>, "conflicts") = <<"conflicts">>
  /\ Append(<<>>, "ok") = <<"ok">>
  /\ Append(<<>>, "error") = <<"error">>
  /\ Append(<<"conflicts">>, "ok") = <<"conflicts", "ok">>
<1>1. Append(<<>>, "conflicts") = <<"conflicts">>
  OBVIOUS
<1>2. Append(<<>>, "ok") = <<"ok">>
  OBVIOUS
<1>3. Append(<<>>, "error") = <<"error">>
  OBVIOUS
<1>4. Append(<<"conflicts">>, "ok") = <<"conflicts", "ok">>
  <2>1. <<"conflicts">> \in Seq(Result) /\ <<"conflicts", "ok">> \in Seq(Result)
    BY QueueTyped
  <2>2. Append(<<"conflicts">>, "ok") \in Seq(Result)
    BY <2>1 DEF Result
  <2>3. /\ Len(Append(<<"conflicts">>, "ok")) = 2
        /\ Len(<<"conflicts", "ok">>) = 2
        /\ \A i \in 1..2 :
             Append(<<"conflicts">>, "ok")[i] = <<"conflicts", "ok">>[i]
    BY <2>1
  <2> QED
    BY <2>1, <2>2, <2>3, SeqEqual
<1> QED
  BY <1>1, <1>2, <1>3, <1>4

-----------------------------------------------------------------------------
(* The page *)

LEMMA ResolveConflictsKeeps ==
  ASSUME ResolutionInv, NEW c \in Call, ResolveConflicts(c),
         UNCHANGED nativeVars
  PROVE  ResolutionInv'
<1> USE DEF ResolutionInv
<1>1. /\ promise[c] = "none"
      /\ promise' = [promise EXCEPT ![c] = "pending"]
      /\ execs' = execs \cup {c}
      /\ UNCHANGED <<firstCall, answer, results, returns>>
      /\ UNCHANGED <<worker, resolverMap, semaphore, revision, decision,
                     effect, crashed>>
  BY DEF ResolveConflicts, nativeVars
<1>2. TypeOK'
  BY <1>1 DEF TypeOK, ScriptTypeOK
<1>3. ASSUME NEW v \in Call
      PROVE  QueueFits(v)'
  <2>1. QueueFits(v) /\ promise'[v] \in {promise[v], "pending"}
    BY <1>1 DEF TypeOK, ScriptTypeOK
  <2> QED
    BY <1>1, <2>1 DEF QueueFits
<1>4. \A v \in Call : WorkerFits(v)'
  BY <1>1 DEF WorkerFits, TypeOK, ScriptTypeOK
<1>5. AnswerInv' /\ OwnAnswer'
  BY <1>1 DEF AnswerInv, OwnAnswer
<1>6. PromiseAfterDocument'
  BY <1>1 DEF PromiseAfterDocument, TypeOK, ScriptTypeOK
<1> QED
  BY <1>2, <1>3, <1>4, <1>5, <1>6

\* The conflicts are at the head: the call was asked and has not been answered.
LEMMA ConflictsArrived ==
  ASSUME ResolutionInv, NEW c \in Call, Arrived(c, "conflicts"), Consume(c)
  PROVE  /\ \/ results[c] = <<"conflicts">>
               /\ results' = [results EXCEPT ![c] = <<>>]
            \/ results[c] = <<"conflicts", "ok">>
               /\ results' = [results EXCEPT ![c] = <<"ok">>]
         /\ firstCall[c]
         /\ answer[c] = "none"
         /\ worker[c] \in {"waiting", "decided", "ended"}
         /\ revision[c] = "null"
         /\ decision[c] \in {"none", "null"}
         /\ \A m \in returns : m.resolver # c
<1>1. /\ results[c] \in Queue /\ results[c] # <<>>
      /\ Head(results[c]) = "conflicts"
  BY DEF ResolutionInv, QueueFits, Arrived
<1>2. \/ results[c] = <<"conflicts">> /\ Tail(results[c]) = <<>>
      \/ results[c] = <<"conflicts", "ok">> /\ Tail(results[c]) = <<"ok">>
  BY <1>1, QueueTails
<1>3. /\ firstCall[c]
      /\ answer[c] = "none"
      /\ worker[c] \in {"waiting", "decided", "ended"}
  BY <1>2 DEF ResolutionInv, QueueFits
<1>4. revision[c] = "null" /\ decision[c] \in {"none", "null"}
  BY <1>3 DEF ResolutionInv, AnswerInv, OwnAnswer, TypeOK
<1>5. ASSUME NEW m \in returns, m.resolver = c
      PROVE  FALSE
  <2>1. m.docRev = "none"
    BY <1>3, <1>5 DEF ResolutionInv, AnswerInv
  <2> QED
    BY <2>1 DEF ResolutionInv, TypeOK, ScriptTypeOK, Return, Returned
<1> QED
  BY <1>2, <1>3, <1>4, <1>5 DEF Consume

\* The two ways to go on have this in common: the call has an answer, or never
\* will, and if it has, it is on its way.
LEMMA AskedKeeps ==
  ASSUME ResolutionInv, NEW c \in Call, UNCHANGED nativeVars,
         Arrived(c, "conflicts"), Consume(c),
         UNCHANGED <<promise, execs>>,
         NEW d \in Returned \cup {"threw"},
         answer' = [answer EXCEPT ![c] = d],
         firstCall' \in [Call -> BOOLEAN],
         \A v \in Call \ {c} : firstCall'[v] = firstCall[v],
         \/ returns' = returns /\ d = "threw"
         \/ returns' = returns \cup {[resolver |-> c, docRev |-> d]}
            /\ d \in Returned
  PROVE  ResolutionInv'
<1> USE DEF ResolutionInv
<1>1. \/ results[c] = <<"conflicts">>
         /\ results' = [results EXCEPT ![c] = <<>>]
      \/ results[c] = <<"conflicts", "ok">>
         /\ results' = [results EXCEPT ![c] = <<"ok">>]
  BY ConflictsArrived
<1>2. /\ answer[c] = "none"
      /\ worker[c] \in {"waiting", "decided", "ended"}
      /\ revision[c] = "null"
      /\ decision[c] \in {"none", "null"}
      /\ \A m \in returns : m.resolver # c
  BY ConflictsArrived
<1>3. \A v \in Call : QueueFits(v)'
  <2> SUFFICES ASSUME NEW v \in Call
               PROVE  QueueFits(v)'
    OBVIOUS
  <2>1. QueueFits(v) /\ QueueFits(c)
    OBVIOUS
  <2>2. CASE v = c
    <3>1. CASE /\ results[c] = <<"conflicts">>
               /\ results' = [results EXCEPT ![c] = <<>>]
      <4>1. results'[c] = <<>>
        BY <3>1 DEF TypeOK, ScriptTypeOK
      <4> QED
        BY <2>2, <4>1, QueueFacts, QueueTyped DEF QueueFits
    <3>2. CASE /\ results[c] = <<"conflicts", "ok">>
               /\ results' = [results EXCEPT ![c] = <<"ok">>]
      <4>1. /\ results'[c] = <<"ok">> /\ worker[c] = "ended"
            /\ promise[c] = "pending"
        BY <2>1, <3>2 DEF QueueFits, TypeOK, ScriptTypeOK
      <4> QED
        BY <2>2, <4>1, QueueFacts, QueueTyped DEF QueueFits, nativeVars
    <3> QED
      BY <1>1, <3>1, <3>2
  <2>3. CASE v # c
    <3>1. /\ results'[v] = results[v] /\ answer'[v] = answer[v]
          /\ firstCall'[v] = firstCall[v]
          /\ UNCHANGED <<worker, promise, effect>>
      BY <1>1, <2>3 DEF nativeVars, TypeOK, ScriptTypeOK
    <3> QED
      BY <2>1, <3>1 DEF QueueFits
  <2> QED
    BY <2>2, <2>3
<1>4. TypeOK'
  <2>1. results' \in [Call -> Seq(Result)]
    <3>1. PICK q \in Seq(Result) : results' = [results EXCEPT ![c] = q]
      <4>1. <<>> \in Seq(Result) /\ <<"ok">> \in Seq(Result)
        BY QueueTyped
      <4> QED
        BY <1>1, <4>1
    <3> QED
      BY <3>1 DEF TypeOK, ScriptTypeOK
  <2>2. answer' \in [Call -> Returned \cup {"none", "threw"}]
    BY DEF TypeOK, ScriptTypeOK
  <2>3. returns' \subseteq Return
    BY DEF TypeOK, ScriptTypeOK, Return
  <2> QED
    BY <2>1, <2>2, <2>3 DEF TypeOK, ScriptTypeOK, nativeVars
<1>5. \A v \in Call : WorkerFits(v)'
  BY <1>1, <1>2 DEF WorkerFits, nativeVars, TypeOK, ScriptTypeOK
<1>6. AnswerInv'
  <2>1. ASSUME NEW m \in returns'
        PROVE  answer'[m.resolver] = m.docRev
    BY <1>2, <2>1 DEF AnswerInv, TypeOK, ScriptTypeOK, Return
  <2>2. ASSUME NEW v \in Call, revision[v] # "null"
        PROVE  revision[v] = answer'[v]
    BY <1>2, <2>2 DEF AnswerInv, TypeOK, ScriptTypeOK
  <2>3. ASSUME NEW v \in resolverMap
        PROVE  \/ answer'[v] \in {"none", "threw"}
               \/ \E m \in returns' : m.resolver = v
    <3>1. CASE v = c
      <4>1. [resolver |-> c, docRev |-> d].resolver = c
        OBVIOUS
      <4> QED
        BY <3>1, <4>1 DEF TypeOK, ScriptTypeOK
    <3>2. CASE v # c
      BY <3>2 DEF AnswerInv, TypeOK, ScriptTypeOK
    <3> QED
      BY <3>1, <3>2
  <2> QED
    BY <2>1, <2>2, <2>3 DEF AnswerInv, nativeVars
<1>7. OwnAnswer' /\ PromiseAfterDocument'
  BY <1>2 DEF OwnAnswer, PromiseAfterDocument, nativeVars, TypeOK, ScriptTypeOK
<1> QED
  BY <1>3, <1>4, <1>5, <1>6, <1>7

LEMMA HandleConflictsKeeps ==
  ASSUME ResolutionInv, NEW c \in Call, HandleConflicts(c), UNCHANGED nativeVars
  PROVE  ResolutionInv'
<1>1. PICK d \in Returned :
        /\ answer' = [answer EXCEPT ![c] = d]
        /\ returns' = returns \cup {[resolver |-> c, docRev |-> d]}
  BY DEF HandleConflicts
<1>2. /\ firstCall' = [firstCall EXCEPT ![c] = FALSE]
      /\ UNCHANGED <<promise, execs>>
      /\ Arrived(c, "conflicts") /\ Consume(c)
  BY DEF HandleConflicts
<1>3. /\ firstCall' \in [Call -> BOOLEAN]
      /\ \A v \in Call \ {c} : firstCall'[v] = firstCall[v]
  BY <1>2 DEF ResolutionInv, TypeOK, ScriptTypeOK
<1> QED
  BY <1>1, <1>2, <1>3, AskedKeeps

LEMMA ResolverThrowsKeeps ==
  ASSUME ResolutionInv, NEW c \in Call, ResolverThrows(c), UNCHANGED nativeVars
  PROVE  ResolutionInv'
<1>1. /\ answer' = [answer EXCEPT ![c] = "threw"]
      /\ UNCHANGED <<promise, firstCall, execs, returns>>
      /\ Arrived(c, "conflicts") /\ Consume(c)
  BY DEF ResolverThrows
<1>2. /\ firstCall' \in [Call -> BOOLEAN]
      /\ \A v \in Call \ {c} : firstCall'[v] = firstCall[v]
  BY <1>1 DEF ResolutionInv, TypeOK, ScriptTypeOK
<1> QED
  BY <1>1, <1>2, AskedKeeps

\* Only the end of the call can be what else arrives: the document is dealt
\* with.
LEMMA HandleEndKeeps ==
  ASSUME ResolutionInv, NEW c \in Call, HandleOk(c) \/ HandleError(c),
         UNCHANGED nativeVars
  PROVE  ResolutionInv'
<1> USE DEF ResolutionInv
<1>1. /\ Consume(c)
      /\ UNCHANGED <<firstCall, answer, execs, returns>>
      /\ UNCHANGED nativeVars
      /\ \E r \in Result : Arrived(c, r)
      /\ Arrived(c, "conflicts") => ~firstCall[c]
  BY DEF HandleOk, HandleError, Result, Arrived
<1>2. ~Arrived(c, "conflicts")
  BY <1>1, ConflictsArrived
<1>3. /\ results[c] \in {<<"ok">>, <<"error">>}
      /\ results' = [results EXCEPT ![c] = <<>>]
      /\ Arrived(c, "ok") => results[c] = <<"ok">>
      /\ Arrived(c, "error") => results[c] = <<"error">>
  <2>1. results[c] \in Queue /\ results[c] # <<>>
    BY <1>1 DEF QueueFits, Arrived
  <2>2. Head(results[c]) \in {"ok", "error"}
    BY <1>1, <1>2 DEF Arrived, Result
  <2> QED
    BY <1>1, <2>1, <2>2, QueueTails DEF Consume, Arrived
<1>4. worker[c] = "ended" /\ promise[c] = "pending" /\ effect[c] # "none"
  BY <1>3 DEF QueueFits, WorkerFits
<1>5. \/ promise' = [promise EXCEPT ![c] = "resolved"]
      \/ effect[c] = "failed" /\ promise' = [promise EXCEPT ![c] = "rejected"]
  <2>1. CASE HandleOk(c)
    BY <1>4, <2>1 DEF HandleOk
  <2>2. CASE HandleError(c)
    BY <1>3, <1>4, <2>2 DEF HandleError, QueueFits
  <2> QED
    BY <2>1, <2>2
<1>6. \A v \in Call : QueueFits(v)'
  <2> SUFFICES ASSUME NEW v \in Call
               PROVE  QueueFits(v)'
    OBVIOUS
  <2>1. CASE v = c
    BY <1>1, <1>3, <2>1, QueueFacts, QueueTyped
       DEF QueueFits, nativeVars, TypeOK, ScriptTypeOK
  <2>2. CASE v # c
    <3>1. /\ results'[v] = results[v] /\ promise'[v] = promise[v]
          /\ UNCHANGED <<firstCall, answer, worker, effect>>
      BY <1>1, <1>3, <1>5, <2>2 DEF nativeVars, TypeOK, ScriptTypeOK
    <3>2. QueueFits(v)
      OBVIOUS
    <3> QED
      BY <3>1, <3>2 DEF QueueFits
  <2> QED
    BY <2>1, <2>2
<1>7. TypeOK'
  <2>1. results' \in [Call -> Seq(Result)]
    BY <1>3, QueueTyped DEF TypeOK, ScriptTypeOK
  <2>2. promise' \in [Call -> {"none", "pending", "resolved", "rejected"}]
    BY <1>5 DEF TypeOK, ScriptTypeOK
  <2>3. ScriptTypeOK'
    BY <1>1, <2>1, <2>2 DEF TypeOK, ScriptTypeOK, Return
  <2> QED
    BY <1>1, <2>3 DEF TypeOK, nativeVars
<1>8. (\A v \in Call : WorkerFits(v)') /\ AnswerInv'
  BY <1>1, <1>3, <1>4, <1>5
     DEF WorkerFits, AnswerInv, nativeVars, TypeOK, ScriptTypeOK
<1>9. OwnAnswer'
  BY <1>1 DEF OwnAnswer, nativeVars
<1>10. PromiseAfterDocument'
  <2>1. UNCHANGED effect
    BY <1>1 DEF nativeVars
  <2> QED
    BY <1>4, <1>5, <2>1 DEF PromiseAfterDocument, TypeOK, ScriptTypeOK
<1> QED
  BY <1>6, <1>7, <1>8, <1>9, <1>10

-----------------------------------------------------------------------------
(* The worker *)

\* A call that has not ended is pending, and its document untouched.
LEMMA StillPending ==
  ASSUME ResolutionInv, NEW c \in Call, c \in execs \/ worker[c] # "idle",
         worker[c] # "ended"
  PROVE  /\ promise[c] = "pending"
         /\ effect[c] = "none"
         /\ results[c] \in {<<>>, <<"conflicts">>}
<1>1. QueueFits(c) /\ WorkerFits(c)
  BY DEF ResolutionInv
<1>2. promise[c] # "none" /\ effect[c] = "none"
  BY <1>1 DEF WorkerFits
<1>3. promise[c] = "pending"
  BY <1>2 DEF ResolutionInv, PromiseAfterDocument
<1>4. results[c] \in {<<>>, <<"conflicts">>}
  BY <1>1 DEF QueueFits, Queue
<1> QED
  BY <1>2, <1>3, <1>4

\* The end of the call is sent behind whatever is on its way.
LEMMA EndKeeps ==
  ASSUME ResolutionInv, NEW c \in Call,
         c \in execs \/ worker[c] # "idle", worker[c] # "ended",
         NEW e \in {"unchanged", "changed", "failed"},
         NEW r \in {"ok", "error"},
         r = "error" => e = "failed" /\ results[c] = <<>>,
         End(c, e, r),
         execs' = execs \ {c},
         UNCHANGED <<promise, firstCall, answer, returns, resolverMap,
                     semaphore, revision, decision, crashed>>
  PROVE  ResolutionInv'
<1> USE DEF ResolutionInv
<1>1. /\ promise[c] = "pending"
      /\ effect[c] = "none"
      /\ results[c] \in {<<>>, <<"conflicts">>}
  BY StillPending
<1>2. /\ worker' = [worker EXCEPT ![c] = "ended"]
      /\ effect' = [effect EXCEPT ![c] = e]
  BY DEF End
<1>3. PICK q \in Queue :
        /\ results' = [results EXCEPT ![c] = q]
        /\ \/ q = <<"ok">>
           \/ q = <<"error">> /\ e = "failed"
           \/ q = <<"conflicts", "ok">> /\ results[c] = <<"conflicts">>
  <2>1. results' = [results EXCEPT ![c] = Append(results[c], r)]
    BY DEF End, Send
  <2>2. CASE r = "error"
    BY <2>1, <2>2, QueueAppends, QueueTyped
  <2>3. CASE r = "ok" /\ results[c] = <<>>
    BY <2>1, <2>3, QueueAppends, QueueTyped
  <2>4. CASE r = "ok" /\ results[c] = <<"conflicts">>
    BY <2>1, <2>4, QueueAppends, QueueTyped
  <2> QED
    BY <1>1, <2>2, <2>3, <2>4
<1>4. \A v \in Call : QueueFits(v)'
  <2> SUFFICES ASSUME NEW v \in Call
               PROVE  QueueFits(v)'
    OBVIOUS
  <2>1. QueueFits(v) /\ QueueFits(c)
    OBVIOUS
  <2>2. CASE v = c
    <3>1. /\ results'[c] = q /\ worker'[c] = "ended" /\ effect'[c] = e
          /\ promise'[c] = "pending"
          /\ UNCHANGED <<firstCall, answer>>
      BY <1>1, <1>2, <1>3 DEF TypeOK, ScriptTypeOK
    <3> QED
      BY <1>3, <2>1, <2>2, <3>1, QueueFacts DEF QueueFits
  <2>3. CASE v # c
    <3>1. /\ results'[v] = results[v] /\ worker'[v] = worker[v]
          /\ effect'[v] = effect[v]
      BY <1>2, <1>3, <2>3 DEF TypeOK, ScriptTypeOK
    <3> QED
      BY <2>1, <3>1 DEF QueueFits
  <2> QED
    BY <2>2, <2>3
<1>5. TypeOK'
  BY <1>2, <1>3, QueueTyped DEF TypeOK, ScriptTypeOK
<1>6. \A v \in Call : WorkerFits(v)'
  BY <1>1, <1>2, <1>3 DEF WorkerFits, TypeOK, ScriptTypeOK
<1>7. AnswerInv' /\ OwnAnswer'
  BY DEF AnswerInv, OwnAnswer
<1>8. PromiseAfterDocument'
  BY <1>1, <1>2 DEF PromiseAfterDocument, TypeOK
<1> QED
  BY <1>4, <1>5, <1>6, <1>7, <1>8

LEMMA StoreMissingKeeps ==
  ASSUME ResolutionInv, NEW c \in Call, StoreMissing(c)
  PROVE  ResolutionInv'
<1>1. worker[c] = "idle" /\ results[c] = <<>>
  BY DEF StoreMissing, ResolutionInv, WorkerFits
<1> QED
  BY <1>1, EndKeeps DEF StoreMissing

LEMMA NotAskedKeeps ==
  ASSUME ResolutionInv, NEW c \in Call, NotAsked(c)
  PROVE  ResolutionInv'
<1>1. execs = execs \ {c}
  BY DEF NotAsked, ResolutionInv, WorkerFits
<1> QED
  BY <1>1, EndKeeps DEF NotAsked

LEMMA FinishKeeps ==
  ASSUME ResolutionInv, NEW c \in Call, Finish(c)
  PROVE  ResolutionInv'
<1>1. execs = execs \ {c}
  BY DEF Finish, ResolutionInv, WorkerFits
<1> QED
  BY <1>1, EndKeeps DEF Finish

LEMMA RegisterKeeps ==
  ASSUME ResolutionInv, NEW c \in Call, Register(c)
  PROVE  ResolutionInv'
<1> USE DEF ResolutionInv, Register
<1>1. /\ worker[c] = "idle" /\ results[c] = <<>> /\ answer[c] = "none"
      /\ promise[c] # "none" /\ effect[c] = "none" /\ decision[c] = "none"
      /\ semaphore[c] = 0 /\ firstCall[c]
  BY DEF WorkerFits
<1>2. TypeOK'
  BY DEF TypeOK, ScriptTypeOK
<1>3. \A v \in Call : QueueFits(v)'
  BY <1>1, QueueFacts DEF QueueFits, TypeOK
<1>4. \A v \in Call : WorkerFits(v)'
  BY <1>1 DEF WorkerFits, TypeOK
<1>5. AnswerInv'
  BY <1>1 DEF AnswerInv
<1>6. OwnAnswer' /\ PromiseAfterDocument'
  BY DEF OwnAnswer, PromiseAfterDocument
<1> QED
  BY <1>2, <1>3, <1>4, <1>5, <1>6

LEMMA SendConflictsKeeps ==
  ASSUME ResolutionInv, NEW c \in Call, SendConflicts(c)
  PROVE  ResolutionInv'
<1> USE DEF ResolutionInv
<1>1. /\ worker[c] = "resolving" /\ results[c] = <<>>
      /\ answer[c] = "none" /\ firstCall[c]
  BY DEF SendConflicts, WorkerFits
<1>2. /\ results' = [results EXCEPT ![c] = <<"conflicts">>]
      /\ worker' = [worker EXCEPT ![c] = "waiting"]
      /\ UNCHANGED <<promise, firstCall, answer, execs, returns, resolverMap,
                     semaphore, revision, decision, effect, crashed>>
  BY <1>1, QueueAppends DEF SendConflicts, Send
<1>3. TypeOK'
  BY <1>2, QueueTyped DEF TypeOK, ScriptTypeOK
<1>4. \A v \in Call : QueueFits(v)'
  <2> SUFFICES ASSUME NEW v \in Call
               PROVE  QueueFits(v)'
    OBVIOUS
  <2>1. QueueFits(v)
    OBVIOUS
  <2>2. CASE v = c
    BY <1>1, <1>2, <2>2, QueueFacts, QueueTyped
       DEF QueueFits, TypeOK, ScriptTypeOK
  <2>3. CASE v # c
    <3>1. results'[v] = results[v] /\ worker'[v] = worker[v]
      BY <1>2, <2>3 DEF TypeOK, ScriptTypeOK
    <3> QED
      BY <1>2, <2>1, <3>1 DEF QueueFits
  <2> QED
    BY <2>2, <2>3
<1>5. \A v \in Call : WorkerFits(v)'
  BY <1>1, <1>2 DEF WorkerFits, TypeOK, ScriptTypeOK
<1>6. AnswerInv' /\ OwnAnswer' /\ PromiseAfterDocument'
  BY <1>2 DEF AnswerInv, OwnAnswer, PromiseAfterDocument
<1> QED
  BY <1>3, <1>4, <1>5, <1>6

\* The decision is the answer that the wrapper was told.
LEMMA WakeKeeps ==
  ASSUME ResolutionInv, NEW c \in Call, Wake(c)
  PROVE  ResolutionInv'
<1> USE DEF ResolutionInv, Wake, scriptVars
<1>1. TypeOK'
  BY DEF TypeOK, ScriptTypeOK
<1>2. c \notin resolverMap
  BY DEF AnswerInv, TypeOK
<1>3. \A v \in Call : QueueFits(v)'
  BY DEF QueueFits, TypeOK
<1>4. \A v \in Call : WorkerFits(v)'
  BY DEF WorkerFits, TypeOK
<1>5. AnswerInv'
  BY <1>2 DEF AnswerInv, TypeOK
<1>6. OwnAnswer' /\ PromiseAfterDocument'
  BY DEF OwnAnswer, PromiseAfterDocument, AnswerInv, TypeOK
<1> QED
  BY <1>1, <1>3, <1>4, <1>5, <1>6

LEMMA WaitOverKeeps ==
  ASSUME ResolutionInv, NEW c \in Call, WaitOver(c)
  PROVE  ResolutionInv'
<1> USE DEF ResolutionInv, WaitOver, scriptVars
<1>1. TypeOK'
  BY DEF TypeOK, ScriptTypeOK
<1>2. \A v \in Call : QueueFits(v)'
  BY DEF QueueFits, TypeOK
<1>3. \A v \in Call : WorkerFits(v)'
  BY DEF WorkerFits, TypeOK
<1>4. AnswerInv' /\ OwnAnswer' /\ PromiseAfterDocument'
  BY DEF AnswerInv, OwnAnswer, PromiseAfterDocument, TypeOK
<1> QED
  BY <1>1, <1>2, <1>3, <1>4

-----------------------------------------------------------------------------
(* returnResolvedDocument *)

\* What ends the process changes nothing else.
LEMMA ReturnRaisesKeeps ==
  ASSUME ResolutionInv, NEW m \in returns, ReturnRaises(m)
  PROVE  ResolutionInv'
<1> USE DEF ResolutionInv, ReturnRaises, scriptVars
<1>1. TypeOK'
  BY DEF TypeOK, ScriptTypeOK
<1>2. \A v \in Call : QueueFits(v)' /\ WorkerFits(v)'
  BY DEF QueueFits, WorkerFits
<1>3. AnswerInv' /\ OwnAnswer' /\ PromiseAfterDocument'
  BY DEF AnswerInv, OwnAnswer, PromiseAfterDocument
<1> QED
  BY <1>1, <1>2, <1>3

\* The wrapper that is told is the one the answer was given for.
LEMMA ReturnResolvedKeeps ==
  ASSUME ResolutionInv, NEW m \in returns, ReturnResolved(m)
  PROVE  ResolutionInv'
<1> USE DEF ResolutionInv
<1>1. /\ m.resolver \in Call /\ m.docRev \in {"null", "known", "stranger"}
      /\ answer[m.resolver] = m.docRev
  BY DEF ReturnResolved, AnswerInv, TypeOK, ScriptTypeOK, Return, Returned
<1>2. /\ returns' = returns \ {m}
      /\ resolverMap' = resolverMap \ {m.resolver}
      /\ UNCHANGED <<promise, firstCall, answer, execs, results, worker,
                     decision, effect, crashed>>
  BY DEF ReturnResolved
<1>3. /\ \/ revision' = revision
         \/ revision' = [revision EXCEPT ![m.resolver] = m.docRev]
      /\ \/ semaphore' = semaphore
         \/ /\ m.resolver \in resolverMap
            /\ semaphore' = [semaphore EXCEPT ![m.resolver] = 1]
  <2>1. m.resolver \in resolverMap => semaphore[m.resolver] + 1 = 1
    BY DEF AnswerInv
  <2> QED
    BY <2>1 DEF ReturnResolved
<1>4. TypeOK'
  <2>1. revision' \in [Call -> {"null", "known", "stranger"}]
    BY <1>1, <1>3 DEF TypeOK
  <2>2. semaphore' \in [Call -> {0, 1}]
    BY <1>1, <1>3 DEF TypeOK
  <2> QED
    BY <1>2, <2>1, <2>2 DEF TypeOK, ScriptTypeOK
<1>5. \A v \in Call : QueueFits(v)'
  BY <1>2 DEF QueueFits
<1>6. \A v \in Call : WorkerFits(v)'
  BY <1>1, <1>2, <1>3 DEF WorkerFits, TypeOK
<1>7. AnswerInv'
  <2>1. \A n \in returns' : answer'[n.resolver] = n.docRev
    BY <1>2 DEF AnswerInv
  <2>2. \A v \in Call : revision'[v] # "null" => revision'[v] = answer'[v]
    BY <1>1, <1>2, <1>3 DEF AnswerInv, TypeOK
  <2>3. ASSUME NEW v \in resolverMap'
        PROVE  /\ semaphore'[v] = 0
               /\ \/ answer'[v] \in {"none", "threw"}
                  \/ \E n \in returns' : n.resolver = v
    BY <1>1, <1>2, <1>3 DEF AnswerInv, TypeOK
  <2> QED
    BY <2>1, <2>2, <2>3 DEF AnswerInv
<1>8. OwnAnswer' /\ PromiseAfterDocument'
  BY <1>2 DEF OwnAnswer, PromiseAfterDocument
<1> QED
  BY <1>4, <1>5, <1>6, <1>7, <1>8

-----------------------------------------------------------------------------
(* The theorems *)

LEMMA InitResolution == Init => ResolutionInv
<1> SUFFICES ASSUME Init
             PROVE  ResolutionInv
  OBVIOUS
<1> USE DEF Init, ScriptInit
<1>1. TypeOK
  BY QueueTyped DEF TypeOK, ScriptTypeOK
<1>2. \A c \in Call : QueueFits(c) /\ WorkerFits(c)
  BY QueueFacts, QueueTyped DEF QueueFits, WorkerFits
<1>3. AnswerInv /\ OwnAnswer /\ PromiseAfterDocument
  BY DEF AnswerInv, OwnAnswer, PromiseAfterDocument
<1> QED
  BY <1>1, <1>2, <1>3 DEF ResolutionInv

LEMMA StutterResolution ==
  ASSUME ResolutionInv, UNCHANGED vars
  PROVE  ResolutionInv'
<1> USE DEF vars, scriptVars, nativeVars, ResolutionInv
<1>1. TypeOK'
  BY DEF TypeOK, ScriptTypeOK
<1>2. \A c \in Call : QueueFits(c)' /\ WorkerFits(c)'
  BY DEF QueueFits, WorkerFits
<1>3. AnswerInv' /\ OwnAnswer' /\ PromiseAfterDocument'
  BY DEF AnswerInv, OwnAnswer, PromiseAfterDocument
<1> QED
  BY <1>1, <1>2, <1>3

LEMMA NextResolution ==
  ASSUME ResolutionInv, [Next]_vars
  PROVE  ResolutionInv'
<1>1. ASSUME NEW c \in Call, ResolveConflicts(c) \/ Handle(c),
             UNCHANGED nativeVars
      PROVE  ResolutionInv'
  BY <1>1, ResolveConflictsKeeps, HandleConflictsKeeps, ResolverThrowsKeeps,
     HandleEndKeeps DEF Handle
<1>2. ASSUME NEW c \in Call, WorkerStep(c)
      PROVE  ResolutionInv'
  BY <1>2, StoreMissingKeeps, RegisterKeeps, NotAskedKeeps, SendConflictsKeeps,
     WakeKeeps, WaitOverKeeps, FinishKeeps DEF WorkerStep
<1>3. CASE ReturnStep
  BY <1>3, ReturnRaisesKeeps, ReturnResolvedKeeps DEF ReturnStep
<1> QED
  BY <1>1, <1>2, <1>3, StutterResolution DEF Next, ScriptStep

\* The inductive invariant: a call is answered at most once, by itself, and its
\* end is the last that is sent to it, however late the page is.
THEOREM ResolutionCorrect == Spec => []ResolutionInv
<1>1. ResolutionInv /\ [Next]_vars => ResolutionInv'
  BY NextResolution
<1> QED
  BY InitResolution, <1>1, PTL DEF Spec, Safe

\* TypeOK is an invariant of conflict resolution on iOS: the semaphore of a
\* wrapper is signalled at most once (CDTSyncPlugin.m, returnResolvedDocument).
THEOREM TypeCorrect == Spec => []TypeOK
BY ResolutionCorrect, PTL DEF ResolutionInv

\* However many calls are under way and whichever wait runs out, a revision that
\* reaches the library is the one the conflictResolver of that call returned.
THEOREM OwnAnswerCorrect == Spec => []OwnAnswer
BY ResolutionCorrect, PTL DEF ResolutionInv

\* The promise settles only after the document has been dealt with, also if the
\* page handles the conflicts after the wait has run out.
THEOREM PromiseAfterDocumentCorrect == Spec => []PromiseAfterDocument
BY ResolutionCorrect, PTL DEF ResolutionInv

\* An entry that outlives its call in resolverMap is of a call nobody answered,
\* or whose answer is still on its way.
THEOREM EntryLeftUnansweredCorrect == Spec => []EntryLeftUnanswered
<1>1. ResolutionInv => EntryLeftUnanswered
  BY DEF ResolutionInv, AnswerInv, EntryLeftUnanswered
<1> QED
  BY ResolutionCorrect, <1>1, PTL

-----------------------------------------------------------------------------
(* Refinement *)

LEMMA InitRefines == Init => Resolution!Init
<1> SUFFICES ASSUME Init
             PROVE  Resolution!Init
  OBVIOUS
<1>1. \A c \in Call : AnswerOf(c) = "none"
  BY DEF Init, ScriptInit, AnswerOf
<1> QED
  BY <1>1 DEF Init, ScriptInit, Resolution!Init

LEMMA StutterRefines ==
  ASSUME UNCHANGED <<promise, answer, effect>>
  PROVE  UNCHANGED Resolution!vars
BY DEF Resolution!vars, AnswerOf

LEMMA ResolveConflictsRefines ==
  ASSUME ResolutionInv, NEW c \in Call, ResolveConflicts(c),
         UNCHANGED nativeVars
  PROVE  Resolution!Begin(c)
BY DEF ResolveConflicts, nativeVars, Resolution!Begin, AnswerOf

\* What the conflictResolver does is the application's one decision, even if
\* the native side has stopped waiting for it.
LEMMA AskedRefines ==
  ASSUME ResolutionInv, NEW c \in Call, HandleConflicts(c) \/ ResolverThrows(c),
         UNCHANGED nativeVars
  PROVE  Resolution!Decide(c)
<1>1. /\ Consume(c) /\ Arrived(c, "conflicts")
      /\ \E d \in Returned \cup {"threw"} : answer' = [answer EXCEPT ![c] = d]
      /\ UNCHANGED <<promise, effect>>
  BY DEF HandleConflicts, ResolverThrows, nativeVars
<1>2. /\ answer[c] = "none"
      /\ worker[c] \in {"waiting", "decided", "ended"}
      /\ results[c] \in {<<"conflicts">>, <<"conflicts", "ok">>}
  BY <1>1, ConflictsArrived
<1>3. promise[c] = "pending" /\ AnswerOf(c) = "none"
  <2>1. CASE worker[c] = "ended"
    BY <1>2, <2>1 DEF ResolutionInv, QueueFits, AnswerOf
  <2>2. CASE worker[c] # "ended"
    BY <1>2, <2>2, StillPending DEF AnswerOf
  <2> QED
    BY <2>1, <2>2
<1>4. /\ \A v \in Call \ {c} : AnswerOf(v)' = AnswerOf(v)
      /\ AnswerOf(c)' \in {"keep", "winner"}
  BY <1>1 DEF ResolutionInv, TypeOK, ScriptTypeOK, Returned, AnswerOf
<1> QED
  BY <1>1, <1>3, <1>4 DEF Resolution!Decide

LEMMA SettleRefines ==
  ASSUME ResolutionInv, NEW c \in Call, HandleOk(c) \/ HandleError(c),
         UNCHANGED nativeVars
  PROVE  Resolution!Settle(c)
<1>1. Consume(c) /\ UNCHANGED <<answer, effect>>
  BY DEF HandleOk, HandleError, nativeVars
<1>2. ~Arrived(c, "conflicts")
  BY <1>1, ConflictsArrived DEF HandleOk, HandleError, Arrived
<1>3. results[c] \in {<<"ok">>, <<"error">>}
  <2>1. results[c] \in Queue /\ results[c] # <<>>
        /\ Head(results[c]) \in {"ok", "error"}
    BY <1>2 DEF HandleOk, HandleError, ResolutionInv, QueueFits, Arrived
  <2> QED
    BY <2>1, QueueTails
<1>4. promise[c] = "pending" /\ effect[c] # "none"
  BY <1>3 DEF ResolutionInv, QueueFits, WorkerFits
<1>5. \E p \in {"resolved", "rejected"} : promise' = [promise EXCEPT ![c] = p]
  BY <1>4 DEF HandleOk, HandleError
<1>6. \A v \in Call : AnswerOf(v)' = AnswerOf(v)
  BY <1>1 DEF AnswerOf
<1> QED
  BY <1>1, <1>4, <1>5, <1>6 DEF Resolution!Settle

\* The document is dealt with while the caller waits, and it changes only by a
\* revision its conflictResolver returned.
LEMMA EndRefines ==
  ASSUME ResolutionInv, NEW c \in Call,
         StoreMissing(c) \/ NotAsked(c) \/ Finish(c)
  PROVE  Resolution!Apply(c)
<1>1. /\ UNCHANGED <<promise, answer>>
      /\ \/ c \in execs /\ worker[c] = "idle"
         \/ worker[c] \in {"resolving", "decided"}
  BY DEF StoreMissing, NotAsked, Finish, ResolutionInv, WorkerFits
<1>2. promise[c] = "pending" /\ effect[c] = "none"
  BY <1>1, StillPending
<1>3. \/ effect' = [effect EXCEPT ![c] = "unchanged"]
      \/ effect' = [effect EXCEPT ![c] = "failed"]
      \/ /\ decision[c] # "null" /\ worker[c] = "decided"
         /\ effect' = [effect EXCEPT ![c] = "changed"]
  BY DEF StoreMissing, NotAsked, Finish, End
<1>4. decision[c] # "null" /\ worker[c] = "decided" => AnswerOf(c) = "winner"
  BY DEF ResolutionInv, WorkerFits, TypeOK, OwnAnswer, AnswerOf
<1>5. \A v \in Call : AnswerOf(v)' = AnswerOf(v)
  BY <1>1 DEF AnswerOf
<1> QED
  BY <1>1, <1>2, <1>3, <1>4, <1>5 DEF Resolution!Apply

LEMMA NextRefines ==
  ASSUME ResolutionInv, [Next]_vars
  PROVE  [Resolution!Next]_(Resolution!vars)
<1>1. CASE UNCHANGED vars
  BY <1>1, StutterRefines DEF vars, scriptVars, nativeVars
<1>2. ASSUME NEW c \in Call, ResolveConflicts(c) \/ Handle(c),
             UNCHANGED nativeVars
      PROVE  [Resolution!Next]_(Resolution!vars)
  BY <1>2, ResolveConflictsRefines, AskedRefines, SettleRefines
     DEF Handle, Resolution!Next
<1>3. ASSUME NEW c \in Call, WorkerStep(c)
      PROVE  [Resolution!Next]_(Resolution!vars)
  <2>1. CASE StoreMissing(c) \/ NotAsked(c) \/ Finish(c)
    BY <2>1, EndRefines DEF Resolution!Next
  <2>2. CASE Register(c) \/ SendConflicts(c) \/ Wake(c) \/ WaitOver(c)
    BY <2>2, StutterRefines
       DEF Register, SendConflicts, Wake, WaitOver, scriptVars
  <2> QED
    BY <1>3, <2>1, <2>2 DEF WorkerStep
<1>4. CASE ReturnStep
  BY <1>4, StutterRefines DEF ReturnStep, ReturnRaises, ReturnResolved,
     scriptVars
<1> QED
  BY <1>1, <1>2, <1>3, <1>4 DEF Next, ScriptStep

\* Conflict resolution on iOS implements the safety of ConflictResolution.
THEOREM RefinesResolution == Spec => ImplementsSafety
<1>1. ResolutionInv /\ [Next]_vars => [Resolution!Next]_(Resolution!vars)
  BY NextRefines
<1> QED
  BY InitRefines, ResolutionCorrect, <1>1, PTL
     DEF Spec, Safe, ImplementsSafety, Resolution!Safe

================================================================================
