--------------------- MODULE ConflictResolverAndroidProofs ---------------------
(* Proofs about ConflictResolverAndroid, for any number of concurrent calls. *)
EXTENDS ConflictResolverAndroid, TLAPS

-----------------------------------------------------------------------------
(* Results on their way: there is at most one of a call, so that sending and
   handling are simple. *)

LEMMA OneResult ==
  ASSUME NEW r
  PROVE  <<r>> # <<>> /\ Head(<<r>>) = r /\ Tail(<<r>>) = <<>>
         /\ Append(<<>>, r) = <<r>>
OBVIOUS

LEMMA DistinctResults ==
  /\ <<"conflicts">> # <<>> /\ <<"ok">> # <<>> /\ <<"error">> # <<>>
  /\ <<"conflicts">> # <<"ok">> /\ <<"conflicts">> # <<"error">>
  /\ <<"ok">> # <<"error">>
OBVIOUS

\* A result that arrives is the only one of its call.
LEMMA ArrivedAlone ==
  ASSUME ResultInv, NEW c \in Call, Consume(c)
  PROVE  /\ \A r \in {"conflicts", "ok", "error"} : Arrived(c, r) =>
              results[c] = <<r>> /\ results' = [results EXCEPT ![c] = <<>>]
         /\ Arrived(c, "conflicts") => firstCall[c]
<1>1. results[c] \in {<<>>, <<"conflicts">>, <<"ok">>, <<"error">>}
  BY DEF ResultInv, LoneResult
<1>2. \A r \in {"conflicts", "ok", "error"} :
        Arrived(c, r) => results[c] = <<r>>
  BY <1>1, OneResult DEF Arrived
<1>3. results[c] # <<>> => Tail(results[c]) = <<>>
  BY <1>1, OneResult
<1>4. results[c] # <<>> => results' = [results EXCEPT ![c] = <<>>]
  BY <1>3 DEF Consume
<1>5. Arrived(c, "conflicts") => firstCall[c]
  BY <1>2 DEF ResultInv, LoneResult
<1> QED
  BY <1>2, <1>4, <1>5 DEF Arrived

LEMMA SentAlone ==
  ASSUME NEW c \in Call, NEW r, results[c] = <<>>, Send(c, r)
  PROVE  results' = [results EXCEPT ![c] = <<r>>]
BY OneResult DEF Send

LEMMA SendTyped ==
  ASSUME NEW s \in Seq(Result), NEW r \in Result
  PROVE  Append(s, r) \in Seq(Result)
OBVIOUS

LEMMA ConsumeTyped ==
  ASSUME NEW s \in Seq(Result), s # <<>>
  PROVE  Tail(s) \in Seq(Result) /\ Head(s) \in Result
OBVIOUS

-----------------------------------------------------------------------------
(* Types *)

LEMMA InitTypeOK == Init => TypeOK
BY DEF Init, ScriptInit, TypeOK, ScriptTypeOK

LEMMA ScriptStepTypeOK ==
  ASSUME TypeOK, NEW c \in Call, ResolveConflicts(c) \/ Handle(c),
         UNCHANGED nativeVars
  PROVE  TypeOK'
<1> USE DEF TypeOK, ScriptTypeOK, nativeVars, Return
<1>1. CASE ResolveConflicts(c)
  BY <1>1 DEF ResolveConflicts
<1>2. CASE Handle(c)
  <2>1. results' \in [Call -> Seq(Result)]
    <3>1. results[c] # <<>> /\ Consume(c)
      BY <1>2 DEF Handle, HandleConflicts, ResolverThrows, HandleOk,
         HandleError, Arrived
    <3>2. results[c] \in Seq(Result)
      OBVIOUS
    <3>3. Tail(results[c]) \in Seq(Result)
      BY <3>1, <3>2, ConsumeTyped
    <3> QED
      BY <3>1, <3>3 DEF Consume
  <2>2. CASE HandleConflicts(c)
    BY <2>1, <2>2 DEF HandleConflicts, Returned
  <2>3. CASE ResolverThrows(c)
    BY <2>1, <2>3 DEF ResolverThrows
  <2>4. CASE HandleOk(c) \/ HandleError(c)
    <3>1. /\ \E p \in {"pending", "none", "resolved", "rejected"} :
               promise' = [promise EXCEPT ![c] = p]
          /\ UNCHANGED <<firstCall, answer, execs, returns>>
      <4>1. promise[c] \in {"pending", "none", "resolved", "rejected"}
        OBVIOUS
      <4>2. CASE HandleOk(c)
        BY <4>1, <4>2 DEF HandleOk
      <4>3. CASE HandleError(c)
        BY <4>1, <4>3 DEF HandleError
      <4> QED
        BY <2>4, <4>2, <4>3
    <3> QED
      BY <2>1, <3>1
  <2> QED
    BY <1>2, <2>2, <2>3, <2>4 DEF Handle
<1> QED
  BY <1>1, <1>2

LEMMA WorkerStepTypeOK ==
  ASSUME TypeOK, NEW c \in Call, WorkerStep(c)
  PROVE  TypeOK'
<1> USE DEF TypeOK, ScriptTypeOK
<1>1. ASSUME NEW r \in Result, Send(c, r)
      PROVE  results' \in [Call -> Seq(Result)]
  BY <1>1, SendTyped DEF Send
<1>2. ASSUME NEW e \in {"unchanged", "changed", "failed"},
             NEW r \in {"ok", "error"}, End(c, e, r)
      PROVE  /\ results' \in [Call -> Seq(Result)]
             /\ effect' \in [Call -> {"none", "unchanged", "changed", "failed"}]
             /\ worker' \in [Call -> {"idle", "resolving", "waiting", "decided",
                                      "ended"}]
  BY <1>1, <1>2 DEF End, Result
<1>3. CASE StoreMissing(c)
  BY <1>2, <1>3 DEF StoreMissing
<1>4. CASE Register(c)
  BY <1>4 DEF Register
<1>5. CASE NotAsked(c)
  BY <1>2, <1>5 DEF NotAsked
<1>6. CASE ConflictsUnreadable(c)
  BY <1>6 DEF ConflictsUnreadable, scriptVars
<1>7. CASE SendConflicts(c)
  BY <1>1, <1>7 DEF SendConflicts, Result
<1>8. CASE Wake(c)
  BY <1>8 DEF Wake, scriptVars
<1>9. CASE Finish(c)
  BY <1>2, <1>9 DEF Finish
<1> QED
  BY <1>3, <1>4, <1>5, <1>6, <1>7, <1>8, <1>9 DEF WorkerStep

LEMMA ReturnStepTypeOK ==
  ASSUME TypeOK, ReturnStep
  PROVE  TypeOK'
<1> USE DEF TypeOK, ScriptTypeOK, Return
<1>1. ASSUME NEW m \in returns, TakeResolver(m)
      PROVE  TypeOK'
  BY <1>1 DEF TakeResolver
<1>2. ASSUME NEW t \in tasks, ConversionFails(t)
      PROVE  TypeOK'
  BY <1>2 DEF ConversionFails, scriptVars
<1>3. ASSUME NEW t \in tasks, SetRevision(t)
      PROVE  TypeOK'
  <2>1. t.resolver \in Call /\ t.docRev \in {"null", "known", "stranger"}
    BY <1>3 DEF SetRevision, Returned
  <2> QED
    BY <1>3, <2>1 DEF SetRevision, scriptVars
<1> QED
  BY <1>1, <1>2, <1>3 DEF ReturnStep

LEMMA NextTypeOK ==
  ASSUME TypeOK, [Next]_vars
  PROVE  TypeOK'
<1>1. CASE UNCHANGED vars
  BY <1>1 DEF vars, scriptVars, nativeVars, TypeOK, ScriptTypeOK
<1> QED
  BY <1>1, ScriptStepTypeOK, WorkerStepTypeOK, ReturnStepTypeOK
     DEF Next, ScriptStep

\* TypeOK is an invariant of conflict resolution on Android.
THEOREM TypeCorrect == Spec => []TypeOK
BY InitTypeOK, NextTypeOK, PTL DEF Spec, Safe

-----------------------------------------------------------------------------
(* The inductive invariant: one lemma per action *)

\* The answer is given, and a message to a registered wrapper carries it.
LEMMA HandleConflictsKeeps ==
  ASSUME TypeOK, ResolutionInv, NEW c \in Call, HandleConflicts(c),
         UNCHANGED nativeVars
  PROVE  ResolutionInv'
<1>a. /\ results[c] = <<"conflicts">>
      /\ results' = [results EXCEPT ![c] = <<>>]
  <2>1. Arrived(c, "conflicts") /\ Consume(c)
    BY DEF HandleConflicts
  <2> QED
    BY <2>1, ArrivedAlone DEF ResolutionInv
<1>b. /\ worker[c] = "waiting" /\ answer[c] = "none" /\ ~complete[c]
      /\ c \in resolverMap
      /\ \A m \in returns \cup tasks : m.resolver # c
  <2>1. worker[c] = "waiting" /\ answer[c] = "none" /\ c \in resolverMap
    BY <1>a, DistinctResults DEF ResolutionInv, ResultInv, LoneResult
  <2>2. ~complete[c]
    BY <2>1 DEF ResolutionInv, ToldInv
  <2>3. ASSUME NEW m \in returns \cup tasks, m.resolver = c
        PROVE  FALSE
    <3>1. answer[c] = m.docRev
      BY <2>3 DEF ResolutionInv, AnswerInv
    <3>2. m.docRev \in Returned
      BY DEF TypeOK, ScriptTypeOK, Return
    <3> QED
      BY <2>1, <3>1, <3>2 DEF Returned
  <2> QED
    BY <2>1, <2>2, <2>3
<1> USE DEF TypeOK, ScriptTypeOK, Return, ResolutionInv
<1>1. OwnAnswer'
  BY <1>b DEF HandleConflicts, Returned, nativeVars, OwnAnswer
<1>2. NullMeansNull'
  BY <1>b DEF HandleConflicts, Returned, nativeVars, NullMeansNull, ToldInv
<1>3. PromiseTellsOutcome'
  BY DEF HandleConflicts, Returned, nativeVars, PromiseTellsOutcome
<1>4. AnswerAccounted'
  <2> SUFFICES ASSUME NEW v \in Call, worker'[v] = "waiting"
               PROVE  Owed(v)'
    BY DEF AnswerAccounted
  <2>1. CASE v = c
    <3>1. PICK d \in Returned :
           returns' = returns \cup {[resolver |-> c, docRev |-> d]}
      BY DEF HandleConflicts
    <3>2. [resolver |-> c, docRev |-> d].resolver = c
      OBVIOUS
    <3> QED
      BY <2>1, <3>1, <3>2, <1>b DEF HandleConflicts, nativeVars, Owed
  <2>2. CASE v # c
    <3>1. worker[v] = "waiting" /\ Owed(v)
      BY <2>2, <1>a, <1>b
         DEF HandleConflicts, Returned, nativeVars, AnswerAccounted
    <3> QED
      BY <2>2, <3>1, <1>a, <1>b DEF HandleConflicts, Returned, nativeVars, Owed
  <2> QED
    BY <2>1, <2>2
<1>5. EntryLeftUnasked'
  BY <1>b DEF HandleConflicts, Returned, nativeVars, EntryLeftUnasked
<1>6. BeginInv'
  BY <1>a, <1>b DEF HandleConflicts, Returned, nativeVars, BeginInv
<1>7. ResultInv'
  <2> SUFFICES ASSUME NEW v \in Call
               PROVE  LoneResult(v)'
    BY DEF ResultInv
  <2>1. CASE v = c
    BY <2>1, <1>a, <1>b, DistinctResults
       DEF HandleConflicts, Returned, nativeVars, LoneResult, ResultInv
  <2>2. CASE v # c
    <3>1. LoneResult(v)
      BY DEF ResultInv
    <3> QED
      BY <2>2, <3>1, <1>a, <1>b
         DEF HandleConflicts, Returned, nativeVars, LoneResult
  <2> QED
    BY <2>1, <2>2
<1>8. AnswerInv'
  BY <1>b DEF HandleConflicts, Returned, nativeVars, AnswerInv
<1>9. ToldInv'
  BY <1>b DEF HandleConflicts, Returned, nativeVars, ToldInv
<1> QED
  BY <1>1, <1>2, <1>3, <1>4, <1>5, <1>6, <1>7, <1>8, <1>9

\* JavaScript owes no answer any more.
LEMMA ResolverThrowsKeeps ==
  ASSUME TypeOK, ResolutionInv, NEW c \in Call, ResolverThrows(c),
         UNCHANGED nativeVars
  PROVE  ResolutionInv'
<1>a. /\ results[c] = <<"conflicts">>
      /\ results' = [results EXCEPT ![c] = <<>>]
  <2>1. Arrived(c, "conflicts") /\ Consume(c)
    BY DEF ResolverThrows
  <2> QED
    BY <2>1, ArrivedAlone DEF ResolutionInv
<1>b. /\ worker[c] = "waiting" /\ answer[c] = "none" /\ ~complete[c]
      /\ c \in resolverMap
      /\ \A m \in returns \cup tasks : m.resolver # c
  <2>1. worker[c] = "waiting" /\ answer[c] = "none" /\ c \in resolverMap
    BY <1>a, DistinctResults DEF ResolutionInv, ResultInv, LoneResult
  <2>2. ~complete[c]
    BY <2>1 DEF ResolutionInv, ToldInv
  <2>3. ASSUME NEW m \in returns \cup tasks, m.resolver = c
        PROVE  FALSE
    <3>1. answer[c] = m.docRev
      BY <2>3 DEF ResolutionInv, AnswerInv
    <3>2. m.docRev \in Returned
      BY DEF TypeOK, ScriptTypeOK, Return
    <3> QED
      BY <2>1, <3>1, <3>2 DEF Returned
  <2> QED
    BY <2>1, <2>2, <2>3
<1> USE DEF TypeOK, ScriptTypeOK, Return, ResolutionInv
<1>1. OwnAnswer'
  BY <1>b DEF ResolverThrows, nativeVars, OwnAnswer
<1>2. NullMeansNull'
  BY <1>b DEF ResolverThrows, nativeVars, NullMeansNull, ToldInv
<1>3. PromiseTellsOutcome'
  BY DEF ResolverThrows, nativeVars, PromiseTellsOutcome
<1>4. AnswerAccounted'
  <2> SUFFICES ASSUME NEW v \in Call, worker'[v] = "waiting"
               PROVE  Owed(v)'
    BY DEF AnswerAccounted
  <2>1. CASE v = c
    BY <2>1, <1>a, <1>b, DistinctResults
       DEF ResolverThrows, nativeVars, Owed, ResultInv, LoneResult
  <2>2. CASE v # c
    <3>1. worker[v] = "waiting" /\ Owed(v)
      BY <2>2, <1>a, <1>b DEF ResolverThrows, nativeVars, AnswerAccounted
    <3> QED
      BY <2>2, <3>1, <1>a, <1>b DEF ResolverThrows, nativeVars, Owed
  <2> QED
    BY <2>1, <2>2
<1>5. EntryLeftUnasked'
  BY <1>b DEF ResolverThrows, nativeVars, EntryLeftUnasked
<1>6. BeginInv'
  BY <1>a, <1>b DEF ResolverThrows, nativeVars, BeginInv
<1>7. ResultInv'
  <2> SUFFICES ASSUME NEW v \in Call
               PROVE  LoneResult(v)'
    BY DEF ResultInv
  <2>1. CASE v = c
    BY <2>1, <1>a, <1>b, DistinctResults
       DEF ResolverThrows, nativeVars, LoneResult, ResultInv
  <2>2. CASE v # c
    <3>1. LoneResult(v)
      BY DEF ResultInv
    <3> QED
      BY <2>2, <3>1, <1>a, <1>b DEF ResolverThrows, nativeVars, LoneResult
  <2> QED
    BY <2>1, <2>2
<1>8. AnswerInv'
  BY <1>b DEF ResolverThrows, nativeVars, AnswerInv
<1>9. ToldInv'
  BY <1>b DEF ResolverThrows, nativeVars, ToldInv
<1> QED
  BY <1>1, <1>2, <1>3, <1>4, <1>5, <1>6, <1>7, <1>8, <1>9

\* Only the end of the call is left to be handled by then.
LEMMA HandleOkKeeps ==
  ASSUME TypeOK, ResolutionInv, NEW c \in Call, HandleOk(c),
         UNCHANGED nativeVars
  PROVE  ResolutionInv'
<1>a. /\ results[c] = <<"ok">>
      /\ results' = [results EXCEPT ![c] = <<>>]
  <2>1. Consume(c) /\ (Arrived(c, "conflicts") => ~firstCall[c])
    BY DEF HandleOk
  <2>2. Arrived(c, "ok")
    BY <2>1, ArrivedAlone DEF HandleOk, ResolutionInv
  <2> QED
    BY <2>1, <2>2, ArrivedAlone DEF ResolutionInv
<1> USE DEF TypeOK, ScriptTypeOK, Return, ResolutionInv
<1>1. OwnAnswer'
  BY DEF HandleOk, nativeVars, OwnAnswer
<1>2. NullMeansNull'
  BY DEF HandleOk, nativeVars, NullMeansNull
<1>3. PromiseTellsOutcome'
  BY <1>a DEF HandleOk, nativeVars, PromiseTellsOutcome, ResultInv, LoneResult
<1>4. AnswerAccounted'
  <2> SUFFICES ASSUME NEW v \in Call, worker'[v] = "waiting"
               PROVE  Owed(v)'
    BY DEF AnswerAccounted
  <2>1. CASE v = c
    BY <2>1, <1>a, DistinctResults
       DEF HandleOk, nativeVars, ResultInv, LoneResult
  <2>2. CASE v # c
    <3>1. worker[v] = "waiting" /\ Owed(v)
      BY <2>2, <1>a DEF HandleOk, nativeVars, AnswerAccounted
    <3> QED
      BY <2>2, <3>1, <1>a DEF HandleOk, nativeVars, Owed
  <2> QED
    BY <2>1, <2>2
<1>5. EntryLeftUnasked'
  BY DEF HandleOk, nativeVars, EntryLeftUnasked
<1>6. BeginInv'
  BY <1>a DEF HandleOk, nativeVars, BeginInv
<1>7. ResultInv'
  <2> SUFFICES ASSUME NEW v \in Call
               PROVE  LoneResult(v)'
    BY DEF ResultInv
  <2>1. CASE v = c
    BY <2>1, <1>a, DistinctResults
       DEF HandleOk, nativeVars, LoneResult, ResultInv
  <2>2. CASE v # c
    <3>1. LoneResult(v)
      BY DEF ResultInv
    <3> QED
      BY <2>2, <3>1, <1>a DEF HandleOk, nativeVars, LoneResult
  <2> QED
    BY <2>1, <2>2
<1>8. AnswerInv'
  BY DEF HandleOk, nativeVars, AnswerInv
<1>9. ToldInv'
  BY DEF HandleOk, nativeVars, ToldInv
<1> QED
  BY <1>1, <1>2, <1>3, <1>4, <1>5, <1>6, <1>7, <1>8, <1>9

\* Likewise.
LEMMA HandleErrorKeeps ==
  ASSUME TypeOK, ResolutionInv, NEW c \in Call, HandleError(c),
         UNCHANGED nativeVars
  PROVE  ResolutionInv'
<1>a. /\ results[c] = <<"error">>
      /\ results' = [results EXCEPT ![c] = <<>>]
  <2>1. Arrived(c, "error") /\ Consume(c)
    BY DEF HandleError
  <2> QED
    BY <2>1, ArrivedAlone DEF ResolutionInv
<1> USE DEF TypeOK, ScriptTypeOK, Return, ResolutionInv
<1>1. OwnAnswer'
  BY DEF HandleError, nativeVars, OwnAnswer
<1>2. NullMeansNull'
  BY DEF HandleError, nativeVars, NullMeansNull
<1>3. PromiseTellsOutcome'
  BY <1>a DEF HandleError, nativeVars, PromiseTellsOutcome, ResultInv,
     LoneResult
<1>4. AnswerAccounted'
  <2> SUFFICES ASSUME NEW v \in Call, worker'[v] = "waiting"
               PROVE  Owed(v)'
    BY DEF AnswerAccounted
  <2>1. CASE v = c
    BY <2>1, <1>a, DistinctResults
       DEF HandleError, nativeVars, ResultInv, LoneResult
  <2>2. CASE v # c
    <3>1. worker[v] = "waiting" /\ Owed(v)
      BY <2>2, <1>a DEF HandleError, nativeVars, AnswerAccounted
    <3> QED
      BY <2>2, <3>1, <1>a DEF HandleError, nativeVars, Owed
  <2> QED
    BY <2>1, <2>2
<1>5. EntryLeftUnasked'
  BY DEF HandleError, nativeVars, EntryLeftUnasked
<1>6. BeginInv'
  BY <1>a DEF HandleError, nativeVars, BeginInv
<1>7. ResultInv'
  <2> SUFFICES ASSUME NEW v \in Call
               PROVE  LoneResult(v)'
    BY DEF ResultInv
  <2>1. CASE v = c
    BY <2>1, <1>a, DistinctResults
       DEF HandleError, nativeVars, LoneResult, ResultInv
  <2>2. CASE v # c
    <3>1. LoneResult(v)
      BY DEF ResultInv
    <3> QED
      BY <2>2, <3>1, <1>a DEF HandleError, nativeVars, LoneResult
  <2> QED
    BY <2>1, <2>2
<1>8. AnswerInv'
  BY DEF HandleError, nativeVars, AnswerInv
<1>9. ToldInv'
  BY DEF HandleError, nativeVars, ToldInv
<1> QED
  BY <1>1, <1>2, <1>3, <1>4, <1>5, <1>6, <1>7, <1>8, <1>9

LEMMA ResolveConflictsKeeps ==
  ASSUME TypeOK, ResolutionInv, NEW c \in Call, ResolveConflicts(c),
         UNCHANGED nativeVars
  PROVE  ResolutionInv'
<1> USE DEF TypeOK, ScriptTypeOK, Return, ResolutionInv
<1>1. OwnAnswer'
  BY DEF ResolveConflicts, nativeVars, OwnAnswer
<1>2. NullMeansNull'
  BY DEF ResolveConflicts, nativeVars, NullMeansNull
<1>3. PromiseTellsOutcome'
  BY DEF ResolveConflicts, nativeVars, PromiseTellsOutcome
<1>4. AnswerAccounted'
  <2> SUFFICES ASSUME NEW v \in Call, worker'[v] = "waiting"
               PROVE  Owed(v)'
    BY DEF AnswerAccounted
  <2>1. CASE v = c
    BY <2>1 DEF ResolveConflicts, nativeVars, BeginInv
  <2>2. CASE v # c
    <3>1. worker[v] = "waiting" /\ Owed(v)
      BY <2>2 DEF ResolveConflicts, nativeVars, AnswerAccounted
    <3> QED
      BY <2>2, <3>1 DEF ResolveConflicts, nativeVars, Owed
  <2> QED
    BY <2>1, <2>2
<1>5. EntryLeftUnasked'
  BY DEF ResolveConflicts, nativeVars, EntryLeftUnasked
<1>6. BeginInv'
  BY DEF ResolveConflicts, nativeVars, BeginInv
<1>7. ResultInv'
  <2> SUFFICES ASSUME NEW v \in Call
               PROVE  LoneResult(v)'
    BY DEF ResultInv
  <2>1. CASE v = c
    BY <2>1, DistinctResults
       DEF ResolveConflicts, nativeVars, LoneResult, ResultInv
  <2>2. CASE v # c
    <3>1. LoneResult(v)
      BY DEF ResultInv
    <3> QED
      BY <2>2, <3>1 DEF ResolveConflicts, nativeVars, LoneResult
  <2> QED
    BY <2>1, <2>2
<1>8. AnswerInv'
  BY DEF ResolveConflicts, nativeVars, AnswerInv
<1>9. ToldInv'
  BY DEF ResolveConflicts, nativeVars, ToldInv
<1> QED
  BY <1>1, <1>2, <1>3, <1>4, <1>5, <1>6, <1>7, <1>8, <1>9

LEMMA StoreMissingKeeps ==
  ASSUME TypeOK, ResolutionInv, NEW c \in Call, StoreMissing(c)
  PROVE  ResolutionInv'
<1>a. results[c] = <<>>
  BY DistinctResults
     DEF StoreMissing, ResolutionInv, BeginInv, ResultInv, LoneResult,
     ToldInv
<1>b. \E e \in {"unchanged", "changed", "failed"} :
        /\ effect' = [effect EXCEPT ![c] = e]
        /\ results' = [results EXCEPT ![c] = IF e = "failed" THEN <<"error">>
                                            ELSE <<"ok">>]
        /\ worker' = [worker EXCEPT ![c] = "ended"]
  BY <1>a, SentAlone DEF StoreMissing, End
<1> USE DEF TypeOK, ScriptTypeOK, Return, ResolutionInv
<1>1. OwnAnswer'
  BY DEF StoreMissing, OwnAnswer
<1>2. NullMeansNull'
  BY DEF StoreMissing, NullMeansNull
<1>3. PromiseTellsOutcome'
  BY <1>b DEF StoreMissing, PromiseTellsOutcome, BeginInv, ResultInv, LoneResult
<1>4. AnswerAccounted'
  <2> SUFFICES ASSUME NEW v \in Call, worker'[v] = "waiting"
               PROVE  Owed(v)'
    BY DEF AnswerAccounted
  <2>1. CASE v = c
    BY <2>1, <1>a, <1>b, DistinctResults DEF StoreMissing
  <2>2. CASE v # c
    <3>1. worker[v] = "waiting" /\ Owed(v)
      BY <2>2, <1>a, <1>b DEF StoreMissing, AnswerAccounted
    <3> QED
      BY <2>2, <3>1, <1>a, <1>b DEF StoreMissing, Owed
  <2> QED
    BY <2>1, <2>2
<1>5. EntryLeftUnasked'
  BY <1>b DEF StoreMissing, EntryLeftUnasked, BeginInv
<1>6. BeginInv'
  BY <1>b DEF StoreMissing, BeginInv
<1>7. ResultInv'
  <2> SUFFICES ASSUME NEW v \in Call
               PROVE  LoneResult(v)'
    BY DEF ResultInv
  <2>1. CASE v = c
    BY <2>1, <1>a, <1>b, DistinctResults DEF StoreMissing, LoneResult, ResultInv
  <2>2. CASE v # c
    <3>1. LoneResult(v)
      BY DEF ResultInv
    <3> QED
      BY <2>2, <3>1, <1>a, <1>b DEF StoreMissing, LoneResult
  <2> QED
    BY <2>1, <2>2
<1>8. AnswerInv'
  BY <1>b DEF StoreMissing, AnswerInv, BeginInv
<1>9. ToldInv'
  BY <1>b DEF StoreMissing, ToldInv
<1> QED
  BY <1>1, <1>2, <1>3, <1>4, <1>5, <1>6, <1>7, <1>8, <1>9

LEMMA RegisterKeeps ==
  ASSUME TypeOK, ResolutionInv, NEW c \in Call, Register(c)
  PROVE  ResolutionInv'
<1> USE DEF TypeOK, ScriptTypeOK, Return, ResolutionInv
<1>1. OwnAnswer'
  BY DEF Register, OwnAnswer
<1>2. NullMeansNull'
  BY DEF Register, NullMeansNull
<1>3. PromiseTellsOutcome'
  BY DEF Register, PromiseTellsOutcome
<1>4. AnswerAccounted'
  <2> SUFFICES ASSUME NEW v \in Call, worker'[v] = "waiting"
               PROVE  Owed(v)'
    BY DEF AnswerAccounted
  <2>1. CASE v = c
    BY <2>1 DEF Register
  <2>2. CASE v # c
    <3>1. worker[v] = "waiting" /\ Owed(v)
      BY <2>2 DEF Register, AnswerAccounted
    <3> QED
      BY <2>2, <3>1 DEF Register, Owed
  <2> QED
    BY <2>1, <2>2
<1>5. EntryLeftUnasked'
  BY DEF Register, EntryLeftUnasked
<1>6. BeginInv'
  BY DEF Register, BeginInv
<1>7. ResultInv'
  <2> SUFFICES ASSUME NEW v \in Call
               PROVE  LoneResult(v)'
    BY DEF ResultInv
  <2>1. CASE v = c
    BY <2>1, DistinctResults DEF Register, LoneResult, ResultInv,
       BeginInv
  <2>2. CASE v # c
    <3>1. LoneResult(v)
      BY DEF ResultInv
    <3> QED
      BY <2>2, <3>1 DEF Register, LoneResult
  <2> QED
    BY <2>1, <2>2
<1>8. AnswerInv'
  <2>1. \A m \in returns \cup tasks : m.resolver # c
    BY DEF Register, AnswerInv, BeginInv
  <2>2. \A m \in returns \cup tasks : worker'[m.resolver] = "waiting"
    BY <2>1 DEF Register, AnswerInv
  <2> QED
    BY <2>1, <2>2 DEF Register, AnswerInv
<1>9. ToldInv'
  BY DEF Register, ToldInv, BeginInv
<1> QED
  BY <1>1, <1>2, <1>3, <1>4, <1>5, <1>6, <1>7, <1>8, <1>9

LEMMA NotAskedKeeps ==
  ASSUME TypeOK, ResolutionInv, NEW c \in Call, NotAsked(c)
  PROVE  ResolutionInv'
<1>a. results[c] = <<>>
  BY DistinctResults
     DEF NotAsked, ResolutionInv, BeginInv, ResultInv, LoneResult,
     ToldInv
<1>b. \E e \in {"unchanged", "changed", "failed"} :
        /\ effect' = [effect EXCEPT ![c] = e]
        /\ results' = [results EXCEPT ![c] = IF e = "failed" THEN <<"error">>
                                            ELSE <<"ok">>]
        /\ worker' = [worker EXCEPT ![c] = "ended"]
  BY <1>a, SentAlone DEF NotAsked, End
<1> USE DEF TypeOK, ScriptTypeOK, Return, ResolutionInv
<1>1. OwnAnswer'
  BY DEF NotAsked, OwnAnswer
<1>2. NullMeansNull'
  BY DEF NotAsked, NullMeansNull
<1>3. PromiseTellsOutcome'
  BY <1>b DEF NotAsked, PromiseTellsOutcome, ResultInv, LoneResult
<1>4. AnswerAccounted'
  <2> SUFFICES ASSUME NEW v \in Call, worker'[v] = "waiting"
               PROVE  Owed(v)'
    BY DEF AnswerAccounted
  <2>1. CASE v = c
    BY <2>1, <1>a, <1>b, DistinctResults DEF NotAsked
  <2>2. CASE v # c
    <3>1. worker[v] = "waiting" /\ Owed(v)
      BY <2>2, <1>a, <1>b DEF NotAsked, AnswerAccounted
    <3> QED
      BY <2>2, <3>1, <1>a, <1>b DEF NotAsked, Owed
  <2> QED
    BY <2>1, <2>2
<1>5. EntryLeftUnasked'
  BY <1>b DEF NotAsked, EntryLeftUnasked, BeginInv
<1>6. BeginInv'
  BY <1>b DEF NotAsked, BeginInv
<1>7. ResultInv'
  <2> SUFFICES ASSUME NEW v \in Call
               PROVE  LoneResult(v)'
    BY DEF ResultInv
  <2>1. CASE v = c
    BY <2>1, <1>a, <1>b, DistinctResults DEF NotAsked, LoneResult, ResultInv
  <2>2. CASE v # c
    <3>1. LoneResult(v)
      BY DEF ResultInv
    <3> QED
      BY <2>2, <3>1, <1>a, <1>b DEF NotAsked, LoneResult
  <2> QED
    BY <2>1, <2>2
<1>8. AnswerInv'
  BY <1>b DEF NotAsked, AnswerInv
<1>9. ToldInv'
  BY <1>b DEF NotAsked, ToldInv
<1> QED
  BY <1>1, <1>2, <1>3, <1>4, <1>5, <1>6, <1>7, <1>8, <1>9

LEMMA ConflictsUnreadableKeeps ==
  ASSUME TypeOK, ResolutionInv, NEW c \in Call, ConflictsUnreadable(c)
  PROVE  ResolutionInv'
<1> USE DEF TypeOK, ScriptTypeOK, Return, ResolutionInv
<1>1. OwnAnswer'
  BY DEF ConflictsUnreadable, scriptVars, OwnAnswer
<1>2. NullMeansNull'
  BY DEF ConflictsUnreadable, scriptVars, NullMeansNull, BeginInv
<1>3. PromiseTellsOutcome'
  BY DEF ConflictsUnreadable, scriptVars, PromiseTellsOutcome
<1>4. AnswerAccounted'
  <2> SUFFICES ASSUME NEW v \in Call, worker'[v] = "waiting"
               PROVE  Owed(v)'
    BY DEF AnswerAccounted
  <2>1. v # c
    <3>1. worker'[c] = "decided"
      BY DEF ConflictsUnreadable
    <3> QED
      BY <3>1
  <2>2. CASE v # c
    <3>1. worker[v] = "waiting" /\ Owed(v)
      BY <2>2 DEF ConflictsUnreadable, scriptVars, AnswerAccounted
    <3> QED
      BY <2>2, <3>1 DEF ConflictsUnreadable, scriptVars, Owed
  <2> QED
    BY <2>1, <2>2
<1>5. EntryLeftUnasked'
  BY DEF ConflictsUnreadable, scriptVars, EntryLeftUnasked
<1>6. BeginInv'
  BY DEF ConflictsUnreadable, scriptVars, BeginInv
<1>7. ResultInv'
  <2> SUFFICES ASSUME NEW v \in Call
               PROVE  LoneResult(v)'
    BY DEF ResultInv
  <2>1. CASE v = c
    <3>1. results[c] = <<>>
      BY DEF ConflictsUnreadable, BeginInv
    <3>2. LoneResult(c)
      BY DEF ResultInv
    <3> QED
      BY <2>1, <3>1, <3>2, DistinctResults
         DEF ConflictsUnreadable, scriptVars, LoneResult
  <2>2. CASE v # c
    <3>1. LoneResult(v)
      BY DEF ResultInv
    <3> QED
      BY <2>2, <3>1 DEF ConflictsUnreadable, scriptVars, LoneResult
  <2> QED
    BY <2>1, <2>2
<1>8. AnswerInv'
  BY DEF ConflictsUnreadable, scriptVars, AnswerInv
<1>9. ToldInv'
  BY DEF ConflictsUnreadable, scriptVars, ToldInv, BeginInv
<1> QED
  BY <1>1, <1>2, <1>3, <1>4, <1>5, <1>6, <1>7, <1>8, <1>9

LEMMA SendConflictsKeeps ==
  ASSUME TypeOK, ResolutionInv, NEW c \in Call, SendConflicts(c)
  PROVE  ResolutionInv'
<1>a. /\ results[c] = <<>>
      /\ results' = [results EXCEPT ![c] = <<"conflicts">>]
  <2>1. results[c] = <<>> /\ Send(c, "conflicts")
    BY DEF SendConflicts, ResolutionInv, BeginInv
  <2> QED
    BY <2>1, SentAlone
<1> USE DEF TypeOK, ScriptTypeOK, Return, ResolutionInv
<1>1. OwnAnswer'
  BY DEF SendConflicts, OwnAnswer
<1>2. NullMeansNull'
  BY DEF SendConflicts, NullMeansNull
<1>3. PromiseTellsOutcome'
  BY DEF SendConflicts, PromiseTellsOutcome
<1>4. AnswerAccounted'
  <2> SUFFICES ASSUME NEW v \in Call, worker'[v] = "waiting"
               PROVE  Owed(v)'
    BY DEF AnswerAccounted
  <2>1. CASE v = c
    BY <2>1, <1>a, DistinctResults
       DEF SendConflicts, Owed, ResultInv, LoneResult
  <2>2. CASE v # c
    <3>1. worker[v] = "waiting" /\ Owed(v)
      BY <2>2, <1>a DEF SendConflicts, AnswerAccounted
    <3> QED
      BY <2>2, <3>1, <1>a DEF SendConflicts, Owed
  <2> QED
    BY <2>1, <2>2
<1>5. EntryLeftUnasked'
  BY DEF SendConflicts, EntryLeftUnasked
<1>6. BeginInv'
  BY <1>a DEF SendConflicts, BeginInv
<1>7. ResultInv'
  <2> SUFFICES ASSUME NEW v \in Call
               PROVE  LoneResult(v)'
    BY DEF ResultInv
  <2>1. CASE v = c
    BY <2>1, <1>a, DistinctResults DEF SendConflicts, LoneResult, ResultInv,
       BeginInv
  <2>2. CASE v # c
    <3>1. LoneResult(v)
      BY DEF ResultInv
    <3> QED
      BY <2>2, <3>1, <1>a DEF SendConflicts, LoneResult
  <2> QED
    BY <2>1, <2>2
<1>8. AnswerInv'
  BY DEF SendConflicts, AnswerInv
<1>9. ToldInv'
  BY DEF SendConflicts, ToldInv
<1> QED
  BY <1>1, <1>2, <1>3, <1>4, <1>5, <1>6, <1>7, <1>8, <1>9

LEMMA WakeKeeps ==
  ASSUME TypeOK, ResolutionInv, NEW c \in Call, Wake(c)
  PROVE  ResolutionInv'
<1> USE DEF TypeOK, ScriptTypeOK, Return, ResolutionInv
<1>1. OwnAnswer'
  BY DEF Wake, scriptVars, OwnAnswer, ToldInv
<1>2. NullMeansNull'
  BY DEF Wake, scriptVars, NullMeansNull, ToldInv
<1>3. PromiseTellsOutcome'
  BY DEF Wake, scriptVars, PromiseTellsOutcome
<1>4. AnswerAccounted'
  <2> SUFFICES ASSUME NEW v \in Call, worker'[v] = "waiting"
               PROVE  Owed(v)'
    BY DEF AnswerAccounted
  <2>1. CASE v = c
    BY <2>1 DEF Wake
  <2>2. CASE v # c
    <3>1. worker[v] = "waiting" /\ Owed(v)
      BY <2>2 DEF Wake, scriptVars, AnswerAccounted
    <3> QED
      BY <2>2, <3>1 DEF Wake, scriptVars, Owed
  <2> QED
    BY <2>1, <2>2
<1>5. EntryLeftUnasked'
  BY DEF Wake, scriptVars, EntryLeftUnasked
<1>6. BeginInv'
  BY DEF Wake, scriptVars, BeginInv
<1>7. ResultInv'
  <2> SUFFICES ASSUME NEW v \in Call
               PROVE  LoneResult(v)'
    BY DEF ResultInv
  <2>1. CASE v = c
    BY <2>1, DistinctResults DEF Wake, scriptVars, LoneResult, ResultInv,
       ToldInv
  <2>2. CASE v # c
    <3>1. LoneResult(v)
      BY DEF ResultInv
    <3> QED
      BY <2>2, <3>1 DEF Wake, scriptVars, LoneResult
  <2> QED
    BY <2>1, <2>2
<1>8. AnswerInv'
  BY DEF Wake, scriptVars, AnswerInv
<1>9. ToldInv'
  BY DEF Wake, scriptVars, ToldInv
<1> QED
  BY <1>1, <1>2, <1>3, <1>4, <1>5, <1>6, <1>7, <1>8, <1>9

LEMMA FinishKeeps ==
  ASSUME TypeOK, ResolutionInv, NEW c \in Call, Finish(c)
  PROVE  ResolutionInv'
<1>a. results[c] = <<>>
  BY DistinctResults DEF Finish, ResolutionInv, BeginInv, ResultInv, LoneResult,
     ToldInv
<1>b. \E e \in {"unchanged", "changed", "failed"} :
        /\ effect' = [effect EXCEPT ![c] = e]
        /\ results' = [results EXCEPT ![c] = IF e = "failed" THEN <<"error">>
                                            ELSE <<"ok">>]
        /\ worker' = [worker EXCEPT ![c] = "ended"]
  BY <1>a, SentAlone DEF Finish, End
<1> USE DEF TypeOK, ScriptTypeOK, Return, ResolutionInv
<1>1. OwnAnswer'
  BY DEF Finish, OwnAnswer
<1>2. NullMeansNull'
  BY DEF Finish, NullMeansNull
<1>3. PromiseTellsOutcome'
  BY <1>b DEF Finish, PromiseTellsOutcome, ResultInv, LoneResult
<1>4. AnswerAccounted'
  <2> SUFFICES ASSUME NEW v \in Call, worker'[v] = "waiting"
               PROVE  Owed(v)'
    BY DEF AnswerAccounted
  <2>1. CASE v = c
    BY <2>1, <1>a, <1>b, DistinctResults DEF Finish
  <2>2. CASE v # c
    <3>1. worker[v] = "waiting" /\ Owed(v)
      BY <2>2, <1>a, <1>b DEF Finish, AnswerAccounted
    <3> QED
      BY <2>2, <3>1, <1>a, <1>b DEF Finish, Owed
  <2> QED
    BY <2>1, <2>2
<1>5. EntryLeftUnasked'
  BY <1>b DEF Finish, EntryLeftUnasked, ToldInv
<1>6. BeginInv'
  BY <1>b DEF Finish, BeginInv
<1>7. ResultInv'
  <2> SUFFICES ASSUME NEW v \in Call
               PROVE  LoneResult(v)'
    BY DEF ResultInv
  <2>1. CASE v = c
    BY <2>1, <1>a, <1>b, DistinctResults DEF Finish, LoneResult, ResultInv
  <2>2. CASE v # c
    <3>1. LoneResult(v)
      BY DEF ResultInv
    <3> QED
      BY <2>2, <3>1, <1>a, <1>b DEF Finish, LoneResult
  <2> QED
    BY <2>1, <2>2
<1>8. AnswerInv'
  BY <1>b DEF Finish, AnswerInv
<1>9. ToldInv'
  BY <1>b DEF Finish, ToldInv
<1> QED
  BY <1>1, <1>2, <1>3, <1>4, <1>5, <1>6, <1>7, <1>8, <1>9

\* The message becomes a thread that has the wrapper to itself.
LEMMA TakeResolverKeeps ==
  ASSUME TypeOK, ResolutionInv, NEW m \in returns, TakeResolver(m)
  PROVE  ResolutionInv'
<1>a. /\ m.resolver \in Call /\ m.docRev \in Returned
      /\ m = [resolver |-> m.resolver, docRev |-> m.docRev]
  BY DEF TypeOK, ScriptTypeOK, Return
<1> USE DEF TypeOK, ScriptTypeOK, Return, ResolutionInv
<1>1. OwnAnswer'
  BY DEF TakeResolver, Returned, OwnAnswer
<1>2. NullMeansNull'
  BY DEF TakeResolver, Returned, NullMeansNull
<1>3. PromiseTellsOutcome'
  BY DEF TakeResolver, Returned, PromiseTellsOutcome
<1>4. AnswerAccounted'
  <2> SUFFICES ASSUME NEW v \in Call, worker'[v] = "waiting"
               PROVE  Owed(v)'
    BY DEF AnswerAccounted
  <2>1. worker[v] = "waiting" /\ Owed(v)
    BY DEF TakeResolver, Returned, AnswerAccounted
  <2>2. CASE v = m.resolver
    BY <2>1, <2>2, <1>a DEF TakeResolver, Returned, Owed, AnswerInv
  <2>3. CASE v # m.resolver
    BY <2>1, <2>3, <1>a DEF TakeResolver, Returned, Owed
  <2> QED
    BY <2>2, <2>3
<1>5. EntryLeftUnasked'
  BY DEF TakeResolver, Returned, EntryLeftUnasked
<1>6. BeginInv'
  BY DEF TakeResolver, Returned, BeginInv, AnswerInv
<1>7. ResultInv'
  BY <1>a DEF TakeResolver, Returned, ResultInv, LoneResult, AnswerInv
<1>8. AnswerInv'
  <2>1. /\ returns' \subseteq returns /\ tasks' = tasks \cup {m}
        /\ resolverMap' = resolverMap \ {m.resolver}
        /\ UNCHANGED <<answer, worker, complete>>
    BY DEF TakeResolver, AnswerInv
  <2>2. \A n \in returns' : n.resolver # m.resolver
    BY <1>a DEF TakeResolver, AnswerInv
  <2> QED
    BY <1>a, <2>1, <2>2 DEF AnswerInv
<1>9. ToldInv'
  BY DEF TakeResolver, Returned, ToldInv
<1> QED
  BY <1>1, <1>2, <1>3, <1>4, <1>5, <1>6, <1>7, <1>8, <1>9

LEMMA ConversionFailsKeeps ==
  ASSUME TypeOK, ResolutionInv, NEW t \in tasks, ConversionFails(t)
  PROVE  ResolutionInv'
<1>a. /\ t.resolver \in Call /\ t.docRev \in Returned
      /\ t = [resolver |-> t.resolver, docRev |-> t.docRev]
  BY DEF TypeOK, ScriptTypeOK, Return
<1> USE DEF TypeOK, ScriptTypeOK, Return, ResolutionInv
<1>1. OwnAnswer'
  BY DEF ConversionFails, scriptVars, Returned, OwnAnswer
<1>2. NullMeansNull'
  BY DEF ConversionFails, scriptVars, Returned, NullMeansNull
<1>3. PromiseTellsOutcome'
  BY DEF ConversionFails, scriptVars, Returned, PromiseTellsOutcome
<1>4. AnswerAccounted'
  <2> SUFFICES ASSUME NEW v \in Call, worker'[v] = "waiting"
               PROVE  Owed(v)'
    BY DEF AnswerAccounted
  <2>1. worker[v] = "waiting" /\ Owed(v)
    BY DEF ConversionFails, scriptVars, Returned, AnswerAccounted
  <2>2. CASE v = t.resolver
    BY <2>1, <2>2, <1>a
       DEF ConversionFails, scriptVars, Returned, Owed, AnswerInv
  <2>3. CASE v # t.resolver
    BY <2>1, <2>3, <1>a DEF ConversionFails, scriptVars, Returned, Owed
  <2> QED
    BY <2>2, <2>3
<1>5. EntryLeftUnasked'
  BY DEF ConversionFails, scriptVars, Returned, EntryLeftUnasked
<1>6. BeginInv'
  BY DEF ConversionFails, scriptVars, Returned, BeginInv
<1>7. ResultInv'
  BY DEF ConversionFails, scriptVars, Returned, ResultInv, LoneResult
<1>8. AnswerInv'
  BY DEF ConversionFails, scriptVars, Returned, AnswerInv
<1>9. ToldInv'
  BY DEF ConversionFails, scriptVars, Returned, ToldInv
<1> QED
  BY <1>1, <1>2, <1>3, <1>4, <1>5, <1>6, <1>7, <1>8, <1>9

\* The wrapper is told the answer the thread carries.
LEMMA SetRevisionKeeps ==
  ASSUME TypeOK, ResolutionInv, NEW t \in tasks, SetRevision(t)
  PROVE  ResolutionInv'
<1>a. /\ t.resolver \in Call /\ t.docRev \in Returned
      /\ t = [resolver |-> t.resolver, docRev |-> t.docRev]
  BY DEF TypeOK, ScriptTypeOK, Return
<1> USE DEF TypeOK, ScriptTypeOK, Return, ResolutionInv
<1>1. OwnAnswer'
  BY DEF SetRevision, scriptVars, Returned, OwnAnswer
<1>2. NullMeansNull'
  BY DEF SetRevision, scriptVars, Returned, NullMeansNull
<1>3. PromiseTellsOutcome'
  BY DEF SetRevision, scriptVars, Returned, PromiseTellsOutcome
<1>4. AnswerAccounted'
  <2> SUFFICES ASSUME NEW v \in Call, worker'[v] = "waiting"
               PROVE  Owed(v)'
    BY DEF AnswerAccounted
  <2>1. worker[v] = "waiting" /\ Owed(v)
    BY DEF SetRevision, scriptVars, Returned, AnswerAccounted
  <2>2. CASE v = t.resolver
    BY <2>1, <2>2, <1>a DEF SetRevision, scriptVars, Returned, Owed, AnswerInv
  <2>3. CASE v # t.resolver
    BY <2>1, <2>3, <1>a DEF SetRevision, scriptVars, Returned, Owed
  <2> QED
    BY <2>2, <2>3
<1>5. EntryLeftUnasked'
  BY DEF SetRevision, scriptVars, Returned, EntryLeftUnasked
<1>6. BeginInv'
  BY DEF SetRevision, scriptVars, Returned, BeginInv
<1>7. ResultInv'
  BY DEF SetRevision, scriptVars, Returned, ResultInv, LoneResult
<1>8. AnswerInv'
  BY <1>a DEF SetRevision, scriptVars, Returned, AnswerInv
<1>9. ToldInv'
  BY DEF SetRevision, scriptVars, Returned, ToldInv, AnswerInv
<1> QED
  BY <1>1, <1>2, <1>3, <1>4, <1>5, <1>6, <1>7, <1>8, <1>9

LEMMA InitResolution == Init => ResolutionInv
BY DistinctResults
   DEF Init, ScriptInit, ResolutionInv, OwnAnswer, NullMeansNull,
       PromiseTellsOutcome, AnswerAccounted, EntryLeftUnasked, BeginInv,
       ResultInv, LoneResult, AnswerInv, ToldInv

LEMMA StutterResolution ==
  ASSUME ResolutionInv, UNCHANGED vars
  PROVE  ResolutionInv'
BY DEF vars, scriptVars, nativeVars, ResolutionInv, OwnAnswer, NullMeansNull,
   PromiseTellsOutcome, AnswerAccounted, Owed, EntryLeftUnasked, BeginInv,
   ResultInv, LoneResult, AnswerInv, ToldInv

LEMMA NextResolution ==
  ASSUME TypeOK, ResolutionInv, [Next]_vars
  PROVE  ResolutionInv'
<1>1. ASSUME NEW c \in Call, ResolveConflicts(c) \/ Handle(c),
             UNCHANGED nativeVars
      PROVE  ResolutionInv'
  BY <1>1, ResolveConflictsKeeps, HandleConflictsKeeps, ResolverThrowsKeeps,
     HandleOkKeeps, HandleErrorKeeps DEF Handle
<1>2. ASSUME NEW c \in Call, WorkerStep(c)
      PROVE  ResolutionInv'
  BY <1>2, StoreMissingKeeps, RegisterKeeps, NotAskedKeeps,
     ConflictsUnreadableKeeps, SendConflictsKeeps, WakeKeeps, FinishKeeps
     DEF WorkerStep
<1>3. CASE ReturnStep
  BY <1>3, TakeResolverKeeps, ConversionFailsKeeps, SetRevisionKeeps
     DEF ReturnStep
<1> QED
  BY <1>1, <1>2, <1>3, StutterResolution DEF Next, ScriptStep

\* The inductive invariant: the one answer of each call is asked for, on its
\* way or in the wrapper, and nothing else ever decides the call.
THEOREM ResolutionCorrect == Spec => []ResolutionInv
<1>1. TypeOK /\ ResolutionInv /\ [Next]_vars => ResolutionInv'
  BY NextResolution
<1> QED
  BY TypeCorrect, InitResolution, <1>1, PTL DEF Spec, Safe

\* However many calls are under way, a revision that reaches the library is
\* the one the conflictResolver of that call returned.
THEOREM OwnAnswerCorrect == Spec => []OwnAnswer
BY ResolutionCorrect, PTL DEF ResolutionInv

\* Null never stands in for an answer that was given.
THEOREM NullMeansNullCorrect == Spec => []NullMeansNull
BY ResolutionCorrect, PTL DEF ResolutionInv

\* The promise resolves only after the document was dealt with, and rejects
\* only when that failed.
THEOREM PromiseTellsOutcomeCorrect == Spec => []PromiseTellsOutcome
BY ResolutionCorrect, PTL DEF ResolutionInv

\* A wrapper that waits is owed an answer that is somewhere on its way, or
\* JavaScript or the conversion has failed it.
THEOREM AnswerAccountedCorrect == Spec => []AnswerAccounted
BY ResolutionCorrect, PTL DEF ResolutionInv

\* resolverMap keeps no entry of a call that was asked and has ended.
THEOREM EntryLeftUnaskedCorrect == Spec => []EntryLeftUnasked
BY ResolutionCorrect, PTL DEF ResolutionInv

-----------------------------------------------------------------------------
(* Refinement *)

\* A call whose worker runs is pending, and its document has not been touched.
LEMMA StillPending ==
  ASSUME TypeOK, ResolutionInv, NEW c \in Call,
         c \in execs \/ worker[c] \in {"resolving", "waiting", "decided"}
  PROVE  promise[c] = "pending" /\ effect[c] = "none"
<1>1. worker[c] # "ended" /\ promise[c] # "none"
  BY DEF ResolutionInv, BeginInv
<1>2. effect[c] = "none"
  BY <1>1 DEF ResolutionInv, ResultInv, LoneResult
<1> QED
  BY <1>1, <1>2 DEF ResolutionInv, PromiseTellsOutcome, TypeOK, ScriptTypeOK

LEMMA InitRefines == Init => Resolution!Init
<1> SUFFICES ASSUME Init
             PROVE  Resolution!Init
  OBVIOUS
<1>1. \A c \in Call : AnswerOf(c) = "none"
  BY DEF Init, ScriptInit, AnswerOf
<1> QED
  BY <1>1 DEF Init, ScriptInit, Resolution!Init

LEMMA StutterRefines ==
  ASSUME UNCHANGED <<promise, answer, effect>>
  PROVE  UNCHANGED Resolution!vars
BY DEF Resolution!vars, AnswerOf

LEMMA ResolveConflictsRefines ==
  ASSUME TypeOK, NEW c \in Call, ResolveConflicts(c), UNCHANGED nativeVars
  PROVE  Resolution!Begin(c)
BY DEF ResolveConflicts, nativeVars, Resolution!Begin, AnswerOf

\* Whatever the conflictResolver does -- return, throw or be refused -- is the
\* application's one decision about the document.
LEMMA AskedRefines ==
  ASSUME TypeOK, ResolutionInv, NEW c \in Call,
         HandleConflicts(c) \/ ResolverThrows(c), UNCHANGED nativeVars
  PROVE  Resolution!Decide(c)
<1>1. /\ Consume(c) /\ Arrived(c, "conflicts")
      /\ \E d \in Returned \cup {"threw"} : answer' = [answer EXCEPT ![c] = d]
      /\ UNCHANGED <<promise, effect>>
  BY DEF HandleConflicts, ResolverThrows, nativeVars
<1>2. worker[c] = "waiting" /\ answer[c] = "none"
  <2>1. results[c] = <<"conflicts">>
    BY <1>1, ArrivedAlone DEF ResolutionInv
  <2> QED
    BY <2>1 DEF ResolutionInv, ResultInv, LoneResult
<1>3. promise[c] = "pending" /\ AnswerOf(c) = "none"
  BY <1>2, StillPending DEF AnswerOf
<1>4. /\ \A v \in Call \ {c} : AnswerOf(v)' = AnswerOf(v)
      /\ AnswerOf(c)' \in {"keep", "winner"}
  BY <1>1 DEF TypeOK, ScriptTypeOK, Returned, AnswerOf
<1> QED
  BY <1>1, <1>3, <1>4 DEF Resolution!Decide

LEMMA SettleRefines ==
  ASSUME TypeOK, ResolutionInv, NEW c \in Call, HandleOk(c) \/ HandleError(c),
         UNCHANGED nativeVars
  PROVE  Resolution!Settle(c) \/ UNCHANGED Resolution!vars
<1>1. /\ UNCHANGED <<answer, effect>>
      /\ \/ UNCHANGED promise
         \/ /\ promise[c] = "pending"
            /\ \E p \in {"resolved", "rejected"} :
                 promise' = [promise EXCEPT ![c] = p]
  <2>1. CASE HandleOk(c)
    BY <2>1 DEF HandleOk, nativeVars, TypeOK, ScriptTypeOK
  <2>2. CASE HandleError(c)
    BY <2>2 DEF HandleError, nativeVars, TypeOK, ScriptTypeOK
  <2> QED
    BY <2>1, <2>2
<1>2. effect[c] # "none"
  <2>1. /\ Consume(c) /\ (Arrived(c, "conflicts") => ~firstCall[c])
        /\ \E r \in {"ok", "conflicts", "error"} : Arrived(c, r)
    BY DEF HandleOk, HandleError, Arrived
  <2>2. results[c] \in {<<"ok">>, <<"error">>}
    BY <2>1, ArrivedAlone DEF ResolutionInv
  <2> QED
    BY <2>2 DEF ResolutionInv, ResultInv, LoneResult
<1>3. UNCHANGED AnswerOf(c) /\ \A v \in Call : AnswerOf(v)' = AnswerOf(v)
  BY <1>1 DEF AnswerOf
<1> QED
  BY <1>1, <1>2, <1>3, StutterRefines DEF Resolution!Settle

\* The document is dealt with while the caller waits, and it changes only by a
\* revision its conflictResolver returned.
LEMMA EndRefines ==
  ASSUME TypeOK, ResolutionInv, NEW c \in Call,
         StoreMissing(c) \/ NotAsked(c) \/ Finish(c)
  PROVE  Resolution!Apply(c)
<1>1. /\ UNCHANGED <<promise, answer>>
      /\ c \in execs \/ worker[c] \in {"resolving", "decided"}
  BY DEF StoreMissing, NotAsked, Finish
<1>2. promise[c] = "pending" /\ effect[c] = "none"
  BY <1>1, StillPending
<1>3. \/ effect' = [effect EXCEPT ![c] = "unchanged"]
      \/ effect' = [effect EXCEPT ![c] = "failed"]
      \/ /\ decision[c] # "null" /\ worker[c] = "decided"
         /\ effect' = [effect EXCEPT ![c] = "changed"]
  BY DEF StoreMissing, NotAsked, Finish, End
<1>4. decision[c] # "null" /\ worker[c] = "decided" => AnswerOf(c) = "winner"
  BY DEF TypeOK, ResolutionInv, ToldInv, OwnAnswer, AnswerOf
<1>5. \A v \in Call : AnswerOf(v)' = AnswerOf(v)
  BY <1>1 DEF AnswerOf
<1> QED
  BY <1>1, <1>2, <1>3, <1>4, <1>5 DEF Resolution!Apply

LEMMA NextRefines ==
  ASSUME TypeOK, ResolutionInv, [Next]_vars
  PROVE  [Resolution!Next]_(Resolution!vars)
<1>1. CASE UNCHANGED vars
  BY <1>1, StutterRefines DEF vars, scriptVars, nativeVars
<1>2. ASSUME NEW c \in Call, ResolveConflicts(c) \/ Handle(c),
             UNCHANGED nativeVars
      PROVE  [Resolution!Next]_(Resolution!vars)
  BY <1>2, ResolveConflictsRefines, AskedRefines, SettleRefines
     DEF Handle, Resolution!Next
<1>3. ASSUME NEW c \in Call, WorkerStep(c)
      PROVE  [Resolution!Next]_(Resolution!vars)
  <2>1. CASE StoreMissing(c) \/ NotAsked(c) \/ Finish(c)
    BY <2>1, EndRefines DEF Resolution!Next
  <2>2. CASE \/ Register(c) \/ ConflictsUnreadable(c) \/ SendConflicts(c)
             \/ Wake(c)
    BY <2>2, StutterRefines DEF Register, ConflictsUnreadable, SendConflicts,
       Wake, scriptVars
  <2> QED
    BY <1>3, <2>1, <2>2 DEF WorkerStep
<1>4. CASE ReturnStep
  BY <1>4, StutterRefines DEF ReturnStep, TakeResolver, ConversionFails,
     SetRevision, scriptVars
<1> QED
  BY <1>1, <1>2, <1>3, <1>4 DEF Next, ScriptStep

\* Conflict resolution on Android implements the safety of ConflictResolution.
THEOREM RefinesResolution == Spec => ImplementsResolution
<1>1. TypeOK /\ ResolutionInv /\ [Next]_vars
        => [Resolution!Next]_(Resolution!vars)
  BY NextRefines
<1> QED
  BY InitRefines, TypeCorrect, ResolutionCorrect, <1>1, PTL
     DEF Spec, Safe, ImplementsResolution, Resolution!Safe

=============================================================================
