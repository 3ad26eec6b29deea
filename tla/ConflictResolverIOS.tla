------------------------- MODULE ConflictResolverIOS -------------------------
(***************************************************************************)
(* Conflict resolution on iOS (CDTSyncPlugin.m): resolveConflictsForDocument,*)
(* returnResolvedDocument and the class ConflictResolverWrapper, composed  *)
(* with the same JavaScript as on Android.  What differs: the wrapper waits *)
(* on a semaphore for at most five minutes, JSON that cannot be converted   *)
(* ends the process, and the error the library reports is not looked at.   *)
(***************************************************************************)
EXTENDS ConflictCalls, Naturals

VARIABLES
  worker,       \* the background block of each resolveConflictsForDocument
  resolverMap,  \* keys of CDTSyncPlugin.resolverMap
  semaphore,    \* count of each wrapper's semaphore
  revision,     \* documentRevision of each wrapper
  decision,     \* what resolve:conflicts: returned to the library
  effect,       \* what the library made of the document
  crashed       \* an exception nobody catches has ended the process

nativeVars == <<worker, resolverMap, semaphore, revision, decision, effect,
                crashed>>
vars == <<scriptVars, nativeVars>>

TypeOK ==
  /\ ScriptTypeOK
  /\ worker \in [Call -> {"idle", "resolving", "waiting", "decided", "ended"}]
  /\ resolverMap \subseteq Call
  /\ semaphore \in [Call -> {0, 1}]
  /\ revision \in [Call -> {"null", "known", "stranger"}]
  /\ decision \in [Call -> {"none", "null", "known", "stranger"}]
  /\ effect \in [Call -> {"none", "unchanged", "changed", "failed"}]
  /\ crashed \in BOOLEAN

Init ==
  /\ ScriptInit
  /\ worker = [c \in Call |-> "idle"]
  /\ resolverMap = {}
  /\ semaphore = [c \in Call |-> 0]
  /\ revision = [c \in Call |-> "null"]
  /\ decision = [c \in Call |-> "none"]
  /\ effect = [c \in Call |-> "none"]
  /\ crashed = FALSE

-----------------------------------------------------------------------------
(* resolveConflictsForDocument *)

\* Mutant: the block is left without a plugin result.
EndSilently(c, e, r) ==
  /\ worker' = [worker EXCEPT ![c] = "ended"]
  /\ effect' = [effect EXCEPT ![c] = e]
  /\ UNCHANGED results

End(c, e, r) ==
  /\ worker' = [worker EXCEPT ![c] = "ended"]
  /\ effect' = [effect EXCEPT ![c] = e]
  /\ Send(c, r)

StoreMissing(c) ==
  /\ c \in execs
  /\ execs' = execs \ {c}
  /\ End(c, "failed", "error")
  /\ UNCHANGED <<promise, firstCall, answer, returns, resolverMap, semaphore,
                 revision, decision, crashed>>

Register(c) ==
  /\ c \in execs
  /\ execs' = execs \ {c}
  /\ worker' = [worker EXCEPT ![c] = "resolving"]
  /\ resolverMap' = resolverMap \cup {c}
  /\ UNCHANGED <<promise, firstCall, answer, results, returns, semaphore,
                 revision, decision, effect, crashed>>

\* The library finds no conflict to ask about, or sets `error`: OK either way.
NotAsked(c) ==
  /\ worker[c] = "resolving"
  /\ \E e \in {"unchanged", "failed"} : End(c, e, "ok")
  /\ UNCHANGED <<promise, firstCall, answer, execs, returns, resolverMap,
                 semaphore, revision, decision, crashed>>

SendConflicts(c) ==
  /\ worker[c] = "resolving"
  /\ worker' = [worker EXCEPT ![c] = "waiting"]
  /\ Send(c, "conflicts")
  /\ UNCHANGED <<promise, firstCall, answer, execs, returns, resolverMap,
                 semaphore, revision, decision, effect, crashed>>

\* dispatch_semaphore_wait returns 0: take the revision, known or not.
Wake(c) ==
  /\ worker[c] = "waiting"
  /\ semaphore[c] > 0
  /\ worker' = [worker EXCEPT ![c] = "decided"]
  /\ semaphore' = [semaphore EXCEPT ![c] = @ - 1]
  /\ decision' = [decision EXCEPT ![c] = revision[c]]
  /\ UNCHANGED <<scriptVars, resolverMap, revision, effect, crashed>>

\* The five minutes are over: resolve:conflicts: returns nil.
WaitOver(c) ==
  /\ worker[c] = "waiting"
  /\ semaphore[c] = 0
  /\ worker' = [worker EXCEPT ![c] = "decided"]
  /\ decision' = [decision EXCEPT ![c] = "null"]
  /\ UNCHANGED <<scriptVars, resolverMap, semaphore, revision, effect, crashed>>

\* The library takes the decision; an error of its own is not looked at.
Finish(c) ==
  /\ worker[c] = "decided"
  /\ IF decision[c] = "null"
     THEN End(c, "unchanged", "ok")
     ELSE \E e \in {"changed", "failed"} : End(c, e, "ok")
  /\ UNCHANGED <<promise, firstCall, answer, execs, returns, resolverMap,
                 semaphore, revision, decision, crashed>>

-----------------------------------------------------------------------------
(* returnResolvedDocument *)

\* The answer passes validateDocumentRevision but not convertJSONToDocument: a
\* Boolean _deleted, or an array of attachments, raises an exception in the
\* block.  (Its NSError is for values that JSON does not have.)
ReturnRaises(m) ==
  /\ m \in returns
  /\ m.docRev = "broken"
  /\ crashed' = TRUE
  /\ UNCHANGED <<scriptVars, worker, resolverMap, semaphore, revision, decision,
                 effect>>

\* Mutant: the wrapper is told and stays in the map.
ReturnResolvedKept(m) ==
  /\ m \in returns
  /\ m.docRev # "broken"
  /\ returns' = returns \ {m}
  /\ revision' = [revision EXCEPT ![m.resolver] = m.docRev]
  /\ semaphore' = [semaphore EXCEPT ![m.resolver] = @ + 1]
  /\ UNCHANGED <<promise, firstCall, answer, execs, results, worker,
                 resolverMap, decision, effect, crashed>>

\* Mutant: the revision reaches every wrapper in the map.
ReturnResolvedShared(m) ==
  /\ m \in returns
  /\ m.docRev # "broken"
  /\ returns' = returns \ {m}
  /\ resolverMap' = resolverMap \ {m.resolver}
  /\ revision' = [c \in Call |->
                    IF c \in resolverMap THEN m.docRev ELSE revision[c]]
  /\ semaphore' = [c \in Call |->
                     IF c \in resolverMap THEN 1 ELSE semaphore[c]]
  /\ UNCHANGED <<promise, firstCall, answer, execs, results, worker, decision,
                 effect, crashed>>

\* Mutant: the conversion is left out.
ReturnResolvedUnconverted(m) ==
  /\ m \in returns
  /\ returns' = returns \ {m}
  /\ resolverMap' = resolverMap \ {m.resolver}
  /\ revision' = [revision EXCEPT ![m.resolver] = m.docRev]
  /\ semaphore' = [semaphore EXCEPT ![m.resolver] = 1]
  /\ UNCHANGED <<promise, firstCall, answer, execs, results, worker, decision,
                 effect, crashed>>

\* The wrapper is taken out of the map and told; no other call touches its
\* entry, and a worker that has timed out meanwhile never looks at it again.
ReturnResolved(m) ==
  /\ m \in returns
  /\ m.docRev # "broken"
  /\ returns' = returns \ {m}
  /\ resolverMap' = resolverMap \ {m.resolver}
  /\ revision' = IF m.resolver \in resolverMap
                 THEN [revision EXCEPT ![m.resolver] = m.docRev]
                 ELSE revision
  /\ semaphore' = IF m.resolver \in resolverMap
                  THEN [semaphore EXCEPT ![m.resolver] = @ + 1]
                  ELSE semaphore
  /\ UNCHANGED <<promise, firstCall, answer, execs, results, worker, decision,
                 effect, crashed>>

-----------------------------------------------------------------------------
WorkerStep(c) ==
  \/ StoreMissing(c) \/ Register(c)
  \/ NotAsked(c) \/ SendConflicts(c)
  \/ Wake(c) \/ WaitOver(c) \/ Finish(c)

ReturnStep == \E m \in returns : ReturnRaises(m) \/ ReturnResolved(m)

\* Nothing runs in a process that has crashed.
Next ==
  /\ ~crashed
  /\ \/ ScriptStep /\ UNCHANGED nativeVars
     \/ \E c \in Call : WorkerStep(c)
     \/ ReturnStep

Safe == Init /\ [][Next]_vars

\* While the process lives, the event loop and the background queue run, the
\* library returns, timers fire; what the conflictResolver does is the
\* application's.
Fairness ==
  /\ \A c \in Call : WF_vars(~crashed /\ Handle(c) /\ UNCHANGED nativeVars)
  /\ \A c \in Call : WF_vars(~crashed /\ WorkerStep(c))

Spec == Safe /\ Fairness

-----------------------------------------------------------------------------
(* Properties *)

\* The revision that reaches the library in a call is the one its own
\* conflictResolver returned, whatever other calls and timers do
\* (ConflictResolverWrapper, resolve:conflicts:).
OwnAnswer ==
  \A c \in Call : decision[c] \notin {"none", "null"} => decision[c] = answer[c]

\* The promise settles only after the document has been dealt with, although
\* its callback also carries the conflicts; it rejects only if that failed.
PromiseAfterDocument ==
  \A c \in Call :
    /\ promise[c] # "none" /\ effect[c] = "none" => promise[c] = "pending"
    /\ promise[c] = "rejected" => effect[c] = "failed"

\* An entry that outlives its call in resolverMap belongs to a call nobody
\* answered, or whose answer is still on its way (and was too late).
EntryLeftUnanswered ==
  \A c \in resolverMap : worker[c] = "ended" =>
    \/ answer[c] \in {"none", "threw"}
    \/ \E m \in returns : m.resolver = c

\* "Wait (for a maximum of 5 minutes)": every call settles, whether its
\* conflictResolver returns or throws and whichever of the answer and the timer
\* is first, unless the answer of some call ended the process.
EveryCallSettles == \A c \in Call :
  promise[c] = "pending" ~> promise[c] \in {"resolved", "rejected"} \/ crashed

\* "A q style promise returning either an Array of the query results or an
\* Error" (resolveConflictsForDocument in www/datastoremanager.js): a promise
\* does not resolve when the library reported an error.
ErrorReachesPromise ==
  \A c \in Call : promise[c] = "resolved" => effect[c] # "failed"

-----------------------------------------------------------------------------
(* The inductive invariant behind the safety properties *)

\* The conflicts are followed by the end of the call; a page that is slower than
\* the five minutes finds both waiting.
Queue == {<<>>, <<"conflicts">>, <<"conflicts", "ok">>, <<"ok">>, <<"error">>}

\* What the results on their way say of their call.
QueueFits(c) ==
  /\ results[c] \in Queue
  /\ results[c] \in {<<"conflicts">>, <<"conflicts", "ok">>}
       => firstCall[c] /\ answer[c] = "none"
  /\ results[c] = <<"conflicts">> => worker[c] \in {"waiting", "decided"}
  /\ results[c] \in {<<"conflicts", "ok">>, <<"ok">>, <<"error">>}
       => worker[c] = "ended" /\ promise[c] = "pending"
  /\ results[c] = <<"error">> => effect[c] = "failed"

\* How far the worker is, and what there is of its call by then.
WorkerFits(c) ==
  /\ promise[c] = "none" => c \notin execs /\ worker[c] = "idle"
  /\ c \in execs => worker[c] = "idle"
  /\ worker[c] = "idle" => c \notin resolverMap /\ semaphore[c] = 0
  /\ worker[c] \in {"idle", "resolving"}
       => results[c] = <<>> /\ firstCall[c] /\ answer[c] = "none"
  /\ worker[c] \in {"idle", "resolving", "waiting"} => decision[c] = "none"
  /\ worker[c] = "decided" => decision[c] # "none"
  /\ worker[c] = "ended" <=> effect[c] # "none"

\* The answer is on its way, or in the wrapper, as it was given; an entry in the
\* map is of a wrapper that has not been told.
AnswerInv ==
  /\ \A m \in returns : answer[m.resolver] = m.docRev
  /\ \A c \in Call : revision[c] # "null" => revision[c] = answer[c]
  /\ \A c \in resolverMap :
       /\ semaphore[c] = 0
       /\ \/ answer[c] \in {"none", "threw"}
          \/ \E m \in returns : m.resolver = c

ResolutionInv ==
  /\ TypeOK
  /\ \A c \in Call : QueueFits(c) /\ WorkerFits(c)
  /\ AnswerInv
  /\ OwnAnswer
  /\ PromiseAfterDocument

-----------------------------------------------------------------------------
(* Refinement *)

AnswerOf(c) == CASE answer[c] = "none" -> "none"
                 [] answer[c] \in {"known", "stranger"} -> "winner"
                 [] OTHER -> "keep"

Resolution == INSTANCE ConflictResolution WITH
  answer <- [c \in Call |-> AnswerOf(c)]

\* With the timer, liveness included as long as the process lives.
ImplementsResolution ==
  Resolution!Safe /\ (<>crashed \/ Resolution!Fairness)

ImplementsSafety == Resolution!Safe

=============================================================================
