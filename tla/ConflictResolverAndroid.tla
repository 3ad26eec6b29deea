----------------------- MODULE ConflictResolverAndroid -----------------------
(***************************************************************************)
(* Conflict resolution on Android (CloudantSyncPlugin.java): the actions   *)
(* resolveConflictsForDocument and returnResolvedDocument and the class    *)
(* ConflictResolverWrapper, composed with the JavaScript that answers.     *)
(*                                                                         *)
(* Each resolveConflictsForDocument holds a pool thread: it registers a    *)
(* wrapper under its callback id and calls the library, which calls the    *)
(* wrapper back.  The wrapper sends the conflicts to JavaScript and waits, *)
(* without a timeout, until returnResolvedDocument -- on another pool      *)
(* thread -- takes the wrapper out of the map, converts the JSON and sets  *)
(* the revision.                                                           *)
(***************************************************************************)
EXTENDS ConflictCalls

VARIABLES
  worker,       \* the pool thread of each resolveConflictsForDocument
  resolverMap,  \* keys of CloudantSyncPlugin.resolverMap
  complete,     \* conflictResolutionComplete of each wrapper
  revision,     \* documentRevision of each wrapper
  tasks,        \* returnResolvedDocument calls between the remove and its end
  decision,     \* what resolve() returned to the library
  effect        \* what the library made of the document

nativeVars ==
  <<worker, resolverMap, complete, revision, tasks, decision, effect>>
vars == <<scriptVars, nativeVars>>

TypeOK ==
  /\ ScriptTypeOK
  /\ worker \in [Call -> {"idle", "resolving", "waiting", "decided", "ended"}]
  /\ resolverMap \subseteq Call
  /\ complete \in [Call -> BOOLEAN]
  /\ revision \in [Call -> {"null", "known", "stranger"}]
  /\ tasks \subseteq Return
  /\ decision \in [Call -> {"none", "null", "known", "stranger"}]
  /\ effect \in [Call -> {"none", "unchanged", "changed", "failed"}]

Init ==
  /\ ScriptInit
  /\ worker = [c \in Call |-> "idle"]
  /\ resolverMap = {}
  /\ complete = [c \in Call |-> FALSE]
  /\ revision = [c \in Call |-> "null"]
  /\ tasks = {}
  /\ decision = [c \in Call |-> "none"]
  /\ effect = [c \in Call |-> "none"]

-----------------------------------------------------------------------------
(* resolveConflictsForDocument *)

\* The call ends: with the document as `e` says and result `r` sent.
End(c, e, r) ==
  /\ worker' = [worker EXCEPT ![c] = "ended"]
  /\ effect' = [effect EXCEPT ![c] = e]
  /\ Send(c, r)

\* getDocumentStore finds no open store of that name.
StoreMissing(c) ==
  /\ c \in execs
  /\ execs' = execs \ {c}
  /\ End(c, "failed", "error")
  /\ UNCHANGED <<promise, firstCall, answer, returns, resolverMap, complete,
                 revision, tasks, decision>>

Register(c) ==
  /\ c \in execs
  /\ execs' = execs \ {c}
  /\ worker' = [worker EXCEPT ![c] = "resolving"]
  /\ resolverMap' = resolverMap \cup {c}
  /\ UNCHANGED <<promise, firstCall, answer, results, returns, complete,
                 revision, tasks, decision, effect>>

\* The library finds no conflict to ask about, or throws.
NotAsked(c) ==
  /\ worker[c] = "resolving"
  /\ End(c, "unchanged", "ok") \/ End(c, "failed", "error")
  /\ UNCHANGED <<promise, firstCall, answer, execs, returns, resolverMap,
                 complete, revision, tasks, decision>>

\* resolve(): the conflicts cannot be put into JSON, which counts as null.
ConflictsUnreadable(c) ==
  /\ worker[c] = "resolving"
  /\ worker' = [worker EXCEPT ![c] = "decided"]
  /\ decision' = [decision EXCEPT ![c] = "null"]
  /\ UNCHANGED <<scriptVars, resolverMap, complete, revision, tasks, effect>>

\* resolve(): send the conflicts, keep the callback and wait.
SendConflicts(c) ==
  /\ worker[c] = "resolving"
  /\ worker' = [worker EXCEPT ![c] = "waiting"]
  /\ Send(c, "conflicts")
  /\ UNCHANGED <<promise, firstCall, answer, execs, returns, resolverMap,
                 complete, revision, tasks, decision, effect>>

\* resolve(): the wait loop ends once the flag is set.  Of a known revision
\* the body and the attachments go into the conflict of that revision, null
\* and a stranger go to the library as they are.
Wake(c) ==
  /\ worker[c] = "waiting"
  /\ complete[c]
  /\ worker' = [worker EXCEPT ![c] = "decided"]
  /\ decision' = [decision EXCEPT ![c] = revision[c]]
  /\ UNCHANGED <<scriptVars, resolverMap, complete, revision, tasks, effect>>

\* The library takes the decision: null leaves the document as it is; a
\* revision is made the winner, or refused with an exception.
Finish(c) ==
  /\ worker[c] = "decided"
  /\ \/ decision[c] = "null" /\ End(c, "unchanged", "ok")
     \/ decision[c] # "null" /\ End(c, "changed", "ok")
     \/ decision[c] # "null" /\ End(c, "failed", "error")
  /\ UNCHANGED <<promise, firstCall, answer, execs, returns, resolverMap,
                 complete, revision, tasks, decision>>

-----------------------------------------------------------------------------
(* returnResolvedDocument *)

\* Mutant: the wrapper is looked up and left in the map.
TakeResolverKept(m) ==
  /\ m \in returns
  /\ returns' = returns \ {m}
  /\ tasks' = tasks \cup {m}
  /\ UNCHANGED <<promise, firstCall, answer, execs, results, worker,
                 resolverMap, complete, revision, decision, effect>>

\* resolverMap.remove, before the JSON is looked at.  (Without a wrapper the
\* call ends in a NullPointerException, reported to its own callback.)
TakeResolver(m) ==
  /\ m \in returns
  /\ returns' = returns \ {m}
  /\ resolverMap' = resolverMap \ {m.resolver}
  /\ tasks' = IF m.resolver \in resolverMap THEN tasks \cup {m} ELSE tasks
  /\ UNCHANGED <<promise, firstCall, answer, execs, results, worker, complete,
                 revision, decision, effect>>

\* buildDocRevision throws: the wrapper is out of the map and never told.
ConversionFails(t) ==
  /\ t \in tasks
  /\ t.docRev = "broken"
  /\ tasks' = tasks \ {t}
  /\ UNCHANGED <<scriptVars, worker, resolverMap, complete, revision, decision,
                 effect>>

\* Mutant: the revision reaches every wrapper that waits.
SetRevisionOfAll(t) ==
  /\ t \in tasks
  /\ t.docRev # "broken"
  /\ tasks' = tasks \ {t}
  /\ revision' = [c \in Call |->
                    IF worker[c] = "waiting" THEN t.docRev ELSE revision[c]]
  /\ complete' = [c \in Call |-> complete[c] \/ worker[c] = "waiting"]
  /\ UNCHANGED <<scriptVars, worker, resolverMap, decision, effect>>

\* setRevision: the revision, the flag and the wake-up, in one monitor.
SetRevision(t) ==
  /\ t \in tasks
  /\ t.docRev # "broken"
  /\ tasks' = tasks \ {t}
  /\ revision' = [revision EXCEPT ![t.resolver] = t.docRev]
  /\ complete' = [complete EXCEPT ![t.resolver] = TRUE]
  /\ UNCHANGED <<scriptVars, worker, resolverMap, decision, effect>>

-----------------------------------------------------------------------------
WorkerStep(c) ==
  \/ StoreMissing(c) \/ Register(c)
  \/ NotAsked(c) \/ ConflictsUnreadable(c) \/ SendConflicts(c)
  \/ Wake(c) \/ Finish(c)

ReturnStep ==
  \/ \E m \in returns : TakeResolver(m)
  \/ \E t \in tasks : ConversionFails(t) \/ SetRevision(t)

Next ==
  \/ ScriptStep /\ UNCHANGED nativeVars
  \/ \E c \in Call : WorkerStep(c)
  \/ ReturnStep

Safe == Init /\ [][Next]_vars

\* The event loop and the pool threads run; the library returns.  Whether a
\* call is made, and what the conflictResolver does, is the application's.
Fairness ==
  /\ \A c \in Call : WF_vars(Handle(c) /\ UNCHANGED nativeVars)
  /\ \A c \in Call : WF_vars(WorkerStep(c))
  /\ \A c \in Call :
       WF_vars(\E m \in returns : m.resolver = c /\ TakeResolver(m))
  /\ \A c \in Call :
       WF_vars(\E t \in tasks : t.resolver = c
                                /\ (ConversionFails(t) \/ SetRevision(t)))

Spec == Safe /\ Fairness

-----------------------------------------------------------------------------
(* Properties *)

\* However many calls are under way, the revision that reaches the library in
\* one of them is the one its own conflictResolver returned, and nothing but
\* null is passed on before it did (ConflictResolverWrapper.resolve).
OwnAnswer ==
  \A c \in Call : decision[c] \notin {"none", "null"} => decision[c] = answer[c]

\* Null may reach the library for want of JSON; after an answer it does so
\* only if null was that answer.
NullMeansNull ==
  \A c \in Call : decision[c] = "null" => answer[c] \in {"none", "null"}

\* The promise tells the outcome and tells it late enough: it resolves only
\* when the document has been dealt with, rejects only when that failed --
\* although its callback also carries the conflicts (successHandler).
PromiseTellsOutcome ==
  \A c \in Call :
    /\ promise[c] = "resolved" => effect[c] \in {"unchanged", "changed"}
    /\ promise[c] = "rejected" => effect[c] = "failed"

\* The answer of c is owed by JavaScript, on its way, or there; or JavaScript
\* or the conversion has failed it for good.
Owed(c) ==
  \/ results[c] = <<"conflicts">>
  \/ \E m \in returns : m.resolver = c /\ c \in resolverMap
  \/ \E t \in tasks : t.resolver = c
  \/ complete[c]
  \/ answer[c] \in {"threw", "broken"}

\* No answer is mislaid: a wrapper that waits is owed one (resolve() and
\* returnResolvedDocument, which meet in resolverMap only).
AnswerAccounted == \A c \in Call : worker[c] = "waiting" => Owed(c)

\* An entry that outlives its call in resolverMap belongs to a call whose
\* conflictResolver was never asked (then it stays for good).
EntryLeftUnasked ==
  \A c \in resolverMap : worker[c] = "ended" => answer[c] = "none"

\* Every call ends, unless its conflictResolver threw, returned something
\* validateDocumentRevision or buildDocRevision refuses.
AnsweredCallSettles ==
  \A c \in Call : promise[c] = "pending" ~>
    Settled(c) \/ answer[c] \in {"threw", "broken"}

\* "A q style promise returning either an Array of the query results or an
\* Error" (resolveConflictsForDocument in www/datastoremanager.js): every
\* call settles, whatever the conflictResolver does.
EveryCallSettles == \A c \in Call : promise[c] = "pending" ~> Settled(c)

-----------------------------------------------------------------------------
(* The inductive invariant behind the properties.  It follows the one answer of
   each call: asked for in a result, in a message, in a pool thread, in the
   wrapper -- and in one of these places only. *)

\* A call the library has not asked about has left no trace but its entry.
BeginInv ==
  \A c \in Call :
    /\ promise[c] = "none" => c \notin execs /\ worker[c] = "idle"
    /\ c \in execs => worker[c] = "idle"
    /\ worker[c] = "idle" => c \notin resolverMap
    /\ worker[c] = "resolving" => c \in resolverMap
    /\ worker[c] \in {"idle", "resolving"} =>
         results[c] = <<>> /\ firstCall[c] /\ answer[c] = "none"

\* At most one result is on its way: the conflicts, or the end that was.
LoneResult(c) ==
  /\ results[c] \in {<<>>, <<"conflicts">>, <<"ok">>, <<"error">>}
  /\ results[c] = <<"conflicts">> =>
       /\ worker[c] = "waiting" /\ c \in resolverMap
       /\ firstCall[c] /\ answer[c] = "none"
  /\ results[c] = <<"ok">> => effect[c] \in {"unchanged", "changed"}
  /\ results[c] = <<"error">> => effect[c] = "failed"
  /\ effect[c] = "none" <=> worker[c] # "ended"

ResultInv == \A c \in Call : LoneResult(c)

\* An answer under way is the one that was given, to a call that waits for it.
AnswerInv ==
  /\ \A m \in returns \cup tasks :
       /\ answer[m.resolver] = m.docRev
       /\ worker[m.resolver] = "waiting"
       /\ ~complete[m.resolver]
  /\ \A m \in returns : m.resolver \in resolverMap
  /\ \A t \in tasks : t.resolver \notin resolverMap

\* A wrapper that was told was told the answer, and acts on nothing else.
ToldInv ==
  \A c \in Call :
    /\ complete[c] =>
         /\ answer[c] \in {"null", "known", "stranger"}
         /\ revision[c] = answer[c]
         /\ c \notin resolverMap
    /\ worker[c] \in {"idle", "resolving", "waiting"} => decision[c] = "none"
    /\ worker[c] = "decided" =>
         /\ decision[c] # "none"
         /\ c \in resolverMap => answer[c] = "none"

ResolutionInv ==
  /\ OwnAnswer /\ NullMeansNull /\ PromiseTellsOutcome
  /\ AnswerAccounted /\ EntryLeftUnasked
  /\ BeginInv /\ ResultInv /\ AnswerInv /\ ToldInv

-----------------------------------------------------------------------------
(* Refinement *)

\* The application's word on the document, as the abstract module has it.
AnswerOf(c) == CASE answer[c] = "none" -> "none"
                 [] answer[c] \in {"known", "stranger"} -> "winner"
                 [] OTHER -> "keep"

Resolution == INSTANCE ConflictResolution WITH
  answer <- [c \in Call |-> AnswerOf(c)]

\* Safety only: see EveryCallSettles for what Android does not keep.
ImplementsResolution == Resolution!Safe

=============================================================================
