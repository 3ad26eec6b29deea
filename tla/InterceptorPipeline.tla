------------------------- MODULE InterceptorPipeline -------------------------
(***************************************************************************)
(* The JavaScript half of HTTP interception: Replicator's `emit` and       *)
(* `promiseWrap` (www/replicator.js).  A native HTTP thread that reaches   *)
(* an interception point sends an event carrying a fresh UUID and blocks.  *)
(* `emit` runs the interceptors the application installed on the           *)
(* replicator one after another over one shared HttpInterceptorContext,    *)
(* under one timer, and answers with a call of the native action           *)
(* `unlockInterceptor`.                                                    *)
(*                                                                         *)
(* JavaScript is single-threaded, so each action is one run-to-completion  *)
(* turn of the event loop.  What an interceptor does to the context is     *)
(* abstracted to its index being appended to `edits`: the headers of a     *)
(* request, or the replay flag of a response, are "whatever interceptors   *)
(* edits[u] made of them, in that order".  The native halves               *)
(* (SyncPluginInterceptor for Android) extend this module.                 *)
(***************************************************************************)
EXTENDS Naturals, Sequences

CONSTANTS
  Uuid,         \* interceptions, named by the UUID each one draws
  Token,        \* replicators, named by their token
  Installed,    \* interceptors installed per replicator and kind of event
  SurplusDone   \* done() calls, beyond one per interceptor, in one event

\* The two interception events; their names are also the names of the
\* replicator's interceptor arrays.
Kind == {"request", "response"}

ASSUME InstalledAssumption == Installed \in [Token -> [Kind -> Nat]]
ASSUME SurplusDoneAssumption == SurplusDone \in Nat

VARIABLES
  origin,   \* replicator and kind of event each interception belongs to
  events,   \* interception events sent to JavaScript and not yet emitted
  stage,    \* index of the interceptor invoked last; 0 before the first
  edits,    \* the interceptors whose changes the shared context holds
  finished, \* the interceptors that have called done()
  surplus,  \* repeated done() calls so far
  promise,  \* the promise promises.reduce(Q.when, ...) returned
  settled,  \* whether the promise .timeout() put around it is settled
  unlocks,  \* unlockInterceptor calls on their way to the native side
  sent      \* history: the contexts sent for each interception

pipelineVars ==
  <<origin, events, stage, edits, finished, surplus, promise, settled,
    unlocks, sent>>

\* The context argument of unlockInterceptor.  requestOk and replayOk tell
\* whether its fields still have the type the native side asks for.
Context == [given: BOOLEAN, edits: Seq(Nat),
            requestOk: BOOLEAN, replayOk: BOOLEAN]
NoContext == [given |-> FALSE, edits |-> <<>>,
              requestOk |-> FALSE, replayOk |-> FALSE]

\* A call of the native action unlockInterceptor.
Unlock == [uuid: Uuid, token: Token, context: Context]

\* The context after interceptors 1..n have run, each once and in order.
Chain(n) == [i \in 1..n |-> i]

\* An answer to interception u has been sent.
Sent(u) == sent[u] # <<>>

\* How many interceptors an event of interception u meets.
Hooks(u) == Installed[origin[u].token][origin[u].kind]

Edited(u) == {edits[u][i] : i \in DOMAIN edits[u]}

\* Mutant: the uuid and the token of the answer are swapped.
AnswerSwapped(u, c) ==
  /\ unlocks' = unlocks \cup
       {[uuid |-> origin[u].token, token |-> u, context |-> c]}
  /\ sent' = [sent EXCEPT ![u] = Append(@, c)]

Answer(u, c) ==
  /\ unlocks' = unlocks \cup
       {[uuid |-> u, token |-> origin[u].token, context |-> c]}
  /\ sent' = [sent EXCEPT ![u] = Append(@, c)]

\* "empty" is a rejection with null or undefined, which interceptors may throw.
Promise == {"none", "pending", "resolved", "rejected", "empty"}

PipelineTypeOK ==
  /\ origin \in [Uuid -> [token: Token, kind: Kind]]
  /\ events \subseteq Uuid
  /\ stage \in [Uuid -> Nat]
  /\ edits \in [Uuid -> Seq(Nat)]
  /\ finished \in [Uuid -> SUBSET Nat]
  /\ surplus \in [Uuid -> 0..SurplusDone]
  /\ promise \in [Uuid -> Promise]
  /\ settled \in [Uuid -> BOOLEAN]
  /\ unlocks \subseteq Unlock
  /\ sent \in [Uuid -> Seq(Context)]

PipelineInit ==
  /\ origin \in [Uuid -> [token: Token, kind: Kind]]
  /\ events = {}
  /\ stage = [u \in Uuid |-> 0]
  /\ edits = [u \in Uuid |-> <<>>]
  /\ finished = [u \in Uuid |-> {}]
  /\ surplus = [u \in Uuid |-> 0]
  /\ promise = [u \in Uuid |-> "none"]
  /\ settled = [u \in Uuid |-> FALSE]
  /\ unlocks = {}
  /\ sent = [u \in Uuid |-> <<>>]

-----------------------------------------------------------------------------
\* emit with no interceptor installed: unlock at once, with no context.
EmitUnhooked(u) ==
  /\ u \in events
  /\ Hooks(u) = 0
  /\ events' = events \ {u}
  /\ settled' = [settled EXCEPT ![u] = TRUE]
  /\ Answer(u, NoContext)
  /\ UNCHANGED <<origin, stage, edits, finished, surplus, promise>>

\* Mutant: all interceptors are started at once.
EmitHookedParallel(u) ==
  /\ u \in events
  /\ Hooks(u) > 0
  /\ events' = events \ {u}
  /\ promise' = [promise EXCEPT ![u] = "pending"]
  /\ stage' = [stage EXCEPT ![u] = Hooks(u)]
  /\ UNCHANGED <<origin, edits, finished, surplus, settled, unlocks, sent>>

\* emit with interceptors: start the chain and the timer around it.  The
\* first interceptor runs in the next turn; nothing can observe the gap.
EmitHooked(u) ==
  /\ u \in events
  /\ Hooks(u) > 0
  /\ events' = events \ {u}
  /\ promise' = [promise EXCEPT ![u] = "pending"]
  /\ stage' = [stage EXCEPT ![u] = 1]
  /\ UNCHANGED <<origin, edits, finished, surplus, settled, unlocks, sent>>

\* Interceptor i changes the shared context.
Edit(u, i) ==
  /\ promise[u] \in {"pending", "resolved"}
  /\ i \in 1..stage[u]
  /\ i \notin Edited(u)
  /\ edits' = [edits EXCEPT ![u] = Append(@, i)]
  /\ UNCHANGED <<origin, events, stage, finished, surplus, promise, settled,
                 unlocks, sent>>

\* Mutant: the chain stops one interceptor early.
EndLatestEarly(u) ==
  IF stage[u] + 1 >= Hooks(u)
  THEN /\ promise' = [promise EXCEPT ![u] = "resolved"]
       /\ UNCHANGED stage
  ELSE /\ stage' = [stage EXCEPT ![u] = @ + 1]
       /\ UNCHANGED promise

\* The `done` property of the context is redefined for every interceptor, so
\* a call of it ends the interceptor invoked LAST, whoever makes the call.
EndLatest(u) ==
  IF stage[u] = Hooks(u)
  THEN /\ promise' = [promise EXCEPT ![u] = "resolved"]
       /\ UNCHANGED stage
  ELSE /\ stage' = [stage EXCEPT ![u] = @ + 1]
       /\ UNCHANGED promise

\* Interceptor i, its changes made, calls done().
Done(u, i) ==
  /\ promise[u] = "pending"
  /\ i \in Edited(u) \ finished[u]
  /\ finished' = [finished EXCEPT ![u] = @ \cup {i}]
  /\ EndLatest(u)
  /\ UNCHANGED <<origin, events, edits, surplus, settled, unlocks, sent>>

\* Interceptor i calls done() once more.
RepeatDone(u, i) ==
  /\ promise[u] = "pending"
  /\ i \in finished[u]
  /\ surplus[u] < SurplusDone
  /\ surplus' = [surplus EXCEPT ![u] = @ + 1]
  /\ EndLatest(u)
  /\ UNCHANGED <<origin, events, edits, finished, settled, unlocks, sent>>

\* The interceptor that is running throws, before or after its changes: an
\* error, or null or undefined.
Throw(u) ==
  /\ promise[u] = "pending"
  /\ \E p \in {"rejected", "empty"} : promise' = [promise EXCEPT ![u] = p]
  /\ UNCHANGED <<origin, events, stage, edits, finished, surplus, settled,
                 unlocks, sent>>

\* Mutant: a chain that completes answers even after the timer has.
SendContextTwice(u) ==
  /\ promise[u] = "resolved"
  /\ settled' = [settled EXCEPT ![u] = TRUE]
  /\ \E requestOk, replayOk \in BOOLEAN :
       Answer(u, [given |-> TRUE, edits |-> edits[u],
                  requestOk |-> requestOk, replayOk |-> replayOk])
  /\ UNCHANGED <<origin, events, stage, edits, finished, surplus, promise>>

\* The outcomes of the timed promise, whichever comes first.  The chain
\* itself goes on after a timeout; its result is then ignored.
\*
\* A context that cannot be written as JSON makes exec throw; the `.catch`
\* that follows answers without it.
SendContext(u) ==
  /\ promise[u] = "resolved"
  /\ ~settled[u]
  /\ settled' = [settled EXCEPT ![u] = TRUE]
  /\ \/ Answer(u, NoContext)
     \/ \E requestOk, replayOk \in BOOLEAN :
          Answer(u, [given |-> TRUE, edits |-> edits[u],
                     requestOk |-> requestOk, replayOk |-> replayOk])
  /\ UNCHANGED <<origin, events, stage, edits, finished, surplus, promise>>

\* Mutant: an error other than the timeout is logged and not answered.
SendFailureSilent(u) ==
  /\ promise[u] = "rejected"
  /\ ~settled[u]
  /\ settled' = [settled EXCEPT ![u] = TRUE]
  /\ UNCHANGED <<origin, events, stage, edits, finished, surplus, promise,
                 unlocks, sent>>

SendFailure(u) ==
  /\ promise[u] = "rejected"
  /\ ~settled[u]
  /\ settled' = [settled EXCEPT ![u] = TRUE]
  /\ Answer(u, NoContext)
  /\ UNCHANGED <<origin, events, stage, edits, finished, surplus, promise>>

\* There is no error to read a message from: logging it throws inside the
\* `.catch`, done() rethrows, and nothing is ever sent.
FailureUnreadable(u) ==
  /\ promise[u] = "empty"
  /\ ~settled[u]
  /\ settled' = [settled EXCEPT ![u] = TRUE]
  /\ UNCHANGED <<origin, events, stage, edits, finished, surplus, promise,
                 unlocks, sent>>

\* Mutant: the timer answers with the context as it is by then.
InterceptorTimeoutPartial(u) ==
  /\ promise[u] # "none"
  /\ ~settled[u]
  /\ settled' = [settled EXCEPT ![u] = TRUE]
  /\ Answer(u, [given |-> TRUE, edits |-> edits[u],
                requestOk |-> TRUE, replayOk |-> TRUE])
  /\ UNCHANGED <<origin, events, stage, edits, finished, surplus, promise>>

InterceptorTimeout(u) ==
  /\ promise[u] # "none"
  /\ ~settled[u]
  /\ settled' = [settled EXCEPT ![u] = TRUE]
  /\ Answer(u, NoContext)
  /\ UNCHANGED <<origin, events, stage, edits, finished, surplus, promise>>

PipelineStep(u) ==
  \/ EmitUnhooked(u)
  \/ EmitHooked(u)
  \/ \E i \in 1..Hooks(u) : Edit(u, i) \/ Done(u, i) \/ RepeatDone(u, i)
  \/ Throw(u)
  \/ SendContext(u)
  \/ SendFailure(u)
  \/ FailureUnreadable(u)
  \/ InterceptorTimeout(u)

\* The event loop delivers events, runs continuations and fires timers;
\* that an interceptor ever calls done() is up to the application.
PipelineFairness ==
  \A u \in Uuid :
    WF_pipelineVars(EmitUnhooked(u) \/ EmitHooked(u)
                    \/ SendContext(u) \/ SendFailure(u)
                    \/ FailureUnreadable(u) \/ InterceptorTimeout(u))

-----------------------------------------------------------------------------
(* What the pipeline keeps, whichever platform it answers.  Both are parts of
   the inductive invariants behind the properties of the platform modules. *)

\* The timed promise settles once, and its settling sends one answer, unless
\* the chain was rejected with nothing to read.
AnswerInv ==
  \A u \in Uuid :
    /\ Len(sent[u]) <= 1
    /\ Sent(u) => settled[u]
    /\ settled[u] /\ ~Sent(u) => promise[u] = "empty"

\* With one done() per interceptor the chain runs in order, and a context is
\* sent only when it is through.
Chained(u) ==
  /\ promise[u] = "none" => stage[u] = 0 /\ edits[u] = <<>> /\ finished[u] = {}
  /\ promise[u] # "none" =>
       /\ stage[u] \in 1..Hooks(u)
       /\ edits[u] \in {Chain(stage[u] - 1), Chain(stage[u])}
  /\ promise[u] \in {"pending", "rejected", "empty"} =>
       finished[u] = 1..(stage[u] - 1)
  /\ promise[u] = "resolved" =>
       /\ stage[u] = Hooks(u)
       /\ edits[u] = Chain(Hooks(u))
       /\ finished[u] = 1..stage[u]
  /\ Sent(u) /\ sent[u][1].given => sent[u][1].edits = Chain(Hooks(u))

ChainInv == \A u \in Uuid : Chained(u)

=============================================================================
