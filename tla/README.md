# Cloudant Sync Cordova plugin: TLA+ specifications

These modules model the Cloudant Sync plugin for Apache Cordova: the JavaScript
API in `www/` and `libs/`, the Android plugin in `src/android/` and the iOS
plugin in `src/ios/`.  The plugin is a bridge.  The database and the replication
engine are libraries (sync-android, CDTDatastore) that are not in the
repository (`libs/ios` holds the headers of vendored frameworks, which declare the
library's interface and carry no logic of the plugin); what the plugin adds is the
traffic between one JavaScript event loop and many native threads, and that traffic
is what can go wrong.  The program proper is `www/`, `libs/utils.js`, `src/android/`
and `src/ios/`.

Contents: [the system](#1-the-system) · [modules](#2-modules) ·
[runs](#3-runs-bounds-and-what-they-show) · [fairness](#4-fairness) ·
[proofs](#5-proofs) · [findings](#6-findings) ·
[abstractions](#7-abstractions-and-what-is-not-modelled) · [plan](#8-plan)

## 1. The system

An application calls `www/datastoremanager.js` and `www/replicator.js`.  Every
operation is one `cordova.exec(success, error, 'CloudantSync', action, args)`,
wrapped in a Q promise.  Native code runs the action on a pool thread
(`CloudantSyncPlugin.execute`) or on a background queue (`CDTSyncPlugin`) and
sends plugin results back to the callback.  A callback that is kept alive
(`setKeepCallback`) carries more than one result.  Twice the direction turns
round, and native code waits for JavaScript: in HTTP interception and in
conflict resolution.  These two carry the plugin's own logic and come first.

| Component | State | Operations | What makes it hard |
|---|---|---|---|
| HTTP interception, JavaScript (`www/replicator.js`, `www/httpinterceptors.js`) | the shared context of an event, the promise chain of its interceptors, a timer | `emit`, `promiseWrap`, `done`, the timed promise, `unlockInterceptor` | a chain, its timer and exceptions race to answer; all interceptors share one mutable context and one `done` |
| HTTP interception, Android (`SyncPluginInterceptor.java`) | `contextMap`, `latchMap`, a `CountDownLatch` per interception | `interceptRequest`, `interceptResponse`, `updateContext`; `unlockInterceptor` and `destroyReplicator` of the plugin | HTTP thread and pool thread meet in two maps without a lock across them; 60 s native wait against a 290 s JavaScript timer |
| HTTP interception, iOS (`CDTSyncPluginInterceptor.m`) | the same with a semaphore, one lock for both maps | the same | the answer looks the semaphore up under the lock and signals after it |
| Conflict resolution, JavaScript (`www/datastoremanager.js`) | the deferred of the call, `firstCall` | `resolveConflictsForDocument`, `returnResolvedDocument` | one callback carries the conflicts and the end of the call |
| Conflict resolution, Android (`CloudantSyncPlugin.java`) | `resolverMap`, a `ConflictResolverWrapper` per call | `resolveConflictsForDocument`, `resolve`, `returnResolvedDocument`, `setRevision` | a pool thread waits without a timeout; another one takes the wrapper out of the map before it converts the answer |
| Conflict resolution, iOS (`CDTSyncPlugin.m`) | the same | the same | five-minute timeout against a late answer; the library's error is not looked at |
| Replicator tokens (`libs/utils.js`) | `lastTimestamp` | `generateToken` | several tokens in a millisecond, a clock that is set, a page that is loaded again while the native maps live on |
| Replicator life cycle, JavaScript (`www/replicator.js`) | the deferreds of the calls, `handlers`, `destroyed` | `create`, `start`, `getState`, `stop`, `destroy`, `on`, `emit` | the callback of the creation also carries every event of every replication; calls overlap |
| Replicator life cycle, Android (`CloudantSyncPlugin.java`, `SyncPluginListener.java`) | `replicators`, `interceptors` | create, start, status, stop, destroy; complete and error events | lookup and use are two steps, a destroy may come in between; a replication outlives its map entry |
| Replicator life cycle, iOS (`CDTSyncPlugin.m`, `CDTSyncPluginDelegate.m`) | `replicatorMap`, `delegateMap`, `interceptorMap`, the weak delegate | the same | several maps; some operations in the background, some on the main thread; the delegate lives only in a map |
| Datastore managers and open stores (`www/datastoremanager.js`, both plugins) | `documentStorePaths` and `documentStores`, `datastoreManagers` and `datastoreMap` | `DatastoreManager`, open, close, delete, and the lookup of a store before any use | ids taken from the size of a map; stores keyed by name alone; map and library updated in separate steps; Android deletes without regard to the manager, iOS opens without regard to it |
| Documents (`www/datastoremanager.js`, both plugins) | none of their own | create, fetch, update, delete, conflict ids | what the JavaScript validation lets through against what the native conversions accept |
| Indexes and queries | none (`queries` on Android is never filled) | ensure, delete, find | a lookup and one library call each |
| Install hooks, build files | none | packaging | nothing at run time |

What makes each of the modelled components correct:

* **HTTP interception.**  An HTTP thread that reaches an interception point is
  held and let go exactly once, and the request or response then goes on either
  untouched or with the changes of *all* installed interceptors, in order; never
  with a part of them.  No thread is held for ever.  The maps keep nothing longer
  than needed.  An answer that comes too late changes nothing.
* **Conflict resolution.**  A document changes only by a revision that this
  call's own `conflictResolver` returned; the promise settles once, after the
  document has been dealt with, and tells whether that succeeded.  However many
  calls are under way, no answer reaches the wrong one or gets lost.
* **Tokens.**  No two replicators of a page share a token.  What Android makes of a
  token, a 32-bit key of maps that outlive the page, leads to the replicator it was
  made for.
* **Replicator life cycle.**  Every promise settles.  After a destroy was reported
  nothing succeeds any more, and nothing is refused unless somebody destroyed.  What
  `getState` says agrees with what the application was told before.  Each
  replication is reported once, to the handlers that were there.
* **Datastores.**  A manager's calls stay in the manager's directory.  What was
  opened can be used until somebody closes or deletes it; what was deleted is gone
  until somebody opens it again; the map names the instance the library has open.

`PROJECT.json` lists, line by line, the hazards these properties are for, and
those no property covers yet.

## 2. Modules

```
 HttpInterception  <...implements...  SyncPluginInterceptor      (Android)
   (abstract)      <...implements...  SyncPluginInterceptorIOS   (iOS)
                                          both EXTEND
                                      InterceptorPipeline        (JavaScript)

 ConflictResolution <..implements...  ConflictResolverAndroid
   (abstract)       <..implements...  ConflictResolverIOS
                                          both EXTEND
                                      ConflictCalls              (JavaScript)

                    both instances of
 ReplicatorRegistry --------------->  ReplicatorRegistryAndroid
   (either platform)                  ReplicatorRegistryIOS
                                          all EXTEND
                                      ReplicatorCalls            (JavaScript)

                    both instances of
 StoreRegistry -------------------->  StoreRegistryAndroid
   (either platform)                  StoreRegistryIOS
                                          all EXTEND
                                      StoreMaps                  (maps, library)
                                          EXTENDS
                                      StoreCalls                 (JavaScript)

 ReplicatorKeys --- EXTENDS ------->  ReplicatorToken            (JavaScript)
   (Android's maps)
```

`MC<module>` instantiates a module for TLC and `<module>Proofs` holds its
theorems.  A component's JavaScript half is a module of its own and is composed
with each platform by EXTENDS; the platform module adds the native variables,
the native steps and the specification.  `ReplicatorRegistry` and `StoreRegistry`
choose the platform in the initial state (`platform`), so that a property of both is
stated, and checked, once.

**InterceptorPipeline** – one interception event in the page.  `origin` (which
replicator, request or response) is fixed when HTTP threads begin; `EmitUnhooked`
and `EmitHooked` are `emit` for an event with and without interceptors; `Edit`,
`Done`, `RepeatDone` and `Throw` are what an interceptor may do to the shared
context and to `done`; `EndLatest` is the continuation `promiseWrap` hangs on
`done`, which belongs to the interceptor invoked last; `SendContext`,
`SendFailure` and `InterceptorTimeout` are the three outcomes of the timed
promise, each answering with `unlockInterceptor`.  A context that is no JSON makes
`exec` throw in `then`, and the `catch` answers instead: `SendContext` may send no
context.  `catch` begins by reading the message of the error; after `throw null` or
`throw undefined` (`promise` is `"empty"`) that throws and nothing is answered:
`FailureUnreadable`.  A context is the sequence of the interceptors that changed it.

**SyncPluginInterceptor** – the Android side.  `Intercept` caches the latch and
the context, sends the event and begins to wait; `Released` and `WaitOver` end
the wait; `Resume` reads the context and takes it out of the map.
`unlockInterceptor` runs on a pool thread in the steps in which the code touches
shared state: `UnlockRefused`/`UnlockFound` (the lookup of the interceptor, then
`latchMap.remove`), `PutContext` and `CountDown`.  `DestroyReplicator` takes the
interceptor out of the plugin's map at any time.

**SyncPluginInterceptorIOS** – the same hand-over with a semaphore.
`UpdateContext` is everything under the lock; `Signal` and `SignalNull` are
`dispatch_semaphore_signal` after it, with a semaphore and with the null that an
empty map returns.  A signalled null ends the process: `crashed`.

**HttpInterception** – what an interception promises the replication library:
`Open`, then `Close` with the original or the complete context.

**ConflictCalls** – `successHandler` and `returnResolvedDocument`.  Results of
one callback arrive in the order they were sent; nothing orders those of
different calls.  `HandleConflicts` is the first call of `successHandler`,
`ResolverThrows` an exception of the application's function or of
`validateDocumentRevision` in it, `HandleOk`/`HandleError` the rest.

**ConflictResolverAndroid** – `Register` puts the wrapper into `resolverMap` and
calls the library; `NotAsked` is a library that finds no conflict or throws;
`SendConflicts`, `ConflictsUnreadable`, `Wake` and `Finish` are
`ConflictResolverWrapper.resolve` and what comes after it.
`returnResolvedDocument` is `TakeResolver` (the `remove`), then `SetRevision` or
`ConversionFails`, so that other threads run between the two.

**ConflictResolverIOS** – the same with the semaphore and the five-minute wait
(`WaitOver`).  `returnResolvedDocument:` converts first and then touches the map
(`ReturnResolved`); an answer the page lets through and the conversion cannot take
raises an exception in the block (`ReturnRaises`), which ends the process: `crashed`.

**ConflictResolution** – what a call promises its caller: `Begin`, at most one
`Decide`, one `Apply`, `Settle`.

**ReplicatorCalls** – one replicator as the page sees it.  `Create`, `Invoke` (a
call of any of the four methods) and `On` are the application's steps;
`HandleCreated` and `Emit` are the two sides of the constructor's `successHandler`,
`Settle` the handlers of the methods.  Histories say which calls had settled when a
call was made (`before`), which were made with both handlers registered (`ready`)
and what the handlers heard.

**ReplicatorRegistryAndroid** – the lookup (`GetReplicator`, `GetNull`) and the use
(`StartReplication`, `StopReplication`, `GetReplicationStatus`) of a replicator are
two steps of a pool thread; `DestroyReplicator` is one, the `remove` of a
synchronized map.  `ReplicationEnds` and the state changes in start and stop stand
for the library's `Replicator`; `Listener` is `SyncPluginListener`.

**ReplicatorRegistryIOS** – `FindReplicator`, then `SetDelegate` and
`StartWithError`, or `RemoveDelegate` and `RemoveReplicator`, are the background
blocks of start and destroy; `stop` and `getState` are one step of the main thread,
which `Reached` keeps in the order of the calls.  `TellDelegate` sends the event if
the replicator has been given its delegate and `delegateMap` still keeps it alive.

**ReplicatorToken** – `GenerateToken` with `CheckTimestamp`, a clock that may be
set, page loads.

**ReplicatorKeys** – what Android makes of the tokens.  `Key` is `getInt`, the low
32 bits.  createReplicator is `PutReplicator` and `PutInterceptor`,
destroyReplicator `RemoveReplicator` and `RemoveInterceptor`; the maps are static
and `ReloadSeen`, a page load, leaves them alone.  The entries tell whose they are.

**StoreCalls** – managers and datastores as the page sees them.  `NewManager` is the
constructor, which may be called again without waiting; `Invoke` is a call of
`openDatastore`, `deleteDatastore`, `close` or anything that uses a store ("use":
documents, indexes, queries, conflicts, the creation of a replicator).
`HandleManager` and `Settle` are the success and error handlers.

**StoreMaps** – what both platforms keep: `managers` (the directory of each id),
`stores` (the store under the name), the threads, and the library behind them
(`LibraryOpen`, `LibraryClose`, `LibraryDelete`: at most one open instance of a
directory's store, and its files).

**StoreRegistryAndroid** – setDocumentStorePath is `CountPaths` and `PutPath`;
openDocumentStore `GetInstance` and `PutStore`; closeDocumentStore `RemoveStore` and
`CloseStore`; deleteDocumentStore `GetDocumentStore`, `DeleteStore` or
`DeleteThrows`, and `RemoveDeleted`; a use is `GetDocumentStore` and `UseStore`.
Each is one access to a map or one call of the library: what other pool threads do
comes between them.

**StoreRegistryIOS** – createDatastoreManager: is `CountManagers` and `SetManager`;
openDatastore: `OpenCached`, or `OpenMissed`, `DatastoreNamed` and `SetDatastore`;
closeDatastore: nothing but an answer; deleteDatastore: `DeleteNamed` or
`DeleteFails`, and `RemoveDatastore`; a use is `FindStore` and `UseStore` or
`UseDeleted`.

Proof modules: **InterceptorPipelineProofs** holds what both platforms' proofs use of
the pipeline, and is extended by **SyncPluginInterceptorProofs** and
**SyncPluginInterceptorIOSProofs**; **ConflictResolverAndroidProofs**,
**ConflictResolverIOSProofs**, **ReplicatorKeysProofs** (which also proves what it
needs of ReplicatorToken), **ReplicatorRegistryProofs** and **StoreRegistryProofs**
belong to the modules they are named after.

Definitions whose comment begins with "Mutant" are deliberately wrong versions
of a step, each the way a bug in that code would look; they are used only to
show that the properties can be violated.

## 3. Runs, bounds and what they show

| Run | Instance | What it shows |
|---|---|---|
| `android_interception` | 2 HTTP threads, 1 replicator with 2 request interceptors and 1 response interceptor, both timers | All safety properties of the Android handshake, and `ImplementsInterception` with its liveness: every held thread is let go |
| `android_answers` | 2 threads, 2 replicators (one without request interceptors), no native timer, one repeated `done()` | The answer is single and is applied even if interceptors misuse `done`; without the native timer it still reaches every thread unless `destroyReplicator` came first or an interceptor threw `null` or `undefined` |
| `ios_interception` | 2 threads, 1 replicator as above | The iOS safety properties; a crash needs a native timeout; while the process lives every thread goes on, even if the native timer never fires, unless an interceptor threw `null` or `undefined` |
| `ios_late_answer` | 1 thread | *violation*: see finding 1 |
| `android_conflicts` | 3 concurrent calls | No crossed, lost or invented answer; promises tell the outcome; every call settles whose answer the plugin accepts |
| `android_conflicts_pending` | 1 call | *violation*: see finding 2 |
| `ios_conflicts` | 2 concurrent calls | The same on iOS, and every call settles, whatever the `conflictResolver` does, unless an answer ends the process |
| `ios_conflicts_error` | 1 call | *violation*: see finding 3 |
| `replicators` | either platform, creation and 3 calls of any methods | Destroy is final, refusals and states agree with what was reported before, every promise settles; on Android destroy is atomic and every replication is reported once; on iOS one start succeeds; handlers registered in time hear the outcome, on iOS as long as nobody calls destroy |
| `ios_stop_unheard` | 1 call | *violation*: see finding 4 |
| `tokens` | times 0..5, 3 replicators, 2 page loads, 4 keys | The tokens of a page increase wherever the clock is set; a key of the Android maps leads to its own replicator but for two kinds of clash |
| `stores` | either platform, 2 managers with 3 calls, one directory with files | Which manager's files a call can reach; what overlapping opens, closes, deletes and uses leave behind; every promise settles |

Why these bounds are enough to be interesting:

* Interactions are between an HTTP thread, its answer and the maps.  Two threads
  let entries, latches and answers of different interceptions cross; two
  interceptors give a chain a middle, in which a timeout or an exception finds
  the work half done; a chain of one covers responses; the replicator of
  `android_answers` without request interceptors covers the empty chain.
* Conflict resolutions meet in `resolverMap` only.  Two calls can cross; the third
  on Android lets one wait while two answers overtake each other.
* Three calls of a replicator are what the hazards need: two that overlap and one
  made after a result is known, or start, stop and a second start.  Replicators do
  not meet except in maps keyed by token, so one is enough.
* Each identity (`Uuid`, `Call`) is used once, as in the code, where it is a fresh
  UUID or a fresh callback id.  So all behaviours are finite and end: the runs set
  `CHECK_DEADLOCK FALSE`, and the liveness properties say that nothing ends too
  early.
* Tokens: three replicators let the counter of one page run ahead of the clock and
  another page's clock come back to it.  `KeySpace` is 4 for 2^32, so that with times
  0..5 two tokens can be one or more key spaces apart.
* Stores of different names meet nowhere, so there is one name.  Two managers are
  enough to share an id and to fight over the name; three calls are an open that was
  reported and two calls that overlap, or two overlapping calls and what is seen of
  them afterwards.  On Android a close or a delete that overlaps with one open can
  disturb the result of another only with a fourth call, which with two managers takes
  too long for a run kept beside the code; `tlc` on `MCStoreRegistry` with
  `Manager = {1}`, `Call = {1, 2, 3, 4}` and `Platforms = {"android"}` shows that case.
  `OnDisk` gives one directory the files of an earlier run.
  Managers and calls are numbered in the order in which they are asked for, which
  loses nothing: the order in which threads run is free.

The properties to read first:

* `AllOrNothing`, `AnswerApplied`, `SingleAnswer` – the answer of JavaScript is
  one, and it is applied whole or not at all, though `updateContext` writes two
  maps and a latch without a common lock.
* `MapsFollowThread`, `EntryLeftUnasked`,
  `EntryLeftUnanswered` – exactly which entries outlive their call (on Android
  `MapsFollowThread` is `ContextCached`, `LatchAccounted` and `LatchLeftByTimerOnly`
  together).  Android keeps
  a latch after a native timeout that no answer follows, and a wrapper of a call
  that was not asked; iOS keeps neither map entry, and a wrapper nobody answered.
* `LateAnswerIgnored` – an action property: nothing an HTTP thread has taken from
  its context changes once it has gone on.
* `SerialInterceptors` – no interceptor runs before the one in front of it is done.
  It assumes one `done()` per interceptor (`SurplusDone = 0`): because `done` is a
  property of the shared context that every interceptor redefines, a repeated
  `done()` ends the interceptor that was invoked last.
* `OwnAnswer`, `AnswerAccounted`, `PromiseTellsOutcome` – see section 5.
* `OutcomesAgree` – each part compares a call's outcome with what had been reported
  when it was made: whatever pool threads do, the page sees an order of the calls
  that makes sense.  Its part `StopIsSeen` holds on Android only; the iOS library may
  refuse a stop, which the plugin reports as done.
* `EveryRunReported`, `OutcomeIsHeard` – on Android a replication is reported even
  if its replicator was destroyed meanwhile; on iOS destroy drops the delegate, so
  there the outcome is promised only to an application that does not destroy.
* `KeysReachOwn` – whoever starts, stops or destroys a replicator reaches that one.
  The exceptions are exact: tokens a multiple of 2^32 ms (49 days) apart, and a page
  that was loaded while the clock was not past a token of an earlier page.
* `ManagersApart`, `StaysInPlace` – the exact conditions under which a manager's call
  lands in the directory of another.  They differ by platform: on Android an open is
  always in place and a delete may not be, on iOS it is the other way round.
* `StoresAgree` – each part names the overlap that excuses it.  `OpenedLives`: a
  reported open has left a live store under the name.  `RefusedOnlyEnded`: a store is
  refused only if it was closed or deleted.  `EndedStaysEnded`: a closed or deleted
  store does not come back.  `CloseOnce`, `NoOrphan` (Android): each close that
  succeeds has an open of its own, and no open instance is left that cannot be named.

Every type invariant is proved (that of ReplicatorKeys as part of another).  Those of
the Android handshake, of conflict resolution on Android and of the tokens are not
among the invariants of their runs; the others are.  Every property has a mutant of the
mapped code under which its run fails, and
`OutcomesAgree` and `StoresAgree` several.

## 4. Fairness

* The page's event loop delivers every event, result and expired timer:
  weak fairness of `EmitUnhooked`/`EmitHooked`/`SendContext`/`SendFailure`/
  `FailureUnreadable`/`InterceptorTimeout` and of `Handle`.  That an interceptor ever calls `done()`, or
  that an application makes a call, is *not* assumed.
* Pool threads, the background queue and HTTP threads that can run do run: weak
  fairness of the native steps, per interception or call.  On iOS all of this holds
  while the process lives.
* Android's 60-second wait ends (`CountDownLatch.await` with a timeout) and so does
  the five-minute wait on iOS: they are part of the fair thread steps.
  `android_answers` takes the 60-second timer away to show when an answer does not
  depend on it.  On iOS nothing at all is assumed of the 60-second timer.  Two things
  make a thread depend on it: a `destroyReplicator` on Android, and an interceptor that
  throws `null` or `undefined`.
* The library returns from what it was asked to do: `Finish`, `NotAsked`.
* Life cycle and stores: one weak fairness condition for all steps that are not the
  application's.  The calls are finitely many and each step uses something up, so
  nothing is starved.  A replication is one-shot and ends some time.
* `EveryPromiseSettles` is written `[]<>~Pending`: again and again nothing is
  pending.  The application may stop calling at any time and has finitely many calls,
  so this says the same as a leads-to for each promise.  The other liveness properties
  of the registries have the same form, for conditions that, once true with all calls
  made, stay true.

## 5. Proofs

TLAPS checks every proof for all values of the constants: any number of
interceptions, replicators, interceptors, calls, tokens.

**SyncPluginInterceptorProofs.**  `TypeCorrect` and `HandshakeCorrect` hold for
every use of `done()`; `ChainCorrect`, `AllOrNothingCorrect` and
`RefinesInterception` assume `SurplusDone = 0`.  None of the properties is
inductive alone: that a released thread finds the answer in its context depends on
where that answer was all the time before.  `HandshakeInv` therefore follows the
one answer of each interception: not sent (`AnswerInv`: at most one is, and only by
the settled promise; a promise that settled without an answer was rejected with
nothing), in a message (`MessageInv`: the latch is still in the map and closed, the
context original), held by a pool thread (`TaskInv`: the latch is out of the map
and that thread is alone with it), in the context (`LatchInv`, `WakeInv`: an open
latch stands for an answer that has been put).  `BeginInv` says that interceptions
which have not begun have left no trace.  `ChainInv` adds that the edits of the
shared context are the chain up to the running interceptor and that only a complete
context is sent; with it a partial change cannot reach the HTTP exchange, which is
also what the refinement needs: every step maps to `Open`, `Close` or a stutter.

`MapsFollowThreadCorrect` needs of `HandshakeInv` that an unheld latch is either in
the map or in the hands of the pool thread that is about to count it down, and of
`WakeInv` that a thread which has been woken knows by whom.
`SerialInterceptorsCorrect` follows from `ChainInv`.  `LateAnswerIgnoredCorrect` is an
action property: once the thread has returned its context is out of the cache, so
neither `PutContext` nor `CountDown` nor `Resume` can touch what it went on with.

The chain's part of the argument is about the page alone, so
`InterceptorPipelineProofs` proves it from `PipelineTypeOK` and `AnswerInv` for both
platforms.  `ScriptCases` sums up what a step of the page is to the native side: it
sends nothing, or it sends the one answer of an interception.

**SyncPluginInterceptorIOSProofs.**  `TypeCorrect`, `MapsFollowThreadCorrect`,
`CrashNeedsTimerCorrect`, `AnswerAppliedCorrect` and, with `SurplusDone = 0`,
`ChainCorrect` and `RefinesInterception` (the property `ImplementsInterception` that the
run checks, which is safety only).  The types are part of the induction (`IInv`): that a
semaphore is signalled once at most is a fact about the handshake.  `HandshakeInv` has
the places of Android's without the latch: in a message (`MessageInv`: context original,
semaphore down), in a block that has left the lock (`TaskInv`: a block that found the
semaphore has put the answer, and one that did not has come after a timeout, which is
`CrashNeedsTimer`), in the semaphore (`BeginInv`) or with its thread (`WakeInv`).

**ConflictResolverAndroidProofs.**  `ResolutionInv` has the same shape: the answer
of a call is owed in a result (`ResultInv`: at most one result is ever on its way),
carried by a message or by a pool thread (`AnswerInv`: it is the one that was given,
and the call still waits), or told to the wrapper (`ToldInv`).  From it follow
`OwnAnswer`, `NullMeansNull`, `PromiseTellsOutcome`, `AnswerAccounted`,
`EntryLeftUnasked` and the safety part of `ConflictResolution`.

**ConflictResolverIOSProofs.**  The five-minute wait lets a call end while its conflicts
are still on their way to the page, so a result is not owed alone: `QueueFits` allows
the conflicts and then the end of the call, in this order, and nothing else.
`WorkerFits` says that an entry of `resolverMap` is a wrapper nobody has told, with its
semaphore down, and that a call decides by what its wrapper was told;
`AnswerInv` that what is told is what was given.  From `ResolutionInv` follow `TypeOK`,
`OwnAnswer`, `PromiseAfterDocument`, `EntryLeftUnanswered` and the safety part of
`ConflictResolution` (`ImplementsSafety`).

**ReplicatorKeysProofs.**  `TokensIncrease` (the property `PageTokensIncrease`), from
`LastIsGreatest`, and `KeysCorrect`, for any clock, number of replicators, pages
and keys.  `KeysInv` says that an entry of a replicator that is put and not yet
destroyed is its own unless another replicator shares its key (`Owned`: only those of
one key write there), and `AgainFits` that every token which an earlier page has run
ahead of the clock with is counted as one that may be given out again; with
`PageTokensIncrease` this leaves only the two kinds of clash for a shared key.

**ReplicatorRegistryProofs.**  `TypeCorrect`, `OutcomesAgreeCorrect` and
`EventsAskedForCorrect`, for both platforms and any number of calls, from
`RegistryInv` (stated in ReplicatorRegistry).  `OutcomesAgree` speaks of promises that
have settled; the invariant speaks of the calls that have *succeeded* or *failed* in
native code, answered or not.  `DestroyFits`: a destroy that was done has emptied the
map, so nobody who comes later holds the replicator, and on Android the one `remove`
that finds the entry is the only one.  `FailureFits`: who fails has found the map empty
behind a destroy, or is a second start on iOS.  `StateFits`: a start or stop that was
done has left the state no later call reads as `Pending`.  `EventsInv` counts events
wherever they are -- in a message, heard, or not asked for -- together with the
replication that still owes one: on Android there are as many as replications were
begun, one for each start and one for a stop before any start; on iOS there is one at
most.

**StoreRegistryProofs.**  `ManagersApartCorrect`, `TypeCorrect`,
`StaysInPlaceCorrect` and `StoresAgreeCorrect`, for both platforms and any number
of managers and calls.  `ManagersInv`: the ids in the map are 0..Size-1 (`IdsFilled`;
nothing is ever removed), and whatever id a manager has counted, is being sent or was
given is greater than those of all managers that existed when it was asked for
(`BeyondEarlier`).  Two managers with one id must therefore have been created
together.  `PathsInv`: the directory under an id is that of a manager with the id, or
of one created together with it.  `PlaceInv` adds the stores: what is open under the
name was put there by some open of that directory, and on Android that open is not
older than any that is over (`LastOpened`); a call that holds a store, or has reached a
directory, got it from its own path or from such an open that it could not know to be
out of date.  `CallFits` places each call in the page, in its thread, on its way back
or at its end.

`StoresAgree` speaks of calls that were answered and, on Android, of a quiet moment; its
invariant `StoresInv` (in StoreRegistry, next to `RegistryInv`) of calls wherever they
are.  `LiveInv`: what an open left in the map is still open unless some end was not over
when that open was made, or overlapped with an open that could come after it
(`Undisturbed`); the end that is itself about to ask the map is left out as long as it
has done nothing.  `FoundInv`: so a use or close that finds the map so cannot fail.
`MapInv`: if opens and ends never overlapped, a store in the map is open, but between its
deletion and its removal.  `EndInv`: an end that no open came near has emptied the map
and its files are gone.  Three parts are Android's alone.  `CloseInv` counts: each close
that found a store took it out, where some open of its own had put it, so the closes that
succeed are no more than the opens.  `ReachInv` and `OrphanInv` follow what the library
keeps open: it is what the map names, or what some thread holds that will put it there or
end it.  The proof of a step is in two halves: `AndroidCallStep` and `IOSCallStep` show
that every step of a call in native code is one of few kinds of move (`Acts`: what it may
do to the map, the library, its outcome), and the parts of the invariant are shown from
the move, once for both platforms.

Assumptions: those on the constants (`ASSUME` in the modules, evaluated by TLC on
every run) and the hypotheses written in the theorems.  Nothing else.

Model-checked only: the liveness properties (liveness under fairness and ENABLED are
out of the prover's reach).  Every invariant and every safety action property of a
passing run is stated by a theorem.  The runs that expect a violation prove nothing.

## 6. Findings

Each is a run TLC refutes, with the sentence of the repository it refutes quoted in
`PROJECT.json`.

1. `ios_late_answer`: the native wait (60 s) ends before the JavaScript timer
   (290 s).  An answer in between finds no semaphore, and
   `dispatch_semaphore_signal` gets a null.  Android logs and goes on.
2. `android_conflicts_pending`: a `conflictResolver` that throws, or whose result
   fails the validation or the native conversion, leaves the promise pending and a
   pool thread waiting for ever.  `AnsweredCallSettles` and `AnswerAccounted` show
   that these are the only ways.  (iOS has its five-minute timer; what cannot be
   converted there ends the process.)
3. `ios_conflicts_error`: the error of the library's resolution is not looked at;
   the promise resolves although the document was not changed.
4. `ios_stop_unheard`: the delegate is attached when a replication is started.  A
   replicator that is stopped first becomes Stopped and no `complete` handler runs,
   although the documentation of `on` says that all do.  On Android the listener is
   registered at creation.

Behaviours of the same kind that the properties state as exceptions, each of them a
disjunct without which TLC finds the property violated:

* `AnswerReachesThread`: after `throw null` or `throw undefined` in an interceptor the
  handler of the failure reads `error.message` of nothing (`replicator.js:486`) and
  throws itself; no `unlockInterceptor` is sent and the HTTP thread waits for its
  native timer.
* `EveryCallSettles` and `ImplementsResolution` on iOS: an answer that passes
  `validateDocumentRevision` may raise an exception in `convertJSONToDocument:`, in a
  background block where nothing catches it.  `_deleted` is sent to the page as a
  Boolean (`CDTSyncPlugin.m:916`) and compared with the text "true" when it comes back
  (`CDTSyncPlugin.m:862`), a message that a number does not understand: a deleted
  revision that is given back is enough.  (So it is for `deleteDocumentFromRevision`,
  where `datastoremanager.js:343-345` promises that nothing will be changed.)
* `ManagersApart`: two `DatastoreManager`s that are created without waiting for the
  first read the same size of the map and get one id, on both platforms.  The second
  path replaces the first: both managers then use one directory, although the `path`
  option is "the location where datastores should be placed on disk"
  (`datastoremanager.js:33-35`).
* `StaysInPlace` on Android: deleteDocumentStore is not given the manager.  It deletes
  whichever store is open under the name, another manager's files included, and the
  files of the manager that was asked stay.  Opening a name under a second manager
  also redirects the `Datastore` objects of the first.
* `StaysInPlace` on iOS: an open finds the name in the cache and returns the store of
  the manager that opened it first.
* `NoOrphan`: on Android a delete of a store that is not open, or whose `delete()`
  throws, reports success and deletes nothing ("Deletes a Datastore's files from
  disk", `datastoremanager.js:148`); the exception is logged.
* `Disturbed` on iOS: an open that overlaps with a delete may cache the deleted store,
  and every later open of the name is answered with it.
* `KeysReachOwn`: tokens are cut to 32 bits on Android, and a page load forgets how
  far ahead of the clock the tokens had run.

## 7. Abstractions and what is not modelled

* Contexts are sequences of interceptor numbers, answers one of `null`, `known`,
  `stranger`, `broken`; URLs, headers, bodies and attachments are left out.
  Whether headers and the replay flag of an answer have the right type
  (`requestOk`, `replayOk`) is a free choice.  On iOS, headers of a wrong type
  inside a well-formed answer are not modelled.
* The replication library is a free choice: it may find no conflict, fail, or take
  the decision; when HTTP threads come, and how many, is open.  The libraries'
  worker threads are assumed not to be interrupted, so the InterruptedException
  branches are left out.
* The timers have no durations.  Any timer may expire whenever it is armed, which
  includes the real order of 60 s, 290 s and 5 min.
* In the interception modules `destroyReplicator` appears by its effect on the
  interceptor map of Android.  On iOS it leaves that map alone, so
  `unlockInterceptor` always finds the interceptor there.
* The libraries' replicators are external.  Taken from the API documentation
  (`replicator.js`, `CDTReplicator.h` of the vendored pods): the states; an iOS
  replicator starts only while Pending, is Stopped by a stop while Pending, may
  refuse a stop, and holds its delegate weakly.  On Android, where no source is at
  hand: start and stop return; a replicator that is over can be started again; start
  does nothing while a replication is under way or stopping; a stop while Pending
  makes it Stopped and posts `complete`.
* createReplicator fills its maps in one step: before its result arrives nobody has
  the replicator.  One handler per event; a handler does not throw.
* In the life-cycle modules each replicator has entries of its own; that two may share
  a key is what ReplicatorKeys is about.  A second destroy of a replicator by its own
  page removes nothing that the first did not, unless the keys clash, and is left out
  there.
* Stores.  The library is external: it has at most one open instance for a directory's
  store, opening or deleting may fail, closing a closed instance may throw, and on iOS
  a store used after its deletion fails or makes its files again.  Each manager has a
  directory of its own.  "use" stands for every operation on a store and fails only
  for want of a live store: what a document or a query makes of it is not modelled.
  A Java exception that is no `Exception` (an `Error`) is left out.  The path that
  replaces another between `documentStorePaths.get` and `getInstance` was looked up
  before, so the two are one step.
* Not modelled: the loss of the page while native code waits (how Cordova delivers
  results to a page that was loaded again is not in the repository); queries;
  packaging.
* Not modelled: the conversion between JSON and document revisions
  (`validateDocumentRevision`, `buildDocRevision`, `convertJSONToDocument:`), pure
  functions over documents.  The conflict modules take its outcome for an answer as
  given (`broken`: it passes the page and fails natively, with an error on Android and
  an exception on iOS; the NSError of `convertJSONToDocument:` is for values that parsed
  JSON does not have, so its branch in `returnResolvedDocument:` is left out).  One more
  thing was read in it: an attachment without data, which both platforms can send, does
  not pass the validation of the page (`datastoremanager.js:702`) when it is given back.

## 8. Plan

1. **DocumentConversion**: `validateDocumentRevision` against `buildDocRevision`
   and its iOS counterpart, over bounded documents, as operators with a reference
   definition; and the answers of the conflict modules taken from these documents.
2. An abstract registry of which the Android life cycle is a linearizable
   implementation.

Each module is written for both tools: constants with named assumptions, one action
per step of the code, invariants as conjunctions of named parts, no RECURSIVE
operators.
