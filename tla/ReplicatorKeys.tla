---------------------------- MODULE ReplicatorKeys ----------------------------
(***************************************************************************)
(* What Android makes of the tokens: the keys of the maps replicators and  *)
(* interceptors of CloudantSyncPlugin.  A token is a number of 41 bits by  *)
(* now, which execute reads with getInt: the key is its low 32 bits.  The  *)
(* maps are static and outlive the page, so that replicators of several    *)
(* pages meet in them.  createReplicator and destroyReplicator run on pool *)
(* threads and access one map after the other.                             *)
(***************************************************************************)
EXTENDS ReplicatorToken

CONSTANT KeySpace  \* how many keys there are: 2^32

ASSUME KeySpaceAssumption == KeySpace \in Nat \ {0}

VARIABLES
  replicators,   \* whose replicator is under each key: the number of its
                 \* token in `tokens`, 0 for none
  interceptors,  \* likewise
  phase,         \* how far the life of each replicator has come
  again          \* history: the replicators whose token may be given out again

keyVars == <<replicators, interceptors, phase, again>>

Replicator == 1..MaxTokens

Keys == 0..(KeySpace - 1)

KeysTypeOK ==
  /\ TypeOK
  /\ replicators \in [Keys -> 0..MaxTokens]
  /\ interceptors \in [Keys -> 0..MaxTokens]
  /\ phase \in [Replicator -> {"none", "creating", "put", "created", "refused",
                               "destroying", "removed", "destroyed"}]
  /\ again \in SUBSET Replicator

KeysInit ==
  /\ Init
  /\ replicators = [k \in Keys |-> 0]
  /\ interceptors = [k \in Keys |-> 0]
  /\ phase = [i \in Replicator |-> "none"]
  /\ again = {}

\* getInt(REPLICATOR_TOKEN)
Key(i) == tokens[i].token % KeySpace

Advance(i, from, to) ==
  /\ phase[i] = from
  /\ phase' = [phase EXCEPT ![i] = to]

-----------------------------------------------------------------------------
(* The page and the clock *)

\* The constructor takes a token and has createReplicator executed.
NewReplicator ==
  /\ GenerateToken
  /\ Advance(Len(tokens'), "none", "creating")
  /\ UNCHANGED <<replicators, interceptors, again>>

\* A page runs while the clock is at a token of an earlier page, or before it.
ClockSeen ==
  again' = again \cup
    {i \in 1..Len(tokens) : tokens[i].page # page' /\ clock' <= tokens[i].token}

SetClockSeen ==
  SetClock /\ ClockSeen /\ UNCHANGED <<replicators, interceptors, phase>>

ReloadSeen ==
  Reload /\ ClockSeen /\ UNCHANGED <<replicators, interceptors, phase>>

\* Whoever has the Replicator, on its own page, may destroy it.
Destroy(i) ==
  /\ Advance(i, "created", "destroying")
  /\ tokens[i].page = page
  /\ UNCHANGED <<vars, replicators, interceptors, again>>

-----------------------------------------------------------------------------
(* createReplicator *)

CreateRefused(i) ==
  /\ Advance(i, "creating", "refused")
  /\ UNCHANGED <<vars, replicators, interceptors, again>>

\* replicators.put
PutReplicator(i) ==
  /\ Advance(i, "creating", "put")
  /\ replicators' = [replicators EXCEPT ![Key(i)] = i]
  /\ UNCHANGED <<vars, interceptors, again>>

\* interceptors.put, and the result
PutInterceptor(i) ==
  /\ Advance(i, "put", "created")
  /\ interceptors' = [interceptors EXCEPT ![Key(i)] = i]
  /\ UNCHANGED <<vars, replicators, again>>

-----------------------------------------------------------------------------
(* destroyReplicator *)

\* replicators.remove, whosever replicator is there by now
RemoveReplicator(i) ==
  /\ Advance(i, "destroying", "removed")
  /\ replicators' = [replicators EXCEPT ![Key(i)] = 0]
  /\ UNCHANGED <<vars, interceptors, again>>

\* Mutant: the map is cleared.
RemoveInterceptorClears(i) ==
  /\ Advance(i, "removed", "destroyed")
  /\ interceptors' = [k \in Keys |-> 0]
  /\ UNCHANGED <<vars, replicators, again>>

\* interceptors.remove, and the result
RemoveInterceptor(i) ==
  /\ Advance(i, "removed", "destroyed")
  /\ interceptors' = [interceptors EXCEPT ![Key(i)] = 0]
  /\ UNCHANGED <<vars, replicators, again>>

-----------------------------------------------------------------------------
KeysNext ==
  \/ NewReplicator \/ SetClockSeen \/ ReloadSeen
  \/ \E i \in Replicator :
       \/ Destroy(i)
       \/ CreateRefused(i) \/ PutReplicator(i) \/ PutInterceptor(i)
       \/ RemoveReplicator(i) \/ RemoveInterceptor(i)

KeysSpec == KeysInit /\ [][KeysNext]_<<vars, keyVars>>

-----------------------------------------------------------------------------
(* Properties *)

\* Two replicators have one key only if their tokens are KeySpace milliseconds
\* (49 days) or a multiple of that apart, or if they are of different pages and
\* the second page saw the clock at the token of the first, or before it.
Clash(i, j) ==
  /\ Key(i) = Key(j)
  /\ \/ tokens[i].token # tokens[j].token
     \/ /\ tokens[i].page # tokens[j].page
        /\ i \in again \/ j \in again

Clashes(i) == \E j \in 1..Len(tokens) : j # i /\ Clash(i, j)

\* Whoever starts, stops, asks, destroys or unlocks a replicator reaches that
\* one and its interceptor, but for the two kinds of clash: fast creations, a
\* clock that is set, page loads and overlapping threads are no reason.
KeysReachOwn ==
  \A i \in 1..Len(tokens) :
    /\ phase[i] \in {"put", "created"} =>
         replicators[Key(i)] = i \/ Clashes(i)
    /\ phase[i] = "created" => interceptors[Key(i)] = i \/ Clashes(i)

-----------------------------------------------------------------------------
(* The inductive invariant behind KeysReachOwn *)

\* A replicator has a phase as soon as it has a token.
PhaseFits ==
  /\ Len(tokens) <= MaxTokens
  /\ \A i \in Replicator : phase[i] # "none" <=> i <= Len(tokens)

\* A token that the running page, or any later one, can still give out again
\* is counted as such, and so is one that a later page has passed or repeated.
AgainFits ==
  \A i \in 1..Len(tokens) :
    /\ tokens[i].page # page /\ clock <= tokens[i].token => i \in again
    /\ \A j \in 1..Len(tokens) :
         tokens[i].page < tokens[j].page /\ tokens[j].token <= tokens[i].token
           => i \in again

Shared(i) == \E j \in 1..Len(tokens) : j # i /\ Key(j) = Key(i)

Owned ==
  \A i \in 1..Len(tokens) :
    /\ phase[i] \in {"put", "created"} => replicators[Key(i)] = i \/ Shared(i)
    /\ phase[i] = "created" => interceptors[Key(i)] = i \/ Shared(i)

KeysInv == TokenInv /\ KeysTypeOK /\ PhaseFits /\ AgainFits /\ Owned

=============================================================================
