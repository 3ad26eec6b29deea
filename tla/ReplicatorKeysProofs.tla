------------------------- MODULE ReplicatorKeysProofs -------------------------
(* Proofs about ReplicatorKeys, for any width of the keys, any clock, any    *)
(* number of replicators and any number of page loads.                       *)
EXTENDS ReplicatorKeys, TLAPS

-----------------------------------------------------------------------------
(* The tokens by themselves, as ReplicatorToken generates them *)

\* A token given out is a number past the last one (checkTimestamp).
LEMMA CheckTimestampPasses ==
  ASSUME NEW t \in Nat, lastTimestamp \in Nat
  PROVE  CheckTimestamp(t) \in Nat /\ CheckTimestamp(t) > lastTimestamp
BY DEF CheckTimestamp

LEMMA ElementTyped ==
  ASSUME NEW S, NEW s \in Seq(S), NEW i \in 1..Len(s)
  PROVE  s[i] \in S
OBVIOUS

LEMMA TokenTyped ==
  ASSUME TypeOK, NEW i \in 1..Len(tokens)
  PROVE  /\ tokens[i] \in [page: Nat, token: Nat]
         /\ tokens[i].page \in Nat /\ tokens[i].token \in Nat
<1>1. tokens[i] \in [page: Nat, token: Nat]
  BY ElementTyped DEF TypeOK
<1> QED
  BY <1>1

LEMMA InitToken == Init => TokenInv
BY BoundsAssumption DEF Init, TokenInv, TypeOK, PageTokensIncrease,
   LastIsGreatest

LEMMA GenerateTokenKeeps ==
  ASSUME TokenInv, GenerateToken
  PROVE  TokenInv'
<1> DEFINE new == [page |-> page, token |-> lastTimestamp']
<1>1. clock \in Nat
  BY BoundsAssumption DEF TokenInv, TypeOK
<1>2. lastTimestamp' \in Nat /\ lastTimestamp' > lastTimestamp
  BY <1>1, CheckTimestampPasses DEF TokenInv, TypeOK, GenerateToken
<1>3. TypeOK'
  BY <1>2 DEF TokenInv, TypeOK, GenerateToken
<1>4. /\ Len(tokens) \in Nat
      /\ Len(tokens') = Len(tokens) + 1
      /\ tokens'[Len(tokens) + 1] = new
      /\ \A i \in 1..Len(tokens) : tokens'[i] = tokens[i]
  BY <1>2 DEF TokenInv, TypeOK, GenerateToken
<1>5. \A i \in 1..Len(tokens) :
        /\ tokens[i] \in [page: Nat, token: Nat]
        /\ tokens[i].page <= page
        /\ tokens[i].page = page => tokens[i].token <= lastTimestamp
  BY TokenTyped DEF TokenInv, LastIsGreatest
<1>6. page' = page /\ new.page = page /\ new.token = lastTimestamp'
  BY DEF GenerateToken
<1>7. PageTokensIncrease'
  <2> SUFFICES ASSUME NEW i \in 1..Len(tokens'), NEW j \in 1..Len(tokens'),
                      i < j, tokens'[i].page = tokens'[j].page
               PROVE  tokens'[i].token < tokens'[j].token
    BY DEF PageTokensIncrease
  <2>1. i \in 1..Len(tokens) /\ tokens'[i] = tokens[i]
    BY <1>4
  <2>2. CASE j \in 1..Len(tokens)
    BY <1>4, <2>1, <2>2 DEF TokenInv, PageTokensIncrease
  <2>3. CASE j = Len(tokens) + 1
    <3>1. tokens[i].page = page /\ tokens'[j].token = lastTimestamp'
      BY <1>4, <1>6, <2>1, <2>3
    <3>2. tokens[i].token <= lastTimestamp /\ tokens[i].token \in Nat
      BY <1>5, <2>1, <3>1
    <3> QED
      BY <1>2, <2>1, <3>1, <3>2 DEF TokenInv, TypeOK
  <2> QED
    BY <1>4, <2>2, <2>3
<1>8. LastIsGreatest'
  <2> SUFFICES ASSUME NEW i \in 1..Len(tokens')
               PROVE  /\ tokens'[i].page <= page'
                      /\ tokens'[i].page = page' =>
                           tokens'[i].token <= lastTimestamp'
    BY DEF LastIsGreatest
  <2>1. CASE i \in 1..Len(tokens)
    <3>1. tokens'[i] = tokens[i]
      BY <1>4, <2>1
    <3> QED
      BY <1>2, <1>5, <1>6, <2>1, <3>1 DEF TokenInv, TypeOK
  <2>2. CASE i = Len(tokens) + 1
    BY <1>2, <1>4, <1>6, <2>2 DEF TokenInv, TypeOK
  <2> QED
    BY <1>4, <2>1, <2>2
<1> QED
  BY <1>3, <1>7, <1>8 DEF TokenInv

LEMMA ReloadKeeps ==
  ASSUME TokenInv, Reload
  PROVE  TokenInv'
<1>1. TypeOK'
  BY DEF TokenInv, TypeOK, Reload
<1>2. PageTokensIncrease'
  BY DEF TokenInv, PageTokensIncrease, Reload
<1>3. \A i \in 1..Len(tokens) : tokens[i].page \in Nat /\ tokens[i].page <= page
  BY TokenTyped DEF TokenInv, LastIsGreatest
<1>4. LastIsGreatest'
  BY <1>3 DEF TokenInv, TypeOK, LastIsGreatest, Reload
<1> QED
  BY <1>1, <1>2, <1>4 DEF TokenInv

LEMMA NextToken == TokenInv /\ [Next]_vars => TokenInv'
<1> SUFFICES ASSUME TokenInv, [Next]_vars
             PROVE  TokenInv'
  OBVIOUS
<1>1. CASE GenerateToken
  BY <1>1, GenerateTokenKeeps
<1>2. CASE SetClock
  BY <1>2 DEF SetClock, TokenInv, TypeOK, PageTokensIncrease, LastIsGreatest
<1>3. CASE Reload
  BY <1>3, ReloadKeeps
<1>4. CASE UNCHANGED vars
  BY <1>4 DEF vars, TokenInv, TypeOK, PageTokensIncrease, LastIsGreatest
<1> QED
  BY <1>1, <1>2, <1>3, <1>4 DEF Next

\* However the clock is set and however fast tokens are asked for, the tokens
\* of one page increase: checkTimestamp makes them unique within the page.
THEOREM TokensIncrease == Spec => []PageTokensIncrease
<1>1. Spec => []TokenInv
  BY InitToken, NextToken, PTL DEF Spec
<1> QED
  BY <1>1, PTL DEF TokenInv

-----------------------------------------------------------------------------
(* The keys *)

LEMMA ModInRange ==
  ASSUME NEW n \in Nat, NEW k \in Nat \ {0}
  PROVE  n % k \in 0..(k - 1)
OBVIOUS

\* Each token has a key of the maps.
LEMMA KeyTyped ==
  ASSUME TypeOK, NEW i \in 1..Len(tokens)
  PROVE  Key(i) \in Keys
<1>1. tokens[i].token \in Nat
  BY TokenTyped
<1> QED
  BY <1>1, ModInRange, KeySpaceAssumption DEF Key, Keys

LEMMA InitKeys == KeysInit => KeysInv
<1> SUFFICES ASSUME KeysInit
             PROVE  KeysInv
  OBVIOUS
<1>1. TokenInv /\ tokens = <<>> /\ Len(tokens) = 0
  BY InitToken DEF KeysInit, Init
<1>2. KeysTypeOK
  BY <1>1, BoundsAssumption DEF KeysInit, KeysTypeOK, TokenInv
<1>3. PhaseFits
  BY <1>1, BoundsAssumption DEF KeysInit, PhaseFits, Replicator
<1>4. AgainFits /\ Owned
  BY <1>1 DEF AgainFits, Owned
<1> QED
  BY <1>1, <1>2, <1>3, <1>4 DEF KeysInv

-----------------------------------------------------------------------------
(* Steps that leave page, clock and tokens alone *)

\* What a step of a thread does to Owned is a matter of the entries of one key:
\* it takes them for its own replicator, or takes them away, which matters only
\* to those that share the key.
LEMMA ThreadKeeps ==
  ASSUME KeysInv, UNCHANGED vars, NEW i \in Replicator,
         \/ Destroy(i) \/ CreateRefused(i) \/ PutReplicator(i)
         \/ PutInterceptor(i) \/ RemoveReplicator(i) \/ RemoveInterceptor(i)
  PROVE  KeysInv'
<1>1. /\ phase[i] # "none" /\ phase'[i] # "none" /\ again' = again
      /\ phase' = [phase EXCEPT ![i] = phase'[i]]
      /\ phase'[i] \in {"put", "created", "refused", "destroying", "removed",
                        "destroyed"}
  BY DEF Destroy, CreateRefused, PutReplicator, PutInterceptor,
     RemoveReplicator, RemoveInterceptor, Advance, KeysInv, KeysTypeOK
<1>2. TokenInv'
  BY DEF vars, KeysInv, TokenInv, TypeOK, PageTokensIncrease, LastIsGreatest
<1>3. i \in 1..Len(tokens) /\ Len(tokens) \in Nat
  BY <1>1 DEF KeysInv, PhaseFits, TokenInv, TypeOK, Replicator
<1>4. Key(i) \in Keys
  BY <1>3, KeyTyped DEF KeysInv, TokenInv
<1>5. KeysTypeOK'
  <2>0. i \in 0..MaxTokens /\ 0 \in 0..MaxTokens
    BY BoundsAssumption DEF Replicator
  <2>1. /\ replicators' \in [Keys -> 0..MaxTokens]
        /\ interceptors' \in [Keys -> 0..MaxTokens]
    BY <1>4, <2>0 DEF KeysInv, KeysTypeOK, Destroy, CreateRefused,
       PutReplicator, PutInterceptor, RemoveReplicator, RemoveInterceptor
  <2> QED
    BY <1>1, <1>2, <2>1 DEF KeysInv, KeysTypeOK, TokenInv
<1>6. PhaseFits'
  BY <1>1 DEF vars, KeysInv, KeysTypeOK, PhaseFits
<1>7. AgainFits'
  BY <1>1 DEF vars, KeysInv, AgainFits
<1>8. Owned'
  <2> SUFFICES ASSUME NEW j \in 1..Len(tokens), ~ Shared(j)
               PROVE  /\ phase'[j] \in {"put", "created"} =>
                           replicators'[Key(j)] = j
                      /\ phase'[j] = "created" => interceptors'[Key(j)] = j
    BY DEF vars, Owned, Shared, Key
  <2>1. /\ phase[j] \in {"put", "created"} => replicators[Key(j)] = j
        /\ phase[j] = "created" => interceptors[Key(j)] = j
    BY DEF KeysInv, Owned
  <2>2. j \in Replicator /\ Key(j) \in Keys
    <3>1. Len(tokens) \in Nat /\ Len(tokens) <= MaxTokens
      BY DEF KeysInv, PhaseFits, TokenInv, TypeOK
    <3> QED
      BY <3>1, KeyTyped, BoundsAssumption DEF KeysInv, Replicator, TokenInv
  <2>3. CASE j # i
    <3>1. Key(j) # Key(i)
      BY <1>3, <2>3 DEF Shared
    <3>2. phase'[j] = phase[j]
      BY <1>1, <2>2, <2>3 DEF KeysInv, KeysTypeOK
    <3>3. /\ replicators'[Key(j)] = replicators[Key(j)]
          /\ interceptors'[Key(j)] = interceptors[Key(j)]
      BY <1>4, <2>2, <3>1 DEF KeysInv, KeysTypeOK, Destroy, CreateRefused,
         PutReplicator, PutInterceptor, RemoveReplicator, RemoveInterceptor
    <3> QED
      BY <2>1, <3>2, <3>3
  <2>4. CASE j = i
    <3>1. phase'[i] \in {"put", "created"} => replicators'[Key(i)] = i
      BY <1>1, <1>4, <2>1, <2>4 DEF KeysInv, KeysTypeOK, Destroy,
         CreateRefused, PutReplicator, PutInterceptor, RemoveReplicator,
         RemoveInterceptor, Advance
    <3>2. phase'[i] = "created" => interceptors'[Key(i)] = i
      BY <1>1, <1>4 DEF KeysInv, KeysTypeOK, Destroy, CreateRefused,
         PutReplicator, PutInterceptor, RemoveReplicator, RemoveInterceptor,
         Advance
    <3> QED
      BY <2>4, <3>1, <3>2
  <2> QED
    BY <2>3, <2>4
<1> QED
  BY <1>2, <1>5, <1>6, <1>7, <1>8 DEF KeysInv

-----------------------------------------------------------------------------
(* Steps of the page and the clock *)

\* The clock is set or the page loaded again: only AgainFits is at stake, and
\* ClockSeen looks after it.
LEMMA ClockKeeps ==
  ASSUME KeysInv, SetClockSeen \/ ReloadSeen
  PROVE  KeysInv'
<1>1. /\ tokens' = tokens /\ ClockSeen
      /\ UNCHANGED <<replicators, interceptors, phase>>
  BY DEF SetClockSeen, ReloadSeen, SetClock, Reload
<1>2. TokenInv'
  <2>1. CASE SetClock
    BY <2>1, NextToken DEF Next, KeysInv
  <2>2. CASE Reload
    BY <2>2, NextToken DEF Next, KeysInv
  <2> QED
    BY <2>1, <2>2 DEF SetClockSeen, ReloadSeen
<1>3. again \subseteq again' /\ again' \subseteq Replicator
  <2>1. Len(tokens) \in Nat /\ Len(tokens) <= MaxTokens
    BY DEF KeysInv, PhaseFits, TokenInv, TypeOK
  <2>2. 1..Len(tokens) \subseteq Replicator
    BY <2>1, BoundsAssumption DEF Replicator
  <2> QED
    BY <1>1, <2>2 DEF ClockSeen, KeysInv, KeysTypeOK
<1>4. KeysTypeOK' /\ PhaseFits'
  BY <1>1, <1>2, <1>3 DEF KeysInv, KeysTypeOK, PhaseFits, TokenInv
<1>5. AgainFits'
  BY <1>1, <1>3 DEF KeysInv, AgainFits, ClockSeen
<1>6. Owned'
  BY <1>1 DEF KeysInv, Owned, Shared, Key
<1> QED
  BY <1>2, <1>4, <1>5, <1>6 DEF KeysInv

\* A token is never before the clock: if it is not past an earlier page's one,
\* nor was the clock.
LEMMA NewReplicatorKeeps ==
  ASSUME KeysInv, NewReplicator
  PROVE  KeysInv'
<1> DEFINE n == Len(tokens) + 1
<1>1. TokenInv'
  BY GenerateTokenKeeps DEF NewReplicator, KeysInv
<1>2. /\ page' = page /\ clock' = clock /\ again' = again
      /\ UNCHANGED <<replicators, interceptors>>
      /\ Len(tokens) \in Nat /\ Len(tokens') = n /\ n <= MaxTokens
      /\ tokens'[n] = [page |-> page, token |-> lastTimestamp']
      /\ \A i \in 1..Len(tokens) : tokens'[i] = tokens[i]
  <2>1. /\ Len(tokens) < MaxTokens
        /\ tokens' = Append(tokens, [page |-> page, token |-> lastTimestamp'])
        /\ page' = page /\ clock' = clock /\ again' = again
        /\ UNCHANGED <<replicators, interceptors>>
    BY DEF NewReplicator, GenerateToken
  <2>2. tokens \in Seq([page: Nat, token: Nat]) /\ Len(tokens) \in Nat
    BY DEF KeysInv, TokenInv, TypeOK
  <2> QED
    BY <2>1, <2>2, BoundsAssumption
<1>3. lastTimestamp' \in Nat /\ clock \in Nat /\ clock <= lastTimestamp'
  BY BoundsAssumption DEF NewReplicator, GenerateToken, CheckTimestamp, KeysInv,
     TokenInv, TypeOK
<1>4. n \in Replicator /\ phase[n] = "none"
      /\ phase' = [phase EXCEPT ![n] = "creating"]
  BY <1>2 DEF NewReplicator, Advance, Replicator
<1>5. KeysTypeOK'
  BY <1>1, <1>2, <1>4 DEF KeysInv, KeysTypeOK, TokenInv
<1>6. PhaseFits'
  BY <1>2, <1>4 DEF KeysInv, KeysTypeOK, PhaseFits, Replicator
<1>7. AgainFits'
  <2> SUFFICES ASSUME NEW i \in 1..n, i \notin again
               PROVE  /\ ~ (tokens'[i].page # page /\ clock <= tokens'[i].token)
                      /\ \A j \in 1..n :
                           ~ (tokens'[i].page < tokens'[j].page
                              /\ tokens'[j].token <= tokens'[i].token)
    BY <1>2 DEF AgainFits
  <2>1. CASE i = n
    <3>1. \A j \in 1..Len(tokens) : tokens[j].page <= page
      BY DEF KeysInv, TokenInv, LastIsGreatest
    <3>2. \A j \in 1..Len(tokens) : tokens[j].page \in Nat
      BY TokenTyped DEF KeysInv, TokenInv
    <3>3. page \in Nat
      BY DEF KeysInv, TokenInv, TypeOK
    <3> QED
      BY <1>2, <2>1, <3>1, <3>2, <3>3
  <2>2. CASE i \in 1..Len(tokens)
    <3>1. /\ ~ (tokens[i].page # page /\ clock <= tokens[i].token)
          /\ \A j \in 1..Len(tokens) :
               ~ (tokens[i].page < tokens[j].page
                  /\ tokens[j].token <= tokens[i].token)
      BY <2>2 DEF KeysInv, AgainFits
    <3>2. tokens[i].page \in Nat /\ tokens[i].token \in Nat /\ page \in Nat
      BY <2>2, TokenTyped DEF KeysInv, TokenInv, TypeOK
    <3>3. ~ (tokens[i].page < page /\ lastTimestamp' <= tokens[i].token)
      BY <1>3, <3>1, <3>2
    <3> QED
      BY <1>2, <2>2, <3>1, <3>3
  <2> QED
    BY <1>2, <2>1, <2>2
<1>8. Owned'
  <2> SUFFICES ASSUME NEW i \in 1..n, phase'[i] \in {"put", "created"}
               PROVE  /\ replicators[Key(i)'] = i \/ Shared(i)'
                      /\ phase'[i] = "created" =>
                           interceptors[Key(i)'] = i \/ Shared(i)'
    BY <1>2 DEF Owned
  <2>1. i \in Replicator
    BY <1>2, BoundsAssumption DEF Replicator
  <2>2. i # n /\ i \in 1..Len(tokens) /\ phase'[i] = phase[i]
    BY <1>2, <1>4, <2>1 DEF KeysInv, KeysTypeOK
  <2>3. Key(i)' = Key(i)
    BY <1>2, <2>2 DEF Key
  <2>4. Shared(i) => Shared(i)'
    BY <1>2, <2>2, <2>3 DEF Shared, Key
  <2> QED
    BY <2>2, <2>3, <2>4 DEF KeysInv, Owned
<1> QED
  BY <1>1, <1>5, <1>6, <1>7, <1>8 DEF KeysInv

-----------------------------------------------------------------------------
LEMMA NextKeys == KeysInv /\ [KeysNext]_<<vars, keyVars>> => KeysInv'
<1> SUFFICES ASSUME KeysInv, [KeysNext]_<<vars, keyVars>>
             PROVE  KeysInv'
  OBVIOUS
<1>1. CASE NewReplicator
  BY <1>1, NewReplicatorKeeps
<1>2. CASE SetClockSeen \/ ReloadSeen
  BY <1>2, ClockKeeps
<1>3. ASSUME NEW i \in Replicator,
             \/ Destroy(i) \/ CreateRefused(i) \/ PutReplicator(i)
             \/ PutInterceptor(i) \/ RemoveReplicator(i) \/ RemoveInterceptor(i)
      PROVE  KeysInv'
  <2>1. UNCHANGED vars
    BY <1>3 DEF Destroy, CreateRefused, PutReplicator, PutInterceptor,
       RemoveReplicator, RemoveInterceptor, vars
  <2> QED
    BY <1>3, <2>1, ThreadKeeps
<1>4. CASE UNCHANGED <<vars, keyVars>>
  BY <1>4 DEF vars, keyVars, KeysInv, TokenInv, TypeOK, PageTokensIncrease,
     LastIsGreatest, KeysTypeOK, PhaseFits, AgainFits, Owned, Shared, Key
<1> QED
  BY <1>1, <1>2, <1>3, <1>4 DEF KeysNext

\* Two that share a key clash: equal tokens of one page are ruled out by
\* PageTokensIncrease, and those of two pages by AgainFits.
LEMMA SharedClashes ==
  ASSUME KeysInv, NEW i \in 1..Len(tokens), Shared(i)
  PROVE  Clashes(i)
<1>1. PICK j \in 1..Len(tokens) : j # i /\ Key(j) = Key(i)
  BY DEF Shared
<1>2. /\ tokens[i].page \in Nat /\ tokens[i].token \in Nat
      /\ tokens[j].page \in Nat /\ tokens[j].token \in Nat
  BY TokenTyped DEF KeysInv, TokenInv
<1>3. CASE tokens[i].token # tokens[j].token
  BY <1>1, <1>3 DEF Clashes, Clash
<1>4. CASE tokens[i].token = tokens[j].token
  <2>1. tokens[i].page # tokens[j].page
    <3>1. i < j \/ j < i
      BY <1>1
    <3> QED
      BY <1>1, <1>2, <1>4, <3>1 DEF KeysInv, TokenInv, PageTokensIncrease
  <2>2. i \in again \/ j \in again
    BY <1>1, <1>2, <1>4, <2>1 DEF KeysInv, AgainFits
  <2> QED
    BY <1>1, <2>1, <2>2 DEF Clashes, Clash
<1> QED
  BY <1>3, <1>4

\* A token reaches its own replicator and its own interceptor on Android, but
\* for tokens a multiple of KeySpace apart and for pages that saw the clock at
\* or before an earlier page's token.
THEOREM KeysCorrect == KeysSpec => []KeysReachOwn
<1>1. KeysInv => KeysReachOwn
  BY SharedClashes DEF KeysInv, Owned, KeysReachOwn
<1>2. KeysSpec => []KeysInv
  BY InitKeys, NextKeys, PTL DEF KeysSpec
<1> QED
  BY <1>1, <1>2, PTL

=============================================================================
