--------------------------- MODULE ReplicatorToken ---------------------------
(***************************************************************************)
(* The tokens that name replicators on both sides of the bridge:           *)
(* generateToken and checkTimestamp (libs/utils.js).  A token is the time  *)
(* of day in milliseconds, pushed past the last one given out.  The last   *)
(* one is a variable of the page's script: it starts from 0 again when the *)
(* page is loaded again, while the native maps the tokens are keys of are  *)
(* static (CloudantSyncPlugin.java) and live on.                           *)
(***************************************************************************)
EXTENDS Naturals, Sequences

CONSTANTS
  MaxTime,    \* bound of the model: the latest time of day
  MaxTokens,  \* bound of the model: tokens given out in all
  MaxPages    \* bound of the model: page loads

ASSUME BoundsAssumption ==
  MaxTime \in Nat /\ MaxTokens \in Nat /\ MaxPages \in Nat

VARIABLES
  clock,          \* the device's time of day, which may be set
  page,           \* which load of the page is running
  lastTimestamp,  \* lastTimestamp of that page's script
  tokens          \* history: the tokens given out, with their pages

vars == <<clock, page, lastTimestamp, tokens>>

TypeOK ==
  /\ clock \in 0..MaxTime
  /\ page \in Nat
  /\ lastTimestamp \in Nat
  /\ tokens \in Seq([page: Nat, token: Nat])

Init ==
  /\ clock \in 1..MaxTime
  /\ page = 1
  /\ lastTimestamp = 0
  /\ tokens = <<>>

\* Mutant: a timestamp equal to the last one is given out again.
CheckTimestampLoose(timestamp) ==
  IF timestamp < lastTimestamp THEN lastTimestamp + 1 ELSE timestamp

\* The timestamp, or one more than the last token if that is not later.
CheckTimestamp(timestamp) ==
  IF timestamp <= lastTimestamp THEN lastTimestamp + 1 ELSE timestamp

\* Mutant: lastTimestamp is set to the time of day, not to the token.
GenerateTokenForgets ==
  /\ Len(tokens) < MaxTokens
  /\ lastTimestamp' = clock
  /\ tokens' = Append(tokens, [page |-> page, token |-> CheckTimestamp(clock)])
  /\ UNCHANGED <<clock, page>>

GenerateToken ==
  /\ Len(tokens) < MaxTokens
  /\ lastTimestamp' = CheckTimestamp(clock)
  /\ tokens' = Append(tokens, [page |-> page, token |-> lastTimestamp'])
  /\ UNCHANGED <<clock, page>>

\* Time passes, or the clock is set -- forward or back.
SetClock ==
  /\ \E t \in 0..MaxTime : clock' = t
  /\ UNCHANGED <<page, lastTimestamp, tokens>>

\* The page is loaded again, which takes time, and its script starts afresh.
Reload ==
  /\ page < MaxPages
  /\ page' = page + 1
  /\ lastTimestamp' = 0
  /\ \E t \in 0..MaxTime : t > clock /\ clock' = t
  /\ UNCHANGED tokens

Next == GenerateToken \/ SetClock \/ Reload

Spec == Init /\ [][Next]_vars

-----------------------------------------------------------------------------
(* Properties *)

\* Of the tokens of one page each is greater than those before it, however
\* fast they are asked for and wherever the clock is set meanwhile: no two
\* replicators of a page share a token.
PageTokensIncrease ==
  \A i, j \in 1..Len(tokens) :
    i < j /\ tokens[i].page = tokens[j].page =>
      tokens[i].token < tokens[j].token

-----------------------------------------------------------------------------
(* The inductive invariant behind PageTokensIncrease: lastTimestamp bounds the
   tokens of the page that runs, and no page yet to come has any. *)
LastIsGreatest ==
  \A i \in 1..Len(tokens) :
    /\ tokens[i].page <= page
    /\ tokens[i].page = page => tokens[i].token <= lastTimestamp

TokenInv == TypeOK /\ PageTokensIncrease /\ LastIsGreatest

=============================================================================
