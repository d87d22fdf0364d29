--------------------------- MODULE TokenCacheProofs ---------------------------
(***************************************************************************)
(* TokenCache for any number of callers and any lifetimes: types, that a    *)
(* token outlives the call it was returned for, and that a usable token is  *)
(* not fetched again.                                                       *)
(***************************************************************************)
EXTENDS TokenCache, TLAPS

\* Whoever fetches holds the mutex, and found no token that could be used.
FetcherHolds ==
  \A c \in Caller : pc[c] \in {"fetch", "answer"} => mu = c /\ expiry = 0

\* A token loses no more of its life than the time its fetch has taken.
AnswerIsYoung ==
  \A c \in Caller : pc[c] = "answer" =>
    expiresIn[c] \in ExpiresIn /\ left[c] + age[c] >= expiresIn[c]

\* The cached token is accepted longer than it is used.
CachedIsAccepted == expiry > 0 => cached + Timeout >= expiry + Margin

\* A token in use had more than a timeout left when its call began.
CallIsCovered == \A c \in Caller : pc[c] = "send" => left[c] + age[c] > Timeout

Inv == TypeOK /\ FetcherHolds /\ AnswerIsYoung /\ CachedIsAccepted /\ CallIsCovered

USE TokenCacheAssumption

-----------------------------------------------------------------------------

LEMMA InitInv == Init => Inv
BY DEF Init, Inv, TypeOK, FetcherHolds, AnswerIsYoung, CachedIsAccepted, CallIsCovered

LEMMA CallInv ==
  ASSUME Inv, NEW c \in Caller, Call(c)
  PROVE  Inv'
BY DEF Inv, TypeOK, FetcherHolds, AnswerIsYoung, CachedIsAccepted, CallIsCovered, Call, Go

\* The mutex is free, so that nobody fetches; the cached token covers a call.
LEMMA ReuseInv ==
  ASSUME Inv, NEW c \in Caller, Reuse(c)
  PROVE  Inv'
<1>1. cached > Timeout
  BY DEF Inv, TypeOK, CachedIsAccepted, Reuse
<1>2. TypeOK'
  BY DEF Inv, TypeOK, Reuse, Send, Go
<1>3. FetcherHolds' /\ AnswerIsYoung' /\ CachedIsAccepted'
  BY DEF Inv, TypeOK, FetcherHolds, AnswerIsYoung, CachedIsAccepted, Reuse, Send, Go
<1>4. CallIsCovered'
  BY <1>1 DEF Inv, TypeOK, CallIsCovered, Reuse, Send, Go
<1> QED BY <1>2, <1>3, <1>4 DEF Inv

LEMMA FetchInv ==
  ASSUME Inv, NEW c \in Caller, Fetch(c)
  PROVE  Inv'
<1>1. \A d \in Caller : pc[d] \notin {"fetch", "answer"}
  BY DEF Inv, FetcherHolds, Fetch
<1>2. TypeOK'
  BY DEF Inv, TypeOK, Fetch, Go
<1>3. FetcherHolds'
  BY <1>1 DEF Inv, TypeOK, FetcherHolds, Fetch, Go
<1>4. AnswerIsYoung' /\ CachedIsAccepted' /\ CallIsCovered'
  BY <1>1 DEF Inv, TypeOK, AnswerIsYoung, CachedIsAccepted, CallIsCovered, Fetch, Go
<1> QED BY <1>2, <1>3, <1>4 DEF Inv

LEMMA IssueInv ==
  ASSUME Inv, NEW c \in Caller, Issue(c)
  PROVE  Inv'
<1>1. PICK n \in ExpiresIn :
        /\ expiresIn' = [expiresIn EXCEPT ![c] = n]
        /\ left' = [left EXCEPT ![c] = n]
  BY DEF Issue
<1>2. TypeOK'
  BY <1>1 DEF Inv, TypeOK, Issue, Go
<1>3. FetcherHolds' /\ CachedIsAccepted' /\ CallIsCovered'
  BY <1>1 DEF Inv, TypeOK, FetcherHolds, CachedIsAccepted, CallIsCovered, Issue, Go
<1>4. AnswerIsYoung'
  BY <1>1 DEF Inv, TypeOK, AnswerIsYoung, Issue, Go
<1> QED BY <1>2, <1>3, <1>4 DEF Inv

\* The token is at most a timeout old: both its holder and the cache may count
\* on what it names as its lifetime, less the margin.
LEMMA StoreInv ==
  ASSUME Inv, NEW c \in Caller, Store(c)
  PROVE  Inv'
<1>1. /\ expiresIn[c] \in ExpiresIn
      /\ age[c] \in 0 .. Timeout /\ left[c] \in Nat
      /\ left[c] + age[c] >= expiresIn[c]
      /\ \A d \in Caller : pc[d] \in {"fetch", "answer"} => d = c
  BY DEF Inv, TypeOK, AnswerIsYoung, FetcherHolds, Store
<1>2. TypeOK'
  <2>1. expiry' \in Nat /\ cached' \in Nat
    BY <1>1 DEF Store, Remaining
  <2> QED BY <2>1 DEF Inv, TypeOK, Store, Send, Go
<1>3. FetcherHolds' /\ AnswerIsYoung'
  BY <1>1 DEF Inv, TypeOK, FetcherHolds, AnswerIsYoung, Store, Send, Go
<1>4. CachedIsAccepted'
  BY <1>1 DEF CachedIsAccepted, Store, Remaining
<1>5. left[c] > Timeout
  BY <1>1
<1>6. CallIsCovered'
  BY <1>5 DEF Inv, TypeOK, CallIsCovered, Store, Send, Go
<1> QED BY <1>2, <1>3, <1>4, <1>6 DEF Inv

LEMMA EndInv ==
  ASSUME Inv, NEW c \in Caller, FetchFails(c) \/ Sent(c)
  PROVE  Inv'
<1>1. TypeOK'
  BY DEF Inv, TypeOK, FetchFails, Sent, End, Go
<1>2. FetcherHolds'
  BY DEF Inv, TypeOK, FetcherHolds, FetchFails, Sent, End, Go
<1>3. AnswerIsYoung' /\ CachedIsAccepted' /\ CallIsCovered'
  BY DEF Inv, TypeOK, AnswerIsYoung, CachedIsAccepted, CallIsCovered, FetchFails, Sent, End, Go
<1> QED BY <1>1, <1>2, <1>3 DEF Inv

\* A tick takes from a token's life what it adds to the age of its call.
LEMMA TickInv ==
  ASSUME Inv, Tick
  PROVE  Inv'
<1>1. TypeOK'
  <2>1. age' \in [Caller -> 0 .. Timeout]
    BY DEF Inv, TypeOK, Tick, Calling
  <2>2. left' \in [Caller -> Nat] /\ expiry' \in Nat /\ cached' \in Nat
    BY DEF Inv, TypeOK, Tick, Remaining
  <2> QED BY <2>1, <2>2 DEF Inv, TypeOK, Tick
<1>2. \A c \in Caller : Calling(c) => left'[c] + age'[c] >= left[c] + age[c]
  BY DEF Inv, TypeOK, Tick, Calling, Remaining
<1>3. FetcherHolds'
  BY DEF Inv, TypeOK, FetcherHolds, Tick, Remaining
<1>4. AnswerIsYoung' /\ CallIsCovered'
  BY <1>1, <1>2 DEF Inv, TypeOK, AnswerIsYoung, CallIsCovered, Tick, Calling
<1>5. CachedIsAccepted'
  BY DEF Inv, TypeOK, CachedIsAccepted, Tick, Remaining
<1> QED BY <1>1, <1>3, <1>4, <1>5 DEF Inv

LEMMA StepInv ==
  ASSUME Inv, [Next]_vars
  PROVE  Inv'
<1>1. CASE \E c \in Caller : Call(c) \/ Lock(c) \/ FetchStep(c) \/ Sent(c)
  BY <1>1, CallInv, ReuseInv, FetchInv, IssueInv, StoreInv, EndInv DEF Lock, FetchStep
<1>2. CASE Tick
  BY <1>2, TickInv
<1>3. CASE UNCHANGED vars
  BY <1>3 DEF vars, callVars, Inv, TypeOK, FetcherHolds, AnswerIsYoung, CachedIsAccepted, CallIsCovered
<1> QED BY <1>1, <1>2, <1>3 DEF Next

LEMMA InvCorrect == Spec => []Inv
BY InitInv, StepInv, PTL DEF Spec

-----------------------------------------------------------------------------

(* Every variable of the token caches keeps its type; in particular no call *)
(* outlasts the timeout of the HTTP client.                                 *)
THEOREM TypeCorrect == Spec => []TypeOK
BY InvCorrect, PTL DEF Inv

(* A token that token() returned is accepted until the call it is for ends: *)
(* the margin of 60 seconds covers the 15 that its fetch may have taken and *)
(* the 15 of the call.                                                      *)
THEOREM TokenOutlives == Spec => []TokenOutlivesCall
<1>1. Inv => TokenOutlivesCall
  BY DEF Inv, TypeOK, CallIsCovered, TokenOutlivesCall
<1> QED BY <1>1, InvCorrect, PTL

(* No usable token is replaced: the mutex is held from the look at the      *)
(* cached token to the storing of the new one.                              *)
THEOREM UsableKept == Spec => UsableTokenIsKept
<1>1. ASSUME Inv, Next
      PROVE  expiry' > expiry => expiry = 0
  <2>1. ASSUME NEW c \in Caller, Store(c)
        PROVE  expiry = 0
    BY <1>1, <2>1 DEF Inv, FetcherHolds, Store
  <2>2. ASSUME Tick
        PROVE  ~(expiry' > expiry)
    BY <1>1, <2>2 DEF Inv, TypeOK, Tick, Remaining
  <2>3. ASSUME NEW c \in Caller,
               Call(c) \/ Lock(c) \/ Issue(c) \/ FetchFails(c) \/ Sent(c)
        PROVE  expiry' = expiry
    BY <2>3 DEF Call, Lock, Reuse, Fetch, Issue, FetchFails, Sent
  <2> QED BY <1>1, <2>1, <2>2, <2>3 DEF Next, FetchStep, Inv, TypeOK
<1>2. ASSUME Inv, [Next]_vars
      PROVE  [expiry' > expiry => expiry = 0]_vars
  BY <1>1, <1>2
<1> QED BY <1>2, InvCorrect, PTL DEF Spec, UsableTokenIsKept

=============================================================================
