----------------------------- MODULE TokenCache -----------------------------
(***************************************************************************)
(* The OAuth access token that push and iap each keep: fetched under a     *)
(* mutex, reused until a minute before its end.  The workers of the        *)
(* broadcasts, or the requests that verify a purchase, are the callers.    *)
(* Time passes in ticks; a call to another server takes any time up to the *)
(* timeout of the HTTP client.                                             *)
(***************************************************************************)
EXTENDS Integers

CONSTANTS
  Caller,
  Nobody,     \* the mutex is free
  ExpiresIn,  \* the lifetimes the OAuth server may give a token
  Margin,     \* how long before its end a token is no longer used: 60 seconds
  Timeout     \* of the HTTP client: 15 seconds

ASSUME TokenCacheAssumption ==
  /\ Nobody \notin Caller
  /\ Timeout \in Nat /\ Margin \in Nat /\ Margin >= 2 * Timeout
  /\ \A n \in ExpiresIn : n \in Nat /\ n > 2 * Timeout

VARIABLES
  pc,        \* each caller: idle, at the mutex, fetching, given a token, sending
  age,       \* how long its present call has lasted
  expiresIn, \* the lifetime in the answer on its way to it
  left,      \* how long the token it has, or is to get, is still accepted
  mu,        \* who holds the mutex
  expiry,    \* how long the cached token will still be used
  cached     \* how long it is still accepted

callVars == <<pc, age, expiresIn, left>>
vars == <<callVars, mu, expiry, cached>>

Init ==
  /\ pc = [c \in Caller |-> "idle"]
  /\ age = [c \in Caller |-> 0]
  /\ expiresIn = [c \in Caller |-> 0]
  /\ left = [c \in Caller |-> 0]
  /\ mu = Nobody
  /\ expiry = 0
  /\ cached = 0

\* What remains of a time after a part of it.
Remaining(time, part) == IF time > part THEN time - part ELSE 0

-----------------------------------------------------------------------------

Go(c, next) == pc' = [pc EXCEPT ![c] = next]

\* A call begins with this token, a caller has its answer.
Send(c, token) ==
  /\ Go(c, "send")
  /\ age' = [age EXCEPT ![c] = 0]
  /\ expiresIn' = [expiresIn EXCEPT ![c] = 0]
  /\ left' = [left EXCEPT ![c] = token]

End(c) ==
  /\ Go(c, "idle")
  /\ age' = [age EXCEPT ![c] = 0]
  /\ expiresIn' = [expiresIn EXCEPT ![c] = 0]
  /\ left' = [left EXCEPT ![c] = 0]

Call(c) ==
  /\ pc[c] = "idle"
  /\ Go(c, "lock")
  /\ UNCHANGED <<age, expiresIn, left, mu, expiry, cached>>

\* A cached token is returned at once.
Reuse(c) ==
  /\ pc[c] = "lock" /\ mu = Nobody
  /\ expiry > 0
  /\ Send(c, cached)
  /\ UNCHANGED <<mu, expiry, cached>>

\* Mutant: the mutex is not held during the fetch.
FetchUnlocked(c) ==
  /\ pc[c] = "lock" /\ mu = Nobody
  /\ expiry = 0
  /\ Go(c, "fetch")
  /\ UNCHANGED <<age, expiresIn, left, mu, expiry, cached>>

Fetch(c) ==
  /\ pc[c] = "lock" /\ mu = Nobody
  /\ expiry = 0
  /\ mu' = c
  /\ Go(c, "fetch")
  /\ UNCHANGED <<age, expiresIn, left, expiry, cached>>

\* The OAuth server issues a token: its life begins before the answer arrives.
Issue(c) ==
  /\ pc[c] = "fetch"
  /\ \E n \in ExpiresIn :
       /\ expiresIn' = [expiresIn EXCEPT ![c] = n]
       /\ left' = [left EXCEPT ![c] = n]
  /\ Go(c, "answer")
  /\ UNCHANGED <<age, mu, expiry, cached>>

\* Mutant: the token is used to the end of its lifetime.
StoreWithoutMargin(c) ==
  /\ pc[c] = "answer"
  /\ expiry' = expiresIn[c]
  /\ cached' = left[c]
  /\ mu' = Nobody
  /\ Send(c, left[c])

\* The answer arrives, and the lifetime it names is counted from now.
Store(c) ==
  /\ pc[c] = "answer"
  /\ expiry' = Remaining(expiresIn[c], Margin)
  /\ cached' = left[c]
  /\ mu' = Nobody
  /\ Send(c, left[c])

\* Mutant: the mutex is not released after an error.
FetchFailsLocked(c) ==
  /\ pc[c] \in {"fetch", "answer"}
  /\ End(c)
  /\ UNCHANGED <<mu, expiry, cached>>

\* The fetch times out, its request is cancelled, or the answer is an error.
FetchFails(c) ==
  /\ pc[c] \in {"fetch", "answer"}
  /\ mu' = Nobody
  /\ End(c)
  /\ UNCHANGED <<expiry, cached>>

\* FCM or the Play API has seen the token and answered, or the call timed out.
Sent(c) ==
  /\ pc[c] = "send"
  /\ End(c)
  /\ UNCHANGED <<mu, expiry, cached>>

Calling(c) == pc[c] \in {"fetch", "answer", "send"}

\* Mutant: the age of a token is not stopped at its end.
TickBelowZero ==
  /\ \A c \in Caller : Calling(c) => age[c] < Timeout
  /\ age' = [c \in Caller |-> IF Calling(c) THEN age[c] + 1 ELSE age[c]]
  /\ left' = [c \in Caller |-> left[c] - 1]
  /\ expiry' = expiry - 1
  /\ cached' = cached - 1
  /\ UNCHANGED <<pc, expiresIn, mu>>

\* Time passes, but no call outlasts its timeout.
Tick ==
  /\ \A c \in Caller : Calling(c) => age[c] < Timeout
  /\ age' = [c \in Caller |-> IF Calling(c) THEN age[c] + 1 ELSE age[c]]
  /\ left' = [c \in Caller |-> Remaining(left[c], 1)]
  /\ expiry' = Remaining(expiry, 1)
  /\ cached' = Remaining(cached, 1)
  /\ UNCHANGED <<pc, expiresIn, mu>>

-----------------------------------------------------------------------------

Lock(c) == Reuse(c) \/ Fetch(c)
FetchStep(c) == Issue(c) \/ Store(c) \/ FetchFails(c)

Next ==
  \/ \E c \in Caller : Call(c) \/ Lock(c) \/ FetchStep(c) \/ Sent(c)
  \/ Tick

Spec == Init /\ [][Next]_vars

\* A call ends, at the latest with its timeout.  A sync.Mutex hands itself over
\* to a goroutine that has waited for more than a millisecond: who waits is not
\* overtaken for ever.
Fairness ==
  \A c \in Caller : SF_vars(Lock(c)) /\ WF_vars(FetchStep(c)) /\ WF_vars(Sent(c))

FairSpec == Spec /\ Fairness

-----------------------------------------------------------------------------

TypeOK ==
  /\ pc \in [Caller -> {"idle", "lock", "fetch", "answer", "send"}]
  /\ age \in [Caller -> 0 .. Timeout]
  /\ expiresIn \in [Caller -> Nat]
  /\ left \in [Caller -> Nat]
  /\ mu \in Caller \cup {Nobody}
  /\ expiry \in Nat
  /\ cached \in Nat

(* A token that token() has returned is accepted until the call it is for   *)
(* has ended, although its life began before the answer arrived and its     *)
(* call may last as long as the client allows: the margin of 60 seconds is  *)
(* more than the two timeouts of 15.                                        *)
TokenOutlivesCall == \A c \in Caller : pc[c] = "send" => left[c] > 0

(* A token that can still be used is not fetched a second time: whoever     *)
(* waited for the mutex finds the token that its holder has stored.         *)
UsableTokenIsKept == [][expiry' > expiry => expiry = 0]_vars

(* Whoever asks for a token gets an answer, also while fetches fail: the    *)
(* mutex is released on every way out.                                      *)
CallEnds == \A c \in Caller : pc[c] # "idle" ~> pc[c] = "idle"

=============================================================================
