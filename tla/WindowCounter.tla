--------------------------- MODULE WindowCounter ---------------------------
(***************************************************************************)
(* A counter that the server keeps for a client address and a window of    *)
(* time: a Redis key, and a window in the server's memory for when there   *)
(* is no Redis or a call to it fails.  RateLimiter and AdminGuard use one  *)
(* counter each; the counters of two addresses do not touch each other, so *)
(* one address is modelled.  Time passes in ticks.                         *)
(*                                                                         *)
(* Here are the counter, the steps both users take, and what is true of    *)
(* both; the modules of the users add how they read and increment it.      *)
(***************************************************************************)
EXTENDS Integers, FiniteSets

CONSTANTS
  Request,   \* the requests of the address the server may handle at one time
  Limit,     \* what the counter is compared with
  Window,    \* how long it counts, in ticks
  MayFail    \* whether Redis may fail and the server restart

ASSUME WindowAssumption ==
  /\ Limit \in Nat \ {0}
  /\ Window \in Nat \ {0}
  /\ MayFail \in BOOLEAN
  /\ IsFiniteSet(Request) /\ Request # {}

VARIABLES
  enabled,  \* whether the server was given a Redis at all; it does not change
  redis,    \* the number under the Redis key, and the key's time to live
  mem,      \* the window of memStore
  failed,   \* history: a call to Redis failed or the server restarted
  orphan,   \* history: the Redis key has no lifetime, its EXPIRE was lost
  pc,       \* each request: its next call, or "idle"
  passed    \* history, by age: how many requests passed in this tick and as
            \* many ticks before it (let through, or a wrong password compared)

vars == <<enabled, redis, mem, failed, orphan, pc, passed>>

\* The time to live of a Redis key that has none.
Forever == Window + 1
NoKey == [count |-> 0, ttl |-> 0]
Entry == [count : 0 .. Limit + 1, ttl : 0 .. Forever]

\* Bound: every use compares a count with Limit, so that those over it are not
\* told apart.
Increased(count) == IF count > Limit THEN count ELSE count + 1

\* Mutant: the number is written back, and the lifetime starts anew.
IncrementedAnew(entry, ttl) == [count |-> Increased(entry.count), ttl |-> ttl]

\* A new key or window gets this time to live; an old one keeps its own.
Incremented(entry, ttl) ==
  [count |-> Increased(entry.count), ttl |-> IF entry.count = 0 THEN ttl ELSE entry.ttl]

\* The INCR of Cache.Incr: a key it makes has no lifetime yet.
Incr ==
  /\ enabled
  /\ redis' = Incremented(redis, Forever)
  /\ UNCHANGED <<enabled, failed, orphan>>

\* Cache.Incr returns no number: there is no Redis, or the call failed, and then
\* its INCR may have been executed all the same.
IncrFails ==
  /\ \/ ~enabled /\ UNCHANGED <<redis, failed, orphan>>
     \/ /\ enabled /\ MayFail /\ failed' = TRUE
        /\ \/ redis' = Incremented(redis, Forever) /\ orphan' = (orphan \/ redis.count = 0)
           \/ UNCHANGED <<redis, orphan>>
  /\ UNCHANGED enabled

\* allowRate and recordFail of memStore: count in the window, or open one.
MemIncr == mem' = Incremented(mem, Window)

\* The EXPIRE of Cache.Incr, whose error is ignored.
Expire ==
  /\ \/ /\ redis' = [redis EXCEPT !.ttl = IF redis.count = 0 THEN 0 ELSE Window]
        /\ orphan' = FALSE
        /\ UNCHANGED failed
     \/ /\ MayFail /\ failed' = TRUE
        /\ orphan' = (orphan \/ redis.ttl = Forever)
        /\ UNCHANGED redis
  /\ UNCHANGED enabled

\* Mutant: the end of a window is missed when the time to live is zero.
OlderMissesZero(entry) ==
  CASE entry.ttl = Forever -> entry
    [] entry.ttl = 1 -> NoKey
    [] OTHER -> [entry EXCEPT !.ttl = @ - 1]

\* A key or a window whose time is over is gone.
Older(entry) ==
  CASE entry.ttl = Forever -> entry
    [] entry.ttl \in {0, 1} -> NoKey
    [] OTHER -> [entry EXCEPT !.ttl = @ - 1]

\* The counter in use as long as no call to Redis fails.
Counter == IF enabled THEN redis ELSE mem

-----------------------------------------------------------------------------
(* The history reaches back as far as a window does.  It is kept until the *)
(* first failure, because nothing is promised of it afterwards.            *)

Never == [age \in 0 .. Window - 1 |-> 0]
Pass == passed' = IF failed' THEN Never ELSE [age \in DOMAIN passed |-> passed[age] + 1]
PassNot == passed' = IF failed' THEN Never ELSE passed
Aged == [age \in DOMAIN passed |-> IF age = 0 THEN 0 ELSE passed[age - 1]]

\* How many passed in a span as long as a window.
PassedInWindow == passed[Window - 1]

-----------------------------------------------------------------------------
(* The steps of both users. *)

Init ==
  /\ enabled \in BOOLEAN
  /\ redis = NoKey /\ mem = NoKey /\ failed = FALSE /\ orphan = FALSE
  /\ pc = [r \in Request |-> "idle"]
  /\ passed = Never

Go(r, step) == pc' = [pc EXCEPT ![r] = step]

ExpireKey(r) ==
  /\ pc[r] = "expire"
  /\ Expire
  /\ Go(r, "idle")
  /\ PassNot
  /\ UNCHANGED mem

Tick ==
  /\ redis' = Older(redis)
  /\ mem' = Older(mem)
  /\ passed' = Aged
  /\ UNCHANGED <<enabled, failed, orphan, pc>>

\* The server stops and starts again, with none of the requests it had.
Restart ==
  /\ MayFail /\ failed' = TRUE
  /\ mem' = NoKey
  /\ orphan' = (orphan \/ \E r \in Request : pc[r] = "expire" /\ redis.ttl = Forever)
  /\ pc' = [r \in Request |-> "idle"]
  /\ PassNot
  /\ UNCHANGED <<enabled, redis>>

-----------------------------------------------------------------------------

TypeOK ==
  /\ enabled \in BOOLEAN
  /\ redis \in Entry /\ mem \in Entry /\ failed \in BOOLEAN /\ orphan \in BOOLEAN
  /\ pc \in [Request -> {"idle", "record", "expire", "reset", "reset memory"}]
  /\ passed \in [0 .. Window - 1 -> Nat]

(* Without its EXPIRE a counter never ends.  INCR and EXPIRE are two calls,  *)
(* but a Redis key that has no lifetime is one that a running request is    *)
(* about to give one, unless the EXPIRE was lost: no order of the requests, *)
(* the end or the deletion of the key or a restart leaves one behind        *)
(* unnoticed.                                                               *)
KeysGetLifetime ==
  redis.ttl = Forever => orphan \/ \E r \in Request : pc[r] = "expire"

=============================================================================
