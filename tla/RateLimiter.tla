----------------------------- MODULE RateLimiter -----------------------------
(***************************************************************************)
(* The limit of requests to /api/ per client address and minute.           *)
(***************************************************************************)
EXTENDS WindowCounter

\* Mutant: the number before the INCR is compared.
AllowRequestLate(r) ==
  /\ pc[r] = "idle"
  /\ Incr
  /\ IF redis.count <= Limit THEN Pass ELSE PassNot
  /\ Go(r, IF redis'.count = 1 THEN "expire" ELSE "idle")
  /\ UNCHANGED mem

\* Mutant: every request sends the EXPIRE, not only the one that made the key.
AllowRequestRenews(r) ==
  /\ pc[r] = "idle"
  /\ Incr
  /\ IF redis'.count <= Limit THEN Pass ELSE PassNot
  /\ Go(r, "expire")
  /\ UNCHANGED mem

\* allowRequest: INCR counts and decides in one call.
AllowRequest(r) ==
  /\ pc[r] = "idle"
  /\ Incr
  /\ IF redis'.count <= Limit THEN Pass ELSE PassNot
  /\ Go(r, IF redis'.count = 1 THEN "expire" ELSE "idle")
  /\ UNCHANGED mem

AllowInMemory(r) ==
  /\ pc[r] = "idle"
  /\ IncrFails
  /\ MemIncr
  /\ IF mem'.count <= Limit THEN Pass ELSE PassNot
  /\ UNCHANGED pc

RateNext ==
  \/ \E r \in Request : AllowRequest(r) \/ AllowInMemory(r) \/ ExpireKey(r)
  \/ Tick
  \/ Restart

RateSpec == Init /\ [][RateNext]_vars

\* Time passes, and a request that has been taken is finished.
RateFairness == WF_vars(Tick) /\ \A r \in Request : WF_vars(ExpireKey(r))
RateFairSpec == RateSpec /\ RateFairness

-----------------------------------------------------------------------------

(* A fixed window lets nearly twice the limit through in any minute: all    *)
(* but the first request of one window and all of the next may fall into    *)
(* it.  Requests that arrive together add nothing to that, with Redis and   *)
(* without.  A call to Redis that fails moves the count to the other        *)
(* counter, a restart clears the memory: of a time with such a failure      *)
(* nothing is said.                                                         *)
RateIsLimited == ~failed => PassedInWindow <= 2 * Limit - 1

Refuses(entry) == entry.count > Limit

(* A refusal is not prolonged by what happens while it lasts: neither by    *)
(* the requests refused meanwhile, nor by the EXPIRE of the one that opened *)
(* the window, whenever it arrives.                                         *)
RefusalIsNotProlonged ==
  [][/\ Refuses(redis) /\ Refuses(redis)' => redis'.ttl <= redis.ttl
     /\ Refuses(mem) /\ Refuses(mem)' => mem'.ttl <= mem.ttl]_<<redis, mem>>

(* An address that is refused is refused for a time only, unless the EXPIRE *)
(* of its key was lost.                                                     *)
RefusalEnds == Refuses(Counter) ~> ~Refuses(Counter) \/ orphan

=============================================================================
