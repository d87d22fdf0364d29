----------------------------- MODULE AdminGuard -----------------------------
(***************************************************************************)
(* The logins to the admin panel and the counter of failed ones: five      *)
(* within fifteen minutes block a client address.  What passes is a wrong  *)
(* password that is compared; a login clears that history.                 *)
(***************************************************************************)
EXTENDS WindowCounter

\* Mutant: one failed login too many is allowed.
AdminAllowedOneMore(key) == (IF key.count > 0 THEN key.count ELSE mem.count) <= Limit

\* adminAllowed: the Redis key if there is one, else the memory.
AdminAllowed(key) == (IF key.count > 0 THEN key.count ELSE mem.count) < Limit

\* The counter is read, then the password is compared.  A request of a blocked
\* address is answered 429 and changes nothing.
Guard(r) ==
  /\ pc[r] = "idle"
  /\ \/ AdminAllowed(redis) /\ UNCHANGED failed
     \/ enabled /\ MayFail /\ AdminAllowed(NoKey) /\ failed' = TRUE
  /\ \/ Go(r, "record") /\ Pass
     \/ Go(r, "reset") /\ PassNot
  /\ UNCHANGED <<enabled, redis, mem, orphan>>

AdminRecordFail(r) ==
  /\ pc[r] = "record"
  /\ Incr
  /\ Go(r, IF redis'.count = 1 THEN "expire" ELSE "idle")
  /\ UNCHANGED <<mem, passed>>

RecordInMemory(r) ==
  /\ pc[r] = "record"
  /\ IncrFails
  /\ MemIncr
  /\ Go(r, "idle")
  /\ PassNot

\* adminResetFail after the right password: Cache.Del, whose error is ignored,
\* then the memory.  The history is cleared with the counter in use.
AdminResetFail(r) ==
  /\ pc[r] = "reset"
  /\ \/ redis' = NoKey /\ orphan' = FALSE /\ UNCHANGED failed
     \/ enabled /\ MayFail /\ failed' = TRUE /\ UNCHANGED <<redis, orphan>>
  /\ passed' = IF enabled THEN Never ELSE passed
  /\ Go(r, "reset memory")
  /\ UNCHANGED <<enabled, mem>>

ResetMemory(r) ==
  /\ pc[r] = "reset memory"
  /\ mem' = NoKey
  /\ passed' = IF enabled THEN passed ELSE Never
  /\ Go(r, "idle")
  /\ UNCHANGED <<enabled, redis, failed, orphan>>

RequestStep(r) ==
  \/ AdminRecordFail(r) \/ RecordInMemory(r) \/ ExpireKey(r)
  \/ AdminResetFail(r) \/ ResetMemory(r)

AdminNext ==
  \/ \E r \in Request : Guard(r) \/ RequestStep(r)
  \/ Tick
  \/ Restart

AdminSpec == Init /\ [][AdminNext]_vars

\* Time passes, and a request that has been taken is finished.
AdminFairness == WF_vars(Tick) /\ \A r \in Request : WF_vars(RequestStep(r))
AdminFairSpec == AdminSpec /\ AdminFairness

-----------------------------------------------------------------------------

(* The counter is read before a password is compared and incremented after  *)
(* it.  Every request the server handles at that time may compare one       *)
(* password over the limit, in each of the two windows that a span of       *)
(* fifteen minutes can touch, and no more, with Redis and without, until a  *)
(* call to Redis fails or the server restarts.                              *)
GuessesAreLimited ==
  ~failed => PassedInWindow <= 2 * (Limit - 1 + Cardinality(Request)) - 1

Blocked == ~AdminAllowed(redis)

(* A block ends with its window, unless the EXPIRE of the key was lost.     *)
BlockEnds == Blocked ~> ~Blocked \/ orphan

=============================================================================
