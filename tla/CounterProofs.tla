---------------------------- MODULE CounterProofs ----------------------------
(***************************************************************************)
(* The rate limiter and the guard of the admin login, for every limit,     *)
(* window and set of requests: type correctness, the lifetime of the key,  *)
(* and how many requests and guesses pass in a span as long as a window.   *)
(***************************************************************************)
EXTENDS RateLimiter, AdminGuard, FiniteSetTheorems, TLAPS

History == [0 .. Window - 1 -> Nat]

\* The two lifetimes, and none.
LEMMA Lifetimes ==
  /\ Window \in Nat /\ Limit \in Nat
  /\ 0 \in 0 .. Forever /\ Window \in 0 .. Forever /\ Forever \in 0 .. Forever
  /\ Forever # 0 /\ Forever # Window
BY WindowAssumption DEF Forever

\* Counting keeps an entry an entry; a new one gets the lifetime asked for.
LEMMA Counts ==
  ASSUME NEW entry \in Entry, NEW ttl \in 0 .. Forever
  PROVE  /\ Incremented(entry, ttl) \in Entry
         /\ Incremented(entry, ttl).count
              = IF entry.count > Limit THEN entry.count ELSE entry.count + 1
         /\ Incremented(entry, ttl).ttl = IF entry.count = 0 THEN ttl ELSE entry.ttl
BY WindowAssumption DEF Incremented, Increased, Entry, Forever

\* A tick keeps an entry an entry: one without a lifetime stays, one whose
\* lifetime is over goes, any other has a tick less.
LEMMA Ages ==
  ASSUME NEW entry \in Entry
  PROVE  /\ Older(entry) \in Entry
         /\ entry.ttl = Forever => Older(entry) = entry
         /\ entry.ttl \in {0, 1} => Older(entry) = NoKey
         /\ entry.ttl \in 2 .. Window =>
              /\ Older(entry).count = entry.count
              /\ Older(entry).ttl = entry.ttl - 1
         /\ Older(entry).ttl = Forever => entry.ttl = Forever
<1>1. CASE entry.ttl = Forever
  BY <1>1, WindowAssumption DEF Older, Forever
<1>2. CASE entry.ttl \in {0, 1}
  <2>1. Older(entry) = NoKey
    BY <1>2, WindowAssumption DEF Older, Forever
  <2> QED
    BY <1>2, <2>1, WindowAssumption DEF NoKey, Entry, Forever
<1>3. CASE entry.ttl # Forever /\ entry.ttl \notin {0, 1}
  <2>1. Older(entry) = [entry EXCEPT !.ttl = @ - 1]
    BY <1>3 DEF Older
  <2>2. entry.ttl \in 2 .. Forever - 1
    BY <1>3, WindowAssumption DEF Entry, Forever
  <2> QED
    BY <2>1, <2>2, WindowAssumption DEF Entry, Forever
<1> QED
  BY <1>1, <1>2, <1>3

\* The histories stay histories.
LEMMA Histories ==
  ASSUME NEW counts \in History
  PROVE  /\ Never \in History
         /\ [age \in DOMAIN counts |-> counts[age] + 1] \in History
<1>1. Never \in History
  BY WindowAssumption DEF Never, History
<1> QED
  BY <1>1 DEF History

LEMMA AgedType == passed \in History => Aged \in History
<1> SUFFICES ASSUME passed \in History, NEW age \in 0 .. Window - 1
             PROVE  (IF age = 0 THEN 0 ELSE passed[age - 1]) \in Nat
  BY DEF Aged, History
<1> QED
  BY WindowAssumption DEF History

LEMMA PassType == passed \in History /\ (Pass \/ PassNot) => passed' \in History
BY Histories DEF Pass, PassNot

LEMMA NoKeyType == NoKey \in Entry
BY WindowAssumption DEF NoKey, Entry, Forever

-----------------------------------------------------------------------------
(* Types. *)

LEMMA InitType == Init => TypeOK
<1> SUFFICES ASSUME Init PROVE TypeOK
  OBVIOUS
<1>1. Never \in [0 .. Window - 1 -> Nat]
  BY WindowAssumption DEF Never
<1> QED
  BY <1>1, NoKeyType DEF Init, TypeOK

LEMMA GoType ==
  ASSUME TypeOK, NEW r \in Request, 
         NEW step \in {"idle", "record", "expire", "reset", "reset memory"}, Go(r, step)
  PROVE  pc' \in [Request -> {"idle", "record", "expire", "reset", "reset memory"}]
BY DEF TypeOK, Go

\* What both users do keeps the types.
LEMMA SharedType ==
  ASSUME TypeOK, (\E r \in Request : ExpireKey(r)) \/ Tick \/ Restart \/ UNCHANGED vars
  PROVE  TypeOK'
<1>1. /\ enabled \in BOOLEAN
      /\ redis \in Entry /\ mem \in Entry /\ failed \in BOOLEAN /\ orphan \in BOOLEAN
      /\ pc \in [Request -> {"idle", "record", "expire", "reset", "reset memory"}]
      /\ passed \in History
  BY DEF TypeOK, History
<1>2. ASSUME NEW r \in Request, ExpireKey(r) PROVE TypeOK'
  <2>1. \A ttl \in {0, Window} : [redis EXCEPT !.ttl = ttl] \in Entry
    BY <1>1, Lifetimes DEF Entry
  <2>2. redis' = redis \/ \E ttl \in {0, Window} : redis' = [redis EXCEPT !.ttl = ttl]
    BY <1>2 DEF ExpireKey, Expire
  <2>3. failed' \in BOOLEAN /\ orphan' \in BOOLEAN
    BY <1>1, <1>2, ZenonT(30) DEF ExpireKey, Expire
  <2>4. pc' \in [Request -> {"idle", "record", "expire", "reset", "reset memory"}]
    BY <1>2, GoType DEF ExpireKey
  <2>5. passed' \in History /\ UNCHANGED <<enabled, mem>>
    BY <1>1, <1>2, PassType DEF ExpireKey, Expire
  <2> QED
    BY <1>1, <2>1, <2>2, <2>3, <2>4, <2>5 DEF TypeOK, History
<1>3. CASE Tick
  BY <1>1, <1>3, Ages, AgedType DEF Tick, TypeOK, History
<1>4. CASE Restart
  <2>1. orphan' \in BOOLEAN /\ failed' \in BOOLEAN
    BY <1>1, <1>4 DEF Restart
  <2> QED
    BY <1>1, <1>4, <2>1, NoKeyType, PassType DEF Restart, TypeOK, History
<1>5. CASE UNCHANGED vars
  BY <1>5 DEF vars, TypeOK
<1> QED
  BY <1>2, <1>3, <1>4, <1>5

\* So does an INCR, whether it returns an error or not.
LEMMA IncrType ==
  ASSUME TypeOK, Incr \/ IncrFails
  PROVE  /\ redis' \in Entry /\ failed' \in BOOLEAN /\ orphan' \in BOOLEAN
         /\ enabled' \in BOOLEAN
<1>1. Incremented(redis, Forever) \in Entry
  BY Counts, Lifetimes DEF TypeOK
<1>2. redis' \in Entry
  BY <1>1 DEF TypeOK, Incr, IncrFails
<1>3. CASE Incr
  BY <1>2, <1>3 DEF TypeOK, Incr
<1>4. CASE IncrFails
  BY <1>2, <1>4, ZenonT(30) DEF TypeOK, IncrFails
<1> QED
  BY <1>3, <1>4

LEMMA MemIncrType == TypeOK /\ MemIncr => mem' \in Entry
BY Counts, Lifetimes DEF TypeOK, MemIncr

LEMMA RateTypeKept ==
  ASSUME TypeOK, [RateNext]_vars
  PROVE  TypeOK'
<1>1. mem \in Entry /\ passed \in History
  BY DEF TypeOK, History
<1>2. ASSUME NEW r \in Request, AllowRequest(r) PROVE TypeOK'
  <2>1. redis' \in Entry /\ failed' \in BOOLEAN /\ orphan' \in BOOLEAN /\ enabled' \in BOOLEAN
    BY <1>2, IncrType DEF AllowRequest
  <2>2. pc' \in [Request -> {"idle", "record", "expire", "reset", "reset memory"}]
    BY <1>2, GoType DEF AllowRequest
  <2>3. passed' \in History /\ UNCHANGED mem
    BY <1>1, <1>2, PassType DEF AllowRequest
  <2> QED
    BY <1>1, <2>1, <2>2, <2>3 DEF TypeOK, History
<1>3. ASSUME NEW r \in Request, AllowInMemory(r) PROVE TypeOK'
  <2>1. redis' \in Entry /\ failed' \in BOOLEAN /\ orphan' \in BOOLEAN /\ enabled' \in BOOLEAN
    BY <1>3, IncrType DEF AllowInMemory
  <2>2. mem' \in Entry /\ UNCHANGED pc
    BY <1>3, MemIncrType DEF AllowInMemory
  <2>3. passed' \in History
    BY <1>1, <1>3, PassType DEF AllowInMemory
  <2> QED
    BY <2>1, <2>2, <2>3 DEF TypeOK, History
<1> QED
  BY <1>2, <1>3, SharedType DEF RateNext

(* The limiter's variables keep their types, whatever fails.                *)
THEOREM RateTypeCorrect == RateSpec => []TypeOK
BY InitType, RateTypeKept, PTL DEF RateSpec

LEMMA AdminTypeKept ==
  ASSUME TypeOK, [AdminNext]_vars
  PROVE  TypeOK'
<1>1. mem \in Entry /\ passed \in History
  BY DEF TypeOK, History
<1>2. ASSUME NEW r \in Request, Guard(r) PROVE TypeOK'
  <2>1. failed' \in BOOLEAN /\ enabled' \in BOOLEAN
    BY <1>2 DEF Guard, TypeOK
  <2>2. pc' \in [Request -> {"idle", "record", "expire", "reset", "reset memory"}]
    BY <1>2, GoType DEF Guard
  <2>3. passed' \in History /\ UNCHANGED <<redis, mem, orphan>>
    BY <1>1, <1>2, PassType DEF Guard
  <2> QED
    BY <1>1, <2>1, <2>2, <2>3 DEF TypeOK, History
<1>3. ASSUME NEW r \in Request, AdminRecordFail(r) \/ RecordInMemory(r) PROVE TypeOK'
  <2>1. redis' \in Entry /\ failed' \in BOOLEAN /\ orphan' \in BOOLEAN /\ enabled' \in BOOLEAN
    BY <1>3, IncrType DEF AdminRecordFail, RecordInMemory
  <2>2. pc' \in [Request -> {"idle", "record", "expire", "reset", "reset memory"}]
    BY <1>3, GoType DEF AdminRecordFail, RecordInMemory
  <2>3. mem' \in Entry /\ passed' \in History
    BY <1>1, <1>3, PassType, MemIncrType DEF AdminRecordFail, RecordInMemory
  <2> QED
    BY <2>1, <2>2, <2>3 DEF TypeOK, History
<1>4. ASSUME NEW r \in Request, AdminResetFail(r) \/ ResetMemory(r) PROVE TypeOK'
  <2>1. pc' \in [Request -> {"idle", "record", "expire", "reset", "reset memory"}]
    BY <1>4, GoType DEF AdminResetFail, ResetMemory
  <2>2. failed' \in BOOLEAN /\ orphan' \in BOOLEAN /\ enabled' \in BOOLEAN
    BY <1>4, ZenonT(30) DEF AdminResetFail, ResetMemory, TypeOK
  <2>3. redis' \in Entry /\ mem' \in Entry /\ passed' \in History
    BY <1>1, <1>4, NoKeyType, Histories DEF AdminResetFail, ResetMemory, TypeOK
  <2> QED
    BY <2>1, <2>2, <2>3 DEF TypeOK, History
<1> QED
  BY <1>2, <1>3, <1>4, SharedType DEF AdminNext, RequestStep

(* The guard's variables keep their types, whatever fails.                  *)
THEOREM AdminTypeCorrect == AdminSpec => []TypeOK
BY InitType, AdminTypeKept, PTL DEF AdminSpec

-----------------------------------------------------------------------------
(* The lifetime of the key.  With the types, KeysGetLifetime is inductive:  *)
(* the step that makes a key also makes its request the one to give it a    *)
(* lifetime.                                                                *)

Promised == orphan \/ \E r \in Request : pc[r] = "expire"

LEMMA InitLifetime == Init => KeysGetLifetime
BY WindowAssumption DEF Init, NoKey, KeysGetLifetime, Forever

LEMMA SharedLifetime ==
  ASSUME TypeOK, KeysGetLifetime,
         (\E r \in Request : ExpireKey(r)) \/ Tick \/ Restart \/ UNCHANGED vars
  PROVE  KeysGetLifetime'
<1> SUFFICES ASSUME redis'.ttl = Forever PROVE Promised'
  BY DEF KeysGetLifetime, Forever, Promised
<1>1. redis \in Entry /\ Window # Forever /\ Forever # 0
  BY Lifetimes DEF TypeOK
<1>2. redis.ttl = Forever => Promised
  BY DEF KeysGetLifetime, Promised
<1>3. ASSUME NEW r \in Request, ExpireKey(r) PROVE Promised'
  BY <1>1, <1>3 DEF ExpireKey, Expire, Entry, Promised
<1>4. CASE Tick
  BY <1>1, <1>2, <1>4, Ages DEF Tick, Promised
<1>5. CASE Restart
  BY <1>2, <1>5 DEF Restart, Promised
<1>6. CASE UNCHANGED vars
  BY <1>2, <1>6 DEF vars, Promised
<1> QED
  BY <1>3, <1>4, <1>5, <1>6

\* A call of Cache.Incr: its own EXPIRE comes next if its INCR made the key.
LEMMA IncrLifetime ==
  ASSUME TypeOK, KeysGetLifetime, NEW r \in Request, pc[r] # "expire",
         \/ Incr /\ Go(r, IF redis'.count = 1 THEN "expire" ELSE "idle")
         \/ IncrFails /\ (UNCHANGED pc \/ Go(r, "idle"))
  PROVE  KeysGetLifetime'
<1> SUFFICES ASSUME redis'.ttl = Forever PROVE Promised'
  BY DEF KeysGetLifetime, Forever, Promised
<1>1. /\ redis \in Entry /\ Forever \in 0 .. Forever
      /\ pc \in [Request -> {"idle", "record", "expire", "reset", "reset memory"}]
  BY Lifetimes DEF TypeOK
<1>2. redis.ttl = Forever => Promised
  BY DEF KeysGetLifetime, Promised
<1>3. ASSUME NEW q \in Request, pc[q] = "expire", UNCHANGED pc \/ \E step : Go(r, step)
      PROVE  pc'[q] = "expire"
  BY <1>1, <1>3 DEF Go
<1>4. /\ Incremented(redis, Forever).count
           = IF redis.count > Limit THEN redis.count ELSE redis.count + 1
      /\ Incremented(redis, Forever).ttl = IF redis.count = 0 THEN Forever ELSE redis.ttl
  BY <1>1, Counts
<1>5. CASE Incr /\ Go(r, IF redis'.count = 1 THEN "expire" ELSE "idle")
  <2>1. CASE redis.count = 0
    <3>1. redis'.count = 1
      BY <1>5, <1>4, <2>1, WindowAssumption DEF Incr
    <3> QED
      BY <1>1, <1>5, <3>1 DEF Go, Promised
  <2>2. CASE redis.count # 0
    <3>1. redis.ttl = Forever
      BY <1>5, <1>4, <2>2 DEF Incr
    <3> QED
      BY <1>2, <1>3, <1>5, <3>1 DEF Incr, Promised
  <2> QED
    BY <2>1, <2>2
<1>6. CASE IncrFails /\ (UNCHANGED pc \/ Go(r, "idle"))
  <2>1. orphan' \/ redis.ttl = Forever
    BY <1>6, <1>4 DEF IncrFails
  <2>2. orphan => orphan'
    BY <1>6 DEF IncrFails
  <2> QED
    BY <1>2, <1>3, <1>6, <2>1, <2>2 DEF Promised
<1> QED
  BY <1>5, <1>6

LEMMA RateLifetimeKept ==
  ASSUME TypeOK, KeysGetLifetime, [RateNext]_vars
  PROVE  KeysGetLifetime'
<1>1. ASSUME NEW r \in Request, AllowRequest(r) \/ AllowInMemory(r) PROVE KeysGetLifetime'
  BY <1>1, IncrLifetime DEF AllowRequest, AllowInMemory
<1> QED
  BY <1>1, SharedLifetime DEF RateNext

(* No key of the limiter is left without a lifetime unless its EXPIRE was   *)
(* lost.                                                                    *)
THEOREM RateLifetimeCorrect == RateSpec => []KeysGetLifetime
BY InitLifetime, RateLifetimeKept, RateTypeCorrect, PTL DEF RateSpec

LEMMA AdminLifetimeKept ==
  ASSUME TypeOK, KeysGetLifetime, [AdminNext]_vars
  PROVE  KeysGetLifetime'
<1>1. ASSUME NEW r \in Request, AdminRecordFail(r) \/ RecordInMemory(r)
      PROVE  KeysGetLifetime'
  BY <1>1, IncrLifetime DEF AdminRecordFail, RecordInMemory
<1>2. ASSUME NEW r \in Request, Guard(r) \/ AdminResetFail(r) \/ ResetMemory(r)
      PROVE  KeysGetLifetime'
  <2> SUFFICES ASSUME redis'.ttl = Forever PROVE Promised'
    BY DEF KeysGetLifetime, Forever, Promised
  <2>1. redis' = redis /\ orphan' = orphan
    <3>1. NoKey.ttl # Forever
      BY Lifetimes DEF NoKey
    <3> QED
      BY <1>2, <3>1 DEF Guard, AdminResetFail, ResetMemory
  <2>2. ASSUME NEW q \in Request, pc[q] = "expire" PROVE pc'[q] = "expire"
    BY <1>2, <2>2 DEF Guard, AdminResetFail, ResetMemory, Go, TypeOK
  <2> QED
    BY <2>1, <2>2 DEF KeysGetLifetime, Promised
<1> QED
  BY <1>1, <1>2, SharedLifetime DEF AdminNext, RequestStep

(* Nor is one of the admin guard, although a login may delete the key while *)
(* another request is between its INCR and its EXPIRE.                      *)
THEOREM AdminLifetimeCorrect == AdminSpec => []KeysGetLifetime
BY InitLifetime, AdminLifetimeKept, AdminTypeCorrect, PTL DEF AdminSpec

-----------------------------------------------------------------------------
(* How long a refusal lasts.  Of the limiter, which deletes no key, at most *)
(* one request is about to send EXPIRE, and its key still has no lifetime.  *)

Opening ==
  \A r \in Request : pc[r] = "expire" =>
    /\ redis.count # 0 /\ redis.ttl = Forever
    /\ \A s \in Request : pc[s] = "expire" => s = r

LEMMA OpeningIncr ==
  ASSUME TypeOK, Opening, NEW r \in Request, pc[r] = "idle",
         \/ Incr /\ Go(r, IF redis'.count = 1 THEN "expire" ELSE "idle")
         \/ IncrFails /\ UNCHANGED pc
  PROVE  Opening'
<1>1. /\ redis \in Entry /\ redis.count \in Nat /\ Limit \in Nat \ {0}
      /\ pc \in [Request -> {"idle", "record", "expire", "reset", "reset memory"}]
  <2>1. redis \in Entry /\ Limit \in Nat \ {0}
    BY WindowAssumption DEF TypeOK
  <2>2. redis.count \in Nat
    BY <2>1 DEF Entry
  <2> QED BY <2>1, <2>2 DEF TypeOK
<1>2. redis' = redis \/ redis' = Incremented(redis, Forever)
  BY DEF Incr, IncrFails
<1>3. /\ Incremented(redis, Forever).count
           = IF redis.count > Limit THEN redis.count ELSE redis.count + 1
      /\ Incremented(redis, Forever).ttl = IF redis.count = 0 THEN Forever ELSE redis.ttl
  BY <1>1, Counts, Lifetimes
<1>4. redis.count # 0 => /\ redis'.ttl = redis.ttl
                         /\ redis'.count # 0 /\ (Incr => redis'.count # 1)
  <2> DEFINE counted == Incremented(redis, Forever)
  <2>1. Incr => redis' = counted
    BY DEF Incr
  <2> HIDE DEF counted
  <2>2. redis.count # 0 => counted.count # 1 /\ counted.count # 0 /\ counted.ttl = redis.ttl
    <3>1. redis.count \in Nat /\ Limit \in Nat \ {0}
      BY <1>1
    <3> QED BY <1>3, <3>1 DEF counted
  <2> QED BY <1>1, <1>2, <2>1, <2>2 DEF counted
<1>5. \A s \in Request : s # r => pc'[s] = pc[s]
  BY <1>1 DEF Go
<1>6. CASE redis.count # 0
  <2>1. pc'[r] # "expire"
    BY <1>1, <1>4, <1>6 DEF Go
  <2> QED BY <1>4, <1>5, <1>6, <2>1 DEF Opening, Forever
<1>7. CASE redis.count = 0
  <2>1. \A s \in Request : pc'[s] = "expire" => s = r
    BY <1>5, <1>7 DEF Opening
  <2>2. ASSUME pc'[r] = "expire"
        PROVE  redis'.count # 0 /\ redis'.ttl = Forever
    <3>1. Incr
      BY <1>1, <2>2
    <3>2. redis' = Incremented(redis, Forever)
      BY <3>1 DEF Incr
    <3>3. redis.count \in Nat /\ Limit \in Nat \ {0}
      BY <1>1
    <3> QED BY <1>3, <1>7, <3>2, <3>3
  <2> QED BY <2>1, <2>2 DEF Opening, Forever
<1> QED BY <1>6, <1>7

LEMMA OpeningKept ==
  ASSUME TypeOK, Opening, [RateNext]_vars
  PROVE  Opening'
<1>1. redis \in Entry
      /\ pc \in [Request -> {"idle", "record", "expire", "reset", "reset memory"}]
  BY DEF TypeOK
<1>2. ASSUME NEW r \in Request, AllowRequest(r) \/ AllowInMemory(r) PROVE Opening'
  BY <1>2, OpeningIncr DEF AllowRequest, AllowInMemory
<1>3. ASSUME NEW r \in Request, ExpireKey(r) PROVE Opening'
  <2>1. \A s \in Request : pc'[s] # "expire"
    BY <1>1, <1>3 DEF ExpireKey, Go, Opening
  <2> QED BY <2>1 DEF Opening
<1>4. CASE Tick
  BY <1>1, <1>4, Ages DEF Tick, Opening, Forever
<1>5. CASE Restart
  BY <1>5 DEF Restart, Opening
<1>6. CASE UNCHANGED vars
  BY <1>6 DEF vars, Opening, Forever
<1> QED BY <1>2, <1>3, <1>4, <1>5, <1>6 DEF RateNext

\* A tick shortens every lifetime but the endless one.
LEMMA Shortens ==
  ASSUME NEW entry \in Entry, Refuses(Older(entry))
  PROVE  Older(entry).ttl <= entry.ttl
<1>1. entry.ttl \in 0 .. Window + 1 /\ Window \in Nat \ {0} /\ Limit \in Nat
  BY WindowAssumption DEF Entry, Forever
<1>2. CASE entry.ttl = Forever
  BY <1>1, <1>2, Ages
<1>3. CASE entry.ttl \in {0, 1}
  BY <1>1, <1>3, Ages DEF Refuses, NoKey
<1>4. CASE entry.ttl \in 2 .. Window
  BY <1>1, <1>4, Ages
<1> QED BY <1>1, <1>2, <1>3, <1>4 DEF Forever

\* A count adds nothing to the lifetime.
LEMMA CountsOnly ==
  ASSUME NEW entry \in Entry, NEW ttl \in 0 .. Forever, Refuses(entry)
  PROVE  Incremented(entry, ttl).ttl <= entry.ttl
<1>1. entry.ttl \in 0 .. Window + 1 /\ Window \in Nat /\ entry.count > Limit /\ Limit \in Nat
  BY WindowAssumption DEF Entry, Forever, Refuses
<1> QED BY <1>1, Counts

LEMMA NotProlonged ==
  ASSUME TypeOK, Opening, [RateNext]_vars
  PROVE  /\ Refuses(redis) /\ Refuses(redis)' => redis'.ttl <= redis.ttl
         /\ Refuses(mem) /\ Refuses(mem)' => mem'.ttl <= mem.ttl
<1>1. redis \in Entry /\ mem \in Entry
  BY DEF TypeOK
<1>2. redis.ttl <= redis.ttl /\ mem.ttl <= mem.ttl
      /\ redis.ttl \in 0 .. Window + 1 /\ Window \in Nat \ {0} /\ Limit \in Nat
  BY <1>1, WindowAssumption DEF Entry, Forever
<1>3. ASSUME NEW r \in Request, AllowRequest(r) \/ AllowInMemory(r)
      PROVE  /\ Refuses(redis) => redis'.ttl <= redis.ttl
             /\ Refuses(mem) => mem'.ttl <= mem.ttl
  <2>1. redis' = redis \/ redis' = Incremented(redis, Forever)
    BY <1>3 DEF AllowRequest, AllowInMemory, Incr, IncrFails
  <2>2. mem' = mem \/ mem' = Incremented(mem, Window)
    BY <1>3 DEF AllowRequest, AllowInMemory, MemIncr
  <2> QED BY <1>1, <1>2, <2>1, <2>2, CountsOnly, Lifetimes
<1>4. ASSUME NEW r \in Request, ExpireKey(r)
      PROVE  redis'.ttl <= redis.ttl /\ mem' = mem
  <2>1. redis.ttl = Forever /\ redis.count # 0
    BY <1>4 DEF ExpireKey, Opening
  <2>2. redis' = redis \/ redis'.ttl = Window \/ redis'.ttl = 0
    BY <1>1, <1>4 DEF ExpireKey, Expire, Entry
  <2> QED BY <1>2, <1>4, <2>1, <2>2 DEF ExpireKey, Forever
<1>5. CASE Tick
  BY <1>1, <1>5, Shortens DEF Tick, Refuses
<1>6. CASE Restart
  BY <1>2, <1>6 DEF Restart, Refuses, NoKey
<1>7. CASE UNCHANGED vars
  BY <1>2, <1>7 DEF vars
<1> QED BY <1>2, <1>3, <1>4, <1>5, <1>6, <1>7 DEF RateNext

(* While it refuses, neither counter of the limiter gets a longer life.     *)
THEOREM RefusalCorrect == RateSpec => RefusalIsNotProlonged
<1>1. Init => Opening
  BY DEF Init, Opening
<1>2. TypeOK /\ Opening /\ [RateNext]_vars =>
        [/\ Refuses(redis) /\ Refuses(redis)' => redis'.ttl <= redis.ttl
         /\ Refuses(mem) /\ Refuses(mem)' => mem'.ttl <= mem.ttl]_<<redis, mem>>
  BY NotProlonged
<1> QED
  BY <1>1, <1>2, OpeningKept, RateTypeCorrect, PTL DEF RateSpec, RefusalIsNotProlonged

-----------------------------------------------------------------------------
(* How many pass.  A key gives the requests that pass while it lives a      *)
(* weight, no less than their number, and no more than a base more may have *)
(* passed in a span that began before it.  The first bound alone is not     *)
(* inductive: when the key dies those of the former window are forgotten,   *)
(* and the second says that they are out of the span by then.               *)

Bounded(key, counts, base, weight) ==
  /\ key.count = 0 <=> key.ttl = 0
  /\ \A age \in 1 .. Window - 1 : counts[age - 1] <= counts[age]
  /\ counts[Window - 1] <= base + weight
  /\ key.ttl \in 1 .. Window - 1 => counts[Window - key.ttl - 1] + 1 <= weight

LEMMA Ageing ==
  ASSUME passed \in History
  PROVE  /\ Aged \in History
         /\ Aged[0] = 0
         /\ \A age \in 1 .. Window - 1 : Aged[age] = passed[age - 1]
BY AgedType, WindowAssumption DEF Aged, History

\* Time passes: the weight stays, or becomes that of no key.
LEMMA BoundedAges ==
  ASSUME TypeOK, passed' = Aged, NEW key \in Entry, NEW next, next = Older(key),
         NEW base \in Nat, NEW weight \in Nat, NEW fresh \in Nat,
         Bounded(key, passed, base, weight),
         weight <= base + fresh + 1,
         IF key.count = 0 THEN weight = fresh ELSE weight >= 1
  PROVE  Bounded(next, passed', base, IF next.count = 0 THEN fresh ELSE weight)
<1>1. /\ key.ttl \in 0 .. Window + 1 /\ key.count \in Nat
      /\ passed \in History /\ passed' \in History /\ passed'[0] = 0
      /\ \A age \in 1 .. Window - 1 : passed'[age] = passed[age - 1]
      /\ next = Older(key) /\ key \in Entry
  <2>1. passed \in History
    BY DEF TypeOK, History
  <2>2. key.ttl \in 0 .. Window + 1 /\ key.count \in Nat
    BY DEF Entry, Forever
  <2> QED
    BY <2>1, <2>2, Ageing
<1>2. Window \in Nat /\ Window >= 1
  BY WindowAssumption
<1>3. \A age \in 0 .. Window - 1 : passed[age] \in Nat /\ passed'[age] \in Nat
  BY <1>1 DEF History
<1>4. \A age \in 1 .. Window - 1 : passed[age - 1] <= passed[age]
  BY DEF Bounded
<1>5. \A age \in 1 .. Window - 1 : passed'[age - 1] <= passed'[age]
  <2> SUFFICES ASSUME NEW age \in 1 .. Window - 1 PROVE passed'[age - 1] <= passed'[age]
    OBVIOUS
  <2>1. CASE age = 1
    BY <1>1, <1>2, <1>3, <2>1
  <2>2. CASE age # 1
    <3>1. age - 1 \in 1 .. Window - 1
      BY <1>2, <2>2
    <3> QED
      BY <1>1, <1>4, <3>1
  <2> QED
    BY <2>1, <2>2
<1>6. passed'[Window - 1] <= passed[Window - 1]
  <2>1. CASE Window = 1
    BY <1>1, <1>3, <2>1
  <2>2. CASE Window # 1
    BY <1>1, <1>2, <1>4, <2>2
  <2> QED
    BY <2>1, <2>2
<1>7. passed[Window - 1] <= base + weight
  BY DEF Bounded
<1>8. passed[Window - 1] \in Nat /\ passed'[Window - 1] \in Nat
  BY <1>2, <1>3
<1>9. CASE key.count = 0
  <2>1. key.ttl = 0
    BY <1>9 DEF Bounded
  <2>2. next = NoKey
    BY <1>1, <2>1, Ages
  <2> QED
    BY <1>5, <1>6, <1>7, <1>8, <1>9, <2>2 DEF Bounded, NoKey
<1>10. CASE key.count # 0 /\ key.ttl = Window + 1
  <2>1. next = key
    BY <1>1, <1>10, Ages DEF Forever
  <2> QED
    BY <1>2, <1>5, <1>6, <1>7, <1>8, <1>10, <2>1 DEF Bounded
<1>11. CASE key.ttl = 1
  <2>1. next = NoKey
    BY <1>1, <1>11, Ages
  <2>2. passed'[Window - 1] <= base + fresh
    <3>1. CASE Window = 1
      BY <1>1, <3>1
    <3>2. CASE Window # 1
      <4>1. passed[Window - 2] + 1 <= weight
        BY <1>2, <1>11, <3>2 DEF Bounded
      <4>2. passed'[Window - 1] = passed[Window - 2]
        BY <1>1, <1>2, <3>2
      <4> QED
        BY <1>8, <4>1, <4>2
    <3> QED
      BY <3>1, <3>2
  <2> QED
    BY <1>5, <2>1, <2>2 DEF Bounded, NoKey
<1>12. CASE key.count # 0 /\ key.ttl \in 2 .. Window
  <2>1. next.count = key.count /\ next.ttl = key.ttl - 1
    BY <1>1, <1>12, Ages
  <2>2. passed'[Window - next.ttl - 1] + 1 <= weight
    <3>1. CASE key.ttl = Window
      BY <1>1, <1>2, <1>12, <2>1, <3>1
    <3>2. CASE key.ttl # Window
      <4>1. passed[Window - key.ttl - 1] + 1 <= weight
        BY <1>2, <1>12, <3>2 DEF Bounded
      <4>2. Window - next.ttl - 1 = Window - key.ttl
        BY <1>1, <1>2, <2>1
      <4>3. Window - key.ttl \in 1 .. Window - 1
        BY <1>1, <1>2, <1>12, <3>2
      <4> QED
        BY <1>1, <4>1, <4>2, <4>3
    <3> QED
      BY <3>1, <3>2
  <2> QED
    BY <1>1, <1>2, <1>5, <1>6, <1>7, <1>8, <1>12, <2>1, <2>2 DEF Bounded
<1> QED
  BY <1>1, <1>2, <1>9, <1>10, <1>11, <1>12 DEF Bounded

\* A key is given its lifetime, or its number increases: the history stays, and
\* the weight does not fall.
LEMMA BoundedStays ==
  ASSUME TypeOK, NEW key \in Entry, NEW next \in Entry,
         NEW base \in Nat, NEW weight \in Nat, NEW more \in Nat,
         Bounded(key, passed, base, weight), weight <= more,
         passed' = passed,
         next.count = 0 <=> next.ttl = 0,
         next.ttl \in {0, key.ttl, Window, Forever}
  PROVE  Bounded(next, passed', base, more)
<1>1. Window \in Nat /\ Window >= 1
  BY WindowAssumption
<1>2. \A age \in 0 .. Window - 1 : passed[age] \in Nat
  BY DEF TypeOK
<1>3. passed[Window - 1] <= base + more
  BY <1>1, <1>2 DEF Bounded
<1>4. next.ttl \in 1 .. Window - 1 => passed[Window - next.ttl - 1] + 1 <= more
  <2> SUFFICES ASSUME next.ttl \in 1 .. Window - 1
               PROVE  passed[Window - next.ttl - 1] + 1 <= more
    OBVIOUS
  <2>1. next.ttl = key.ttl
    BY <1>1 DEF Forever
  <2>2. passed[Window - key.ttl - 1] + 1 <= weight
    BY <2>1 DEF Bounded
  <2>3. passed[Window - key.ttl - 1] \in Nat
    BY <1>1, <1>2, <2>1
  <2> QED
    BY <2>1, <2>2, <2>3
<1> QED
  BY <1>3, <1>4 DEF Bounded

\* One more passes, and the weight has increased with it.
LEMMA BoundedPasses ==
  ASSUME TypeOK, NEW key \in Entry, NEW next \in Entry,
         NEW base \in Nat, NEW weight \in Nat,
         Bounded(key, passed, base, weight),
         Pass, ~failed',
         next.count = 0 <=> next.ttl = 0,
         next.ttl \in {key.ttl, Window, Forever}
  PROVE  Bounded(next, passed', base, weight + 1)
<1>1. Window \in Nat /\ Window >= 1
  BY WindowAssumption
<1>2. \A age \in 0 .. Window - 1 : passed[age] \in Nat /\ passed'[age] = passed[age] + 1
  BY DEF TypeOK, Pass
<1>3. \A age \in 1 .. Window - 1 : passed'[age - 1] <= passed'[age]
  <2> SUFFICES ASSUME NEW age \in 1 .. Window - 1 PROVE passed'[age - 1] <= passed'[age]
    OBVIOUS
  <2>1. age \in 0 .. Window - 1 /\ age - 1 \in 0 .. Window - 1
    BY <1>1
  <2>2. passed[age - 1] <= passed[age]
    BY DEF Bounded
  <2> QED
    BY <1>2, <2>1, <2>2
<1>4. passed'[Window - 1] <= base + (weight + 1)
  <2>1. passed[Window - 1] <= base + weight
    BY DEF Bounded
  <2> QED
    BY <1>1, <1>2, <2>1
<1>5. next.ttl \in 1 .. Window - 1 => passed'[Window - next.ttl - 1] + 1 <= weight + 1
  <2> SUFFICES ASSUME next.ttl \in 1 .. Window - 1
               PROVE  passed'[Window - next.ttl - 1] + 1 <= weight + 1
    OBVIOUS
  <2>1. next.ttl = key.ttl
    BY <1>1 DEF Forever
  <2>2. passed[Window - key.ttl - 1] + 1 <= weight
    BY <2>1 DEF Bounded
  <2>3. Window - key.ttl - 1 \in 0 .. Window - 1
    BY <1>1, <2>1
  <2> QED
    BY <1>2, <2>1, <2>2, <2>3
<1> QED
  BY <1>3, <1>4, <1>5 DEF Bounded

-----------------------------------------------------------------------------
(* The rate limiter: what passes is what was counted up to the limit.       *)

\* The counter that is not in use.
Spare == IF enabled THEN mem ELSE redis

RateWeight(key) == IF key.count < Limit THEN key.count ELSE Limit

RateInv ==
  ~failed => Spare = NoKey /\ Bounded(Counter, passed, Limit - 1, RateWeight(Counter))

\* The counter in use has a number as long as it has a lifetime.
Alive == Spare = NoKey /\ (Counter.count = 0 <=> Counter.ttl = 0)

LEMMA NothingPassed ==
  /\ Never \in History
  /\ \A base, weight \in Nat : Bounded(NoKey, Never, base, weight)
<1>1. \A age \in 0 .. Window - 1 : Never[age] = 0
  BY DEF Never
<1>2. Never[Window - 1] = 0
  BY <1>1, WindowAssumption
<1>3. \A age \in 1 .. Window - 1 : Never[age - 1] = 0 /\ Never[age] = 0
  BY <1>1, WindowAssumption
<1> QED
  BY <1>2, <1>3, WindowAssumption DEF Bounded, NoKey, Never, History

LEMMA RateWeights ==
  ASSUME NEW key \in Entry
  PROVE  /\ RateWeight(key) \in 0 .. Limit
         /\ key.count = 0 => RateWeight(key) = 0
         /\ key.count # 0 => RateWeight(key) >= 1
BY WindowAssumption DEF RateWeight, Entry

LEMMA CounterType ==
  /\ TypeOK => Counter \in Entry
  /\ TypeOK' => Counter' \in Entry
BY DEF TypeOK, Counter

\* A key that is given its lifetime has the number and the lifetime of a key.
LEMMA ExpireGives ==
  ASSUME TypeOK, Alive, Expire, UNCHANGED mem
  PROVE  /\ Spare' = NoKey
         /\ Counter'.count = Counter.count
         /\ Counter'.count = 0 <=> Counter'.ttl = 0
         /\ Counter'.ttl \in {0, Counter.ttl, Window, Forever}
<1>1. /\ redis' = redis \/ redis' = [redis EXCEPT !.ttl = IF redis.count = 0 THEN 0 ELSE Window]
      /\ UNCHANGED enabled
  BY DEF Expire
<1>2. CASE enabled
  BY <1>1, <1>2, WindowAssumption DEF TypeOK, Entry, Counter, Spare, Alive
<1>3. CASE ~enabled
  <2>1. redis = NoKey
    BY <1>3 DEF Alive, Spare
  <2>2. redis' = NoKey
    BY <1>1, <2>1 DEF NoKey
  <2> QED
    BY <1>1, <1>3, <2>2 DEF Counter, Spare, Alive
<1> QED
  BY <1>2, <1>3

\* A call of Cache.Incr, and the counting in memory when it gives no number.
Counted == (Incr /\ UNCHANGED mem) \/ (IncrFails /\ MemIncr)

\* So has one whose number increases, in Redis or in the memory.
LEMMA IncrGives ==
  ASSUME TypeOK, Alive, ~failed', Counted
  PROVE  /\ ~failed /\ Spare' = NoKey
         /\ Counter'.count
              = IF Counter.count > Limit THEN Counter.count ELSE Counter.count + 1
         /\ Counter'.count = 0 <=> Counter'.ttl = 0
         /\ Counter'.ttl \in {Counter.ttl, Window, Forever}
<1>0. redis \in Entry /\ mem \in Entry
  BY DEF TypeOK
<1>1. CASE Incr /\ UNCHANGED mem
  <2>1. /\ enabled /\ enabled' /\ ~failed
        /\ redis' = Incremented(redis, Forever) /\ mem' = mem
    BY <1>1 DEF Incr
  <2>2. /\ redis'.count = IF redis.count > Limit THEN redis.count ELSE redis.count + 1
        /\ redis'.ttl = IF redis.count = 0 THEN Forever ELSE redis.ttl
    BY <1>0, <2>1, Counts, Lifetimes
  <2>3. redis.count \in Nat
    BY <1>0, Lifetimes DEF Entry
  <2> QED
    BY <2>1, <2>2, <2>3, Lifetimes DEF Counter, Spare, Alive
<1>2. CASE IncrFails /\ MemIncr
  <2>1. /\ ~enabled /\ ~enabled' /\ ~failed /\ redis' = redis
        /\ mem' = Incremented(mem, Window)
    <3>1. ~enabled
      BY <1>2, ZenonT(30) DEF IncrFails
    <3>2. UNCHANGED <<enabled, redis, failed>>
      BY <1>2, <3>1 DEF IncrFails
    <3> QED
      BY <1>2, <3>1, <3>2 DEF MemIncr
  <2>2. /\ mem'.count = IF mem.count > Limit THEN mem.count ELSE mem.count + 1
        /\ mem'.ttl = IF mem.count = 0 THEN Window ELSE mem.ttl
    BY <1>0, <2>1, Counts, Lifetimes
  <2>3. mem.count \in Nat
    BY <1>0, Lifetimes DEF Entry
  <2> QED
    BY <2>1, <2>2, <2>3, WindowAssumption DEF Counter, Spare, Alive
<1> QED
  BY <1>1, <1>2 DEF Counted

\* Time passes: the counter grows older, and the other one stays away.
LEMMA TickGives ==
  ASSUME Alive, Tick
  PROVE  /\ Spare' = NoKey /\ Counter' = Older(Counter)
         /\ UNCHANGED failed /\ passed' = Aged
BY Ages, NoKeyType DEF Tick, Counter, Spare, Alive, NoKey

LEMMA RateStep ==
  ASSUME TypeOK, TypeOK', RateInv, [RateNext]_vars
  PROVE  RateInv'
<1> DEFINE weight == RateWeight(Counter)
           Goal == Spare' = NoKey /\ Bounded(Counter', passed', Limit - 1, RateWeight(Counter'))
<1> SUFFICES ASSUME ~failed' PROVE Goal
  BY DEF RateInv
<1>1. /\ Counter \in Entry /\ Counter' \in Entry
      /\ Limit \in Nat /\ Limit >= 1 /\ Limit - 1 \in Nat
  BY CounterType, WindowAssumption
<1>2. Counter.count \in 0 .. Limit + 1
  BY <1>1 DEF Entry
<1>3. weight \in Nat /\ weight <= Limit
  BY <1>1, RateWeights
<1>4. ~failed => Alive /\ Bounded(Counter, passed, Limit - 1, weight)
  BY DEF RateInv, Bounded, Alive
<1>5. ASSUME NEW r \in Request, AllowRequest(r) \/ AllowInMemory(r) PROVE Goal
  <2>0. ~failed
    BY <1>5, Zenon DEF AllowRequest, AllowInMemory, Incr, IncrFails
  <2>1. Counted /\ IF Counter'.count <= Limit THEN Pass ELSE PassNot
    <3>1. CASE AllowRequest(r)
      <4>1. Incr /\ UNCHANGED mem /\ enabled'
        BY <3>1 DEF AllowRequest, Incr
      <4> QED
        BY <3>1, <4>1 DEF AllowRequest, Counted, Counter
    <3>2. CASE AllowInMemory(r)
      <4>1. IncrFails /\ MemIncr
        BY <3>2 DEF AllowInMemory
      <4>2. ~enabled'
        BY <4>1, Zenon DEF IncrFails
      <4> QED
        BY <3>2, <4>1, <4>2 DEF AllowInMemory, Counted, Counter
    <3> QED
      BY <1>5, <3>1, <3>2
  <2>2. /\ Spare' = NoKey
        /\ Counter'.count
             = IF Counter.count > Limit THEN Counter.count ELSE Counter.count + 1
        /\ Counter'.count = 0 <=> Counter'.ttl = 0
        /\ Counter'.ttl \in {Counter.ttl, Window, Forever}
    BY <1>4, <2>0, <2>1, IncrGives
  <2>3. CASE Counter'.count <= Limit
    <3>1. RateWeight(Counter') = weight + 1
      BY <1>1, <1>2, <2>2, <2>3 DEF RateWeight
    <3> QED
      BY <1>1, <1>3, <1>4, <2>0, <2>1, <2>2, <2>3, <3>1, BoundedPasses
  <2>4. CASE ~(Counter'.count <= Limit)
    <3>1. weight <= RateWeight(Counter') /\ RateWeight(Counter') \in Nat
      BY <1>1, <1>2, <2>2, <2>4 DEF RateWeight
    <3>2. passed' = passed
      BY <2>1, <2>4 DEF PassNot
    <3> QED
      BY <1>1, <1>3, <1>4, <2>0, <2>2, <3>1, <3>2, BoundedStays
  <2> QED
    BY <2>3, <2>4
<1>6. ASSUME NEW r \in Request, ExpireKey(r) PROVE Goal
  <2>1. ~failed /\ UNCHANGED mem /\ Expire /\ passed' = passed
    BY <1>6 DEF ExpireKey, Expire, PassNot
  <2>2. /\ Spare' = NoKey
        /\ Counter'.count = Counter.count
        /\ Counter'.count = 0 <=> Counter'.ttl = 0
        /\ Counter'.ttl \in {0, Counter.ttl, Window, Forever}
    BY <1>4, <2>1, ExpireGives
  <2>3. RateWeight(Counter') = weight
    BY <2>2 DEF RateWeight
  <2> QED
    BY <1>1, <1>3, <1>4, <2>1, <2>2, <2>3, BoundedStays
<1>7. CASE Tick
  <2>1. ~failed /\ Spare' = NoKey /\ Counter' = Older(Counter) /\ passed' = Aged
    BY <1>4, <1>7, TickGives DEF Tick
  <2>2. IF Counter.count = 0 THEN weight = 0 ELSE weight >= 1
    BY <1>1, RateWeights
  <2>3. Bounded(Counter', passed', Limit - 1, IF Counter'.count = 0 THEN 0 ELSE weight)
    BY <1>1, <1>3, <1>4, <2>1, <2>2, BoundedAges
  <2>4. Counter'.count # 0 => Counter'.count = Counter.count
    BY <1>1, <2>1, Ages, WindowAssumption DEF Entry, NoKey, Forever
  <2>5. RateWeight(Counter') = IF Counter'.count = 0 THEN 0 ELSE weight
    BY <1>1, <2>4, RateWeights DEF RateWeight
  <2> QED
    BY <2>1, <2>3, <2>5
<1>8. CASE Restart
  BY <1>8 DEF Restart
<1>9. CASE UNCHANGED vars
  BY <1>4, <1>9 DEF vars, Counter, Spare, Alive
<1> QED
  BY <1>5, <1>6, <1>7, <1>8, <1>9 DEF RateNext

LEMMA RateInit == Init => RateInv
<1> SUFFICES ASSUME Init PROVE RateInv
  OBVIOUS
<1>1. Counter = NoKey /\ Spare = NoKey /\ passed = Never
  BY DEF Init, Counter, Spare
<1>2. RateWeight(NoKey) \in Nat /\ Limit - 1 \in Nat
  BY RateWeights, NoKeyType, WindowAssumption
<1> QED
  BY <1>1, <1>2, NothingPassed DEF RateInv

LEMMA RateLimits == TypeOK /\ RateInv => RateIsLimited
<1> SUFFICES ASSUME TypeOK, RateInv, ~failed PROVE passed[Window - 1] <= 2 * Limit - 1
  BY DEF RateIsLimited, PassedInWindow
<1>1. passed[Window - 1] <= Limit - 1 + RateWeight(Counter) /\ passed[Window - 1] \in Nat
  <2>1. passed \in History
    BY DEF TypeOK, History
  <2>2. passed[Window - 1] \in Nat
    BY <2>1, WindowAssumption DEF History
  <2> QED
    BY <2>2 DEF RateInv, Bounded
<1>2. RateWeight(Counter) \in Nat /\ RateWeight(Counter) <= Limit
  BY CounterType, RateWeights, WindowAssumption
<1> QED
  BY <1>1, <1>2, WindowAssumption

(* However the requests overlap, with Redis or without, no span as long as  *)
(* the window sees twice the limit pass, as long as no call to Redis has    *)
(* failed and the server has not restarted.                                 *)
THEOREM RateCorrect == RateSpec => []RateIsLimited
BY RateTypeCorrect, RateInit, RateStep, RateLimits, PTL DEF RateSpec

-----------------------------------------------------------------------------
(* The admin guard: a guess has passed before it is counted.  While the     *)
(* number is below the limit every running guess is still to be counted;    *)
(* from then on no guess begins, and those that run are as many as the      *)
(* server may handle.                                                       *)

Comparing == {r \in Request : pc[r] = "record"}

AdminWeight(key, comparing) ==
  IF key.count < Limit THEN key.count + Cardinality(comparing)
                       ELSE Limit - 1 + Cardinality(Request)

AdminBase == Limit - 2 + Cardinality(Request)

AdminInv ==
  ~failed => Spare = NoKey /\ Bounded(Counter, passed, AdminBase, AdminWeight(Counter, Comparing))

LEMMA Numbers ==
  /\ Limit \in Nat /\ Limit >= 1
  /\ Cardinality(Request) \in Nat /\ Cardinality(Request) >= 1
  /\ AdminBase \in Nat
<1>1. Cardinality(Request) \in Nat /\ Cardinality(Request) # 0
  BY WindowAssumption, FS_CardinalityType, FS_EmptySet
<1> QED
  BY <1>1, WindowAssumption DEF AdminBase

LEMMA Some ==
  ASSUME NEW S \in SUBSET Request
  PROVE  /\ IsFiniteSet(S) /\ Cardinality(S) \in Nat
         /\ Cardinality(S) <= Cardinality(Request)
BY WindowAssumption, FS_Subset, FS_CardinalityType

LEMMA AdminWeights ==
  ASSUME NEW key \in Entry, NEW S \in SUBSET Request
  PROVE  /\ AdminWeight(key, S) \in Nat
         /\ AdminWeight(key, S) <= Limit - 1 + Cardinality(Request)
         /\ key.count = 0 => AdminWeight(key, S) = Cardinality(S)
         /\ key.count # 0 => AdminWeight(key, S) >= 1
<1>1. key.count \in Nat
  BY DEF Entry
<1> QED
  BY <1>1, Numbers, Some DEF AdminWeight

\* A guess is one more, and one that is counted is one less.
LEMMA Starts ==
  ASSUME NEW S \in SUBSET Request, NEW r \in Request
  PROVE  /\ r \notin S => Cardinality(S \cup {r}) = Cardinality(S) + 1
         /\ r \in S => /\ Cardinality(S \ {r}) = Cardinality(S) - 1
                       /\ Cardinality(S) >= 1
<1>1. IsFiniteSet(S) /\ IsFiniteSet(S \ {r}) /\ Cardinality(S \ {r}) \in Nat
        /\ Cardinality(S) \in Nat
  BY Some
<1>2. r \notin S => Cardinality(S \cup {r}) = Cardinality(S) + 1
  BY <1>1, FS_AddElement
<1>3. r \in S => Cardinality(S \ {r}) = Cardinality(S) - 1
  BY <1>1, FS_RemoveElement
<1> QED
  BY <1>1, <1>2, <1>3

LEMMA AdminStep ==
  ASSUME TypeOK, TypeOK', AdminInv, [AdminNext]_vars
  PROVE  AdminInv'
<1> DEFINE weight == AdminWeight(Counter, Comparing)
           Goal == /\ Spare' = NoKey
                   /\ Bounded(Counter', passed', AdminBase, AdminWeight(Counter', Comparing'))
<1> SUFFICES ASSUME ~failed' PROVE Goal
  BY DEF AdminInv
<1>0. Counter \in Entry /\ Counter' \in Entry
  BY CounterType
<1>1. Counter.count \in 0 .. Limit + 1
  BY <1>0 DEF Entry
<1>2. pc \in [Request -> {"idle", "record", "expire", "reset", "reset memory"}]
  BY DEF TypeOK
<1>3. Comparing \in SUBSET Request /\ Comparing' \in SUBSET Request
  BY DEF Comparing
<1>4. /\ weight \in Nat /\ weight <= Limit - 1 + Cardinality(Request)
      /\ AdminWeight(Counter', Comparing') \in Nat
  BY <1>0, <1>3, AdminWeights
<1>5. ~failed => Alive /\ Bounded(Counter, passed, AdminBase, weight)
  BY DEF AdminInv, Bounded, Alive
<1>6. ASSUME NEW r \in Request, Guard(r) PROVE Goal
  <2>1. ~failed /\ UNCHANGED <<enabled, redis, mem>> /\ pc[r] = "idle" /\ AdminAllowed(redis)
    BY <1>6 DEF Guard
  <2>2. Counter' = Counter /\ Spare' = NoKey
    BY <1>5, <2>1 DEF Counter, Spare, Alive
  <2>3. Counter.count < Limit
    BY <1>1, <1>5, <2>1, Numbers DEF AdminAllowed, Counter, Spare, Alive, NoKey
  <2>4. CASE Go(r, "record") /\ Pass
    <3>1. Comparing' = Comparing \cup {r} /\ r \notin Comparing
      BY <1>2, <2>1, <2>4 DEF Comparing, Go
    <3>2. Cardinality(Comparing') = Cardinality(Comparing) + 1
      BY <1>3, <3>1, Starts
    <3>3. AdminWeight(Counter', Comparing') = weight + 1
      BY <1>1, <1>3, <2>2, <2>3, <3>2, Numbers, Some DEF AdminWeight
    <3>4. Counter'.count = 0 <=> Counter'.ttl = 0
      BY <1>5, <2>1, <2>2 DEF Alive
    <3> QED
      BY <1>0, <1>4, <1>5, <2>1, <2>2, <2>4, <3>3, <3>4, BoundedPasses, Numbers
  <2>5. CASE Go(r, "reset") /\ PassNot
    <3>1. Comparing' = Comparing
      BY <1>2, <2>1, <2>5 DEF Comparing, Go
    <3> QED
      BY <1>5, <2>1, <2>2, <2>5, <3>1 DEF PassNot
  <2> QED
    BY <1>6, <2>4, <2>5 DEF Guard
<1>7. ASSUME NEW r \in Request, AdminRecordFail(r) \/ RecordInMemory(r) PROVE Goal
  <2>0. Counted
    BY <1>7 DEF AdminRecordFail, RecordInMemory, Counted
  <2>1. ~failed /\ passed' = passed
    <3>1. ~failed
      BY <2>0, Zenon DEF Counted, Incr, IncrFails
    <3> QED
      BY <1>7, <3>1 DEF AdminRecordFail, RecordInMemory, PassNot
  <2>2. /\ Spare' = NoKey
        /\ Counter'.count
             = IF Counter.count > Limit THEN Counter.count ELSE Counter.count + 1
        /\ Counter'.count = 0 <=> Counter'.ttl = 0
        /\ Counter'.ttl \in {Counter.ttl, Window, Forever}
    BY <1>5, <2>0, <2>1, IncrGives
  <2>3. Comparing' = Comparing \ {r} /\ r \in Comparing
    BY <1>2, <1>7 DEF Comparing, Go, AdminRecordFail, RecordInMemory
  <2>4. Cardinality(Comparing') = Cardinality(Comparing) - 1
    BY <1>3, <2>3, Starts
  <2>5. Cardinality(Comparing) \in Nat /\ Cardinality(Comparing) <= Cardinality(Request)
    BY <1>3, Some
  <2>6. weight <= AdminWeight(Counter', Comparing')
    BY <1>1, <2>2, <2>4, <2>5, Numbers DEF AdminWeight
  <2> QED
    BY <1>0, <1>4, <1>5, <2>1, <2>2, <2>6, BoundedStays, Numbers
<1>8. ASSUME NEW r \in Request, ExpireKey(r) PROVE Goal
  <2>1. ~failed /\ UNCHANGED mem /\ Expire /\ passed' = passed
    BY <1>8 DEF ExpireKey, Expire, PassNot
  <2>2. /\ Spare' = NoKey
        /\ Counter'.count = Counter.count
        /\ Counter'.count = 0 <=> Counter'.ttl = 0
        /\ Counter'.ttl \in {0, Counter.ttl, Window, Forever}
    BY <1>5, <2>1, ExpireGives
  <2>3. Comparing' = Comparing
    BY <1>2, <1>8 DEF Comparing, Go, ExpireKey
  <2>4. AdminWeight(Counter', Comparing') = weight
    BY <2>2, <2>3 DEF AdminWeight
  <2> QED
    BY <1>0, <1>4, <1>5, <2>1, <2>2, <2>4, BoundedStays, Numbers
<1>9. ASSUME NEW r \in Request, AdminResetFail(r) PROVE Goal
  <2>1. /\ ~failed /\ redis' = NoKey /\ UNCHANGED <<enabled, mem>>
        /\ passed' = IF enabled THEN Never ELSE passed
    <3>1. \/ redis' = NoKey /\ UNCHANGED failed
          \/ failed' = TRUE
      BY <1>9 DEF AdminResetFail
    <3>2. UNCHANGED <<enabled, mem>> /\ passed' = IF enabled THEN Never ELSE passed
      BY <1>9 DEF AdminResetFail
    <3> QED
      BY <3>1, <3>2
  <2>2. Comparing' = Comparing
    BY <1>2, <1>9 DEF Comparing, Go, AdminResetFail
  <2>3. CASE enabled
    <3>1. Counter' = NoKey /\ Spare' = NoKey
      BY <1>5, <2>1, <2>3 DEF Counter, Spare, Alive
    <3> QED
      BY <1>4, <2>1, <2>3, <3>1, NothingPassed, Numbers
  <2>4. CASE ~enabled
    <3>1. Counter' = Counter /\ Spare' = NoKey
      BY <2>1, <2>4 DEF Counter, Spare
    <3> QED
      BY <1>5, <2>1, <2>2, <2>4, <3>1
  <2> QED
    BY <2>3, <2>4
<1>10. ASSUME NEW r \in Request, ResetMemory(r) PROVE Goal
  <2>1. /\ ~failed /\ mem' = NoKey /\ UNCHANGED <<enabled, redis>>
        /\ passed' = IF enabled THEN passed ELSE Never
    BY <1>10 DEF ResetMemory
  <2>2. Comparing' = Comparing
    BY <1>2, <1>10 DEF Comparing, Go, ResetMemory
  <2>3. CASE enabled
    <3>1. Counter' = Counter /\ Spare' = NoKey
      BY <2>1, <2>3 DEF Counter, Spare
    <3> QED
      BY <1>5, <2>1, <2>2, <2>3, <3>1
  <2>4. CASE ~enabled
    <3>1. Counter' = NoKey /\ Spare' = NoKey
      BY <1>5, <2>1, <2>4 DEF Counter, Spare, Alive
    <3> QED
      BY <1>4, <2>1, <2>4, <3>1, NothingPassed, Numbers
  <2> QED
    BY <2>3, <2>4
<1>11. CASE Tick
  <2>1. ~failed /\ Spare' = NoKey /\ Counter' = Older(Counter) /\ passed' = Aged
    BY <1>5, <1>11, TickGives DEF Tick
  <2> DEFINE fresh == Cardinality(Comparing)
  <2>2. fresh \in Nat /\ fresh <= Cardinality(Request) /\ Comparing' = Comparing
    BY <1>3, <1>11, Some DEF Tick, Comparing
  <2>3. weight <= AdminBase + fresh + 1
    BY <1>4, <2>2, Numbers DEF AdminBase
  <2>4. IF Counter.count = 0 THEN weight = fresh ELSE weight >= 1
    BY <1>0, <1>3, AdminWeights
  <2>5. Bounded(Counter', passed', AdminBase, IF Counter'.count = 0 THEN fresh ELSE weight)
    BY <1>0, <1>4, <1>5, <2>1, <2>2, <2>3, <2>4, BoundedAges, Numbers
  <2>6. Counter'.count # 0 => Counter'.count = Counter.count
    BY <1>0, <2>1, Ages, WindowAssumption DEF Entry, NoKey, Forever
  <2>7. AdminWeight(Counter', Comparing') = IF Counter'.count = 0 THEN fresh ELSE weight
    BY <1>0, <1>3, <2>2, <2>6, AdminWeights DEF AdminWeight
  <2> QED
    BY <2>1, <2>5, <2>7
<1>12. CASE Restart
  BY <1>12 DEF Restart
<1>13. CASE UNCHANGED vars
  BY <1>5, <1>13 DEF vars, Comparing, Counter, Spare, Alive
<1> QED
  BY <1>6, <1>7, <1>8, <1>9, <1>10, <1>11, <1>12, <1>13 DEF AdminNext, RequestStep

LEMMA AdminInit == Init => AdminInv
<1> SUFFICES ASSUME Init PROVE AdminInv
  OBVIOUS
<1>1. AdminWeight(NoKey, Comparing) \in Nat
  BY NoKeyType, AdminWeights DEF Comparing
<1>2. Counter = NoKey /\ Spare = NoKey /\ passed = Never
  BY DEF Init, Counter, Spare
<1> QED
  BY <1>1, <1>2, NothingPassed, Numbers DEF AdminInv

LEMMA AdminLimits == TypeOK /\ AdminInv => GuessesAreLimited
<1> SUFFICES ASSUME TypeOK, AdminInv, ~failed
             PROVE  passed[Window - 1] <= 2 * (Limit - 1 + Cardinality(Request)) - 1
  BY DEF GuessesAreLimited, PassedInWindow
<1>1. passed \in History
  BY DEF TypeOK, History
<1>2. passed[Window - 1] \in Nat
  BY <1>1, WindowAssumption DEF History
<1>3. passed[Window - 1] <= AdminBase + AdminWeight(Counter, Comparing)
  BY DEF AdminInv, Bounded
<1>4. /\ AdminWeight(Counter, Comparing) \in Nat
      /\ AdminWeight(Counter, Comparing) <= Limit - 1 + Cardinality(Request)
  BY CounterType, AdminWeights DEF Comparing
<1> QED
  BY <1>2, <1>3, <1>4, Numbers DEF AdminBase

(* The counter is read before a password is compared and incremented after  *)
(* it: each request that may run at the time adds one guess to each of the  *)
(* two windows a span can touch, and no more, for any limit and any number  *)
(* of them.                                                                 *)
THEOREM GuessesCorrect == AdminSpec => []GuessesAreLimited
BY AdminTypeCorrect, AdminInit, AdminStep, AdminLimits, PTL DEF AdminSpec

=============================================================================
