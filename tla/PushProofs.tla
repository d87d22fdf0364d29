----------------------------- MODULE PushProofs -----------------------------
(***************************************************************************)
(* A broadcast sends one notification to each device of its list, and the  *)
(* clean-up keeps the devices that FCM can reach, for any number of        *)
(* devices, tokens, broadcasts and workers.                                *)
(***************************************************************************)
EXTENDS Push, FiniteSetTheorems, TLAPS

\* The pool of a broadcast that does not send is empty.
PoolsEnd ==
  \A b \in Broadcast : pc[b] # "sending" => queue[b] = {} /\ job[b] = NoWork

\* The pool works on the list.
OnTheList ==
  \A b \in Broadcast :
    /\ queue[b] \subseteq Listed(b)
    /\ \A w \in Worker : job[b][w] # NoDevice => job[b][w] \in Listed(b)

\* A token that is stored or listed was given to a device: FCM gives it to no
\* other, so that it does not come to life again.
Issued ==
  /\ \A d \in Device : devices[d] # NoToken => owner[devices[d]] # NoDevice
  /\ \A b \in Broadcast : \A d \in Listed(b) : owner[tokens[b][d]] # NoDevice

DeadStayDead ==
  \A b \in Broadcast : \A t \in dead[b] : t \notin alive /\ owner[t] # NoDevice

PoolInv == TypeOK /\ PoolsEnd /\ OnTheList
TokenInv == Issued /\ DeadStayDead

-----------------------------------------------------------------------------
(* The pool. *)

LEMMA InitPool == Init => PoolInv
BY PushAssumption DEF Init, PoolInv, TypeOK, PoolsEnd, OnTheList, Listed, NoTokens, NoWork, Untried

LEMMA StartPool ==
  ASSUME PoolInv, NEW b \in Broadcast, Start(b)
  PROVE  PoolInv'
<1>1. PICK kind \in Kind : \E listed \in SUBSET Registered :
        /\ queue' = [queue EXCEPT ![b] = listed]
        /\ tokens' = [tokens EXCEPT ![b] =
                        [d \in Device |-> IF d \in listed THEN devices[d] ELSE NoToken]]
  BY DEF Start
<1>2. PICK listed \in SUBSET Registered :
        /\ queue' = [queue EXCEPT ![b] = listed]
        /\ tokens' = [tokens EXCEPT ![b] =
                        [d \in Device |-> IF d \in listed THEN devices[d] ELSE NoToken]]
  BY <1>1
<1> DEFINE list == [d \in Device |-> IF d \in listed THEN devices[d] ELSE NoToken]
<1>a. /\ list \in [Device -> Token \cup {NoToken}]
      /\ listed \in SUBSET Device
      /\ Untried \in [Device -> Nat]
  BY DEF PoolInv, TypeOK, Registered, Untried
<1>b. tokens' = [tokens EXCEPT ![b] = list]
  BY <1>2
<1>3. TypeOK'
  <2> HIDE DEF list
  <2>1. tokens' \in [Broadcast -> [Device -> Token \cup {NoToken}]]
    BY <1>a, <1>b DEF PoolInv, TypeOK
  <2>2. queue' \in [Broadcast -> SUBSET Device] /\ tried' \in [Broadcast -> [Device -> Nat]]
    BY <1>2, <1>a DEF Start, PoolInv, TypeOK
  <2>3. pc' \in [Broadcast -> {"idle", "sending", "prune"}]
    BY DEF Start, PoolInv, TypeOK
  <2>4. sent' \in [Broadcast -> Nat] /\ dead' \in [Broadcast -> SUBSET Token]
    BY DEF Start, PoolInv, TypeOK
  <2> QED BY <2>1, <2>2, <2>3, <2>4 DEF Start, PoolInv, TypeOK
<1>4. PoolsEnd'
  BY <1>2 DEF Start, PoolInv, TypeOK, PoolsEnd
<1>5. OnTheList'
  <2>1. queue'[b] = listed /\ tokens'[b] = list /\ job'[b] = NoWork
    BY <1>2 DEF Start, PoolInv, TypeOK, PoolsEnd
  <2>2. \A d \in listed : list[d] # NoToken
    BY DEF Registered
  <2>3. \A c \in Broadcast \ {b} :
          queue'[c] = queue[c] /\ tokens'[c] = tokens[c] /\ job'[c] = job[c]
    BY <1>2 DEF Start, PoolInv, TypeOK
  <2> HIDE DEF list
  <2>4. queue'[b] \subseteq Listed(b)' /\ \A w \in Worker : job'[b][w] = NoDevice
    BY <1>a, <2>1, <2>2 DEF Listed, NoWork
  <2> QED BY <2>3, <2>4 DEF PoolInv, OnTheList, Listed
<1> QED BY <1>3, <1>4, <1>5 DEF PoolInv

LEMMA PoolStepPool ==
  ASSUME PoolInv, NEW b \in Broadcast, PoolStep(b)
  PROVE  PoolInv'
<1>1. CASE \E w \in Worker : HandOver(b, w)
  <2>1. PICK w \in Worker : HandOver(b, w)
    BY <1>1
  <2>2. PICK d \in queue[b] :
          /\ queue' = [queue EXCEPT ![b] = @ \ {d}]
          /\ job' = [job EXCEPT ![b][w] = d]
    BY <2>1 DEF HandOver
  <2>3. TypeOK'
    BY <2>1, <2>2 DEF HandOver, PoolInv, TypeOK
  <2>4. PoolsEnd'
    BY <2>1, <2>2 DEF HandOver, PoolInv, TypeOK, PoolsEnd
  <2>5. OnTheList'
    BY <2>1, <2>2 DEF HandOver, PoolInv, TypeOK, OnTheList, Listed
  <2> QED BY <2>3, <2>4, <2>5 DEF PoolInv
<1>2. CASE \E w \in Worker : Send(b, w)
  <2>1. PICK w \in Worker : Send(b, w)
    BY <1>2
  <2>2. pc[b] = "sending"
    BY <2>1 DEF Send, PoolInv, PoolsEnd, NoWork, TypeOK
  <2>3. job[b][w] \in Device /\ tokens[b][job[b][w]] \in Token
    BY <2>1 DEF Send, PoolInv, OnTheList, Listed, TypeOK
  <2>4. TypeOK'
    BY <2>1, <2>3 DEF Send, PoolInv, TypeOK
  <2>5. PoolsEnd'
    BY <2>1, <2>2 DEF Send, PoolInv, TypeOK, PoolsEnd
  <2>6. OnTheList'
    BY <2>1 DEF Send, PoolInv, TypeOK, OnTheList, Listed
  <2> QED BY <2>4, <2>5, <2>6 DEF PoolInv
<1>3. CASE SendToAllReturns(b)
  <2>1. job[b] = NoWork
    BY <1>3 DEF SendToAllReturns, PoolInv, TypeOK, NoWork
  <2> QED BY <1>3, <2>1
      DEF SendToAllReturns, PoolInv, TypeOK, PoolsEnd, OnTheList, Listed
<1>4. CASE DeleteTokens(b)
  BY <1>4 DEF DeleteTokens, PoolInv, TypeOK, PoolsEnd, OnTheList, Listed
<1> QED BY <1>1, <1>2, <1>3, <1>4 DEF PoolStep

LEMMA StepPool == PoolInv /\ [Next]_vars => PoolInv'
<1> SUFFICES ASSUME PoolInv, [Next]_vars
             PROVE  PoolInv'
  OBVIOUS
<1>1. ASSUME NEW d \in Device, DeleteDevice(d)
      PROVE  PoolInv'
  BY <1>1 DEF DeleteDevice, bcVars, PoolInv, TypeOK, PoolsEnd, OnTheList, Listed
<1>2. ASSUME NEW d \in Device, NEW t \in Token, SaveDevice(d, t)
      PROVE  PoolInv'
  <2>1. devices' \in [Device -> Token \cup {NoToken}]
    BY <1>2 DEF SaveDevice, PoolInv, TypeOK
  <2>2. alive' \in SUBSET Token /\ owner' \in [Token -> Device \cup {NoDevice}]
    BY <1>2 DEF SaveDevice, PoolInv, TypeOK
  <2>3. UNCHANGED bcVars
    BY <1>2 DEF SaveDevice
  <2> QED BY <2>1, <2>2, <2>3 DEF bcVars, PoolInv, TypeOK, PoolsEnd, OnTheList, Listed
<1>3. ASSUME NEW t \in Token, TokenDies(t)
      PROVE  PoolInv'
  BY <1>3 DEF TokenDies, bcVars, PoolInv, TypeOK, PoolsEnd, OnTheList, Listed
<1>4. ASSUME NEW b \in Broadcast, Start(b)
      PROVE  PoolInv'
  BY <1>4, StartPool
<1>5. ASSUME NEW b \in Broadcast, PoolStep(b)
      PROVE  PoolInv'
  BY <1>5, PoolStepPool
<1>6. CASE Restart
  BY <1>6 DEF Restart, PoolInv, TypeOK, PoolsEnd, OnTheList, Listed, NoWork
<1>7. CASE UNCHANGED vars
  BY <1>7 DEF vars, PoolInv, TypeOK, PoolsEnd, OnTheList, Listed
<1> QED BY <1>1, <1>2, <1>3, <1>4, <1>5, <1>6, <1>7 DEF Next

(* Type correctness: what a broadcast lists, sends to and books are devices *)
(* and tokens, and its pool is empty when it does not send.                 *)
THEOREM PoolCorrect == Spec => [](TypeOK /\ PoolsEnd /\ OnTheList)
<1>1. PoolInv <=> TypeOK /\ PoolsEnd /\ OnTheList
  BY DEF PoolInv
<1> QED BY InitPool, StepPool, <1>1, PTL DEF Spec

-----------------------------------------------------------------------------
(* The tokens, when FCM calls none of them dead that is not. *)

LEMMA InitToken == Init => TokenInv
BY PushAssumption DEF Init, TokenInv, Issued, DeadStayDead, Listed, NoTokens

\* A step that gives out no token, revives none, stores none that was not
\* stored, lists none that was not stored or listed and books no new one.
LEMMA TokensKept ==
  ASSUME TypeOK, TokenInv, TypeOK',
         owner' = owner,
         alive' \subseteq alive,
         \A d \in Device : devices'[d] \in {devices[d], NoToken},
         \A b \in Broadcast, d \in Device :
           tokens'[b][d] \in {tokens[b][d], devices[d], NoToken},
         \A b \in Broadcast : dead'[b] \subseteq dead[b]
  PROVE  TokenInv'
<1>1. Issued'
  <2>1. ASSUME NEW d \in Device, devices'[d] # NoToken
        PROVE  owner'[devices'[d]] # NoDevice
    BY <2>1 DEF TokenInv, Issued
  <2>2. ASSUME NEW b \in Broadcast, NEW d \in Device, tokens'[b][d] # NoToken
        PROVE  owner'[tokens'[b][d]] # NoDevice
    <3>1. tokens'[b][d] \in {tokens[b][d], devices[d], NoToken}
      OBVIOUS
    <3> QED BY <2>2, <3>1 DEF TokenInv, Issued, Listed
  <2> QED BY <2>1, <2>2 DEF Issued, Listed
<1>2. DeadStayDead'
  BY DEF TokenInv, DeadStayDead
<1> QED BY <1>1, <1>2 DEF TokenInv

LEMMA SaveDeviceToken ==
  ASSUME PoolInv, TokenInv, NEW d \in Device, NEW t \in Token, SaveDevice(d, t)
  PROVE  TokenInv'
<1>1. /\ owner'[t] # NoDevice
      /\ \A u \in Token : owner[u] # NoDevice => owner'[u] = owner[u]
      /\ \A u \in Token : u \in alive' => u \in alive \/ owner[u] = NoDevice
  BY PushAssumption DEF SaveDevice, PoolInv, TypeOK
<1>2. UNCHANGED <<tokens, dead>>
  BY DEF SaveDevice, bcVars
<1>3. Issued'
  <2>1. ASSUME NEW e \in Device, devices'[e] # NoToken
        PROVE  owner'[devices'[e]] # NoDevice
    <3>1. devices'[e] \in {devices[e], t}
      BY DEF SaveDevice, PoolInv, TypeOK
    <3> QED BY <1>1, <2>1, <3>1 DEF TokenInv, Issued, PoolInv, TypeOK
  <2>2. ASSUME NEW b \in Broadcast, NEW e \in Device, tokens[b][e] # NoToken
        PROVE  owner'[tokens[b][e]] # NoDevice
    BY <1>1, <2>2 DEF TokenInv, Issued, Listed, PoolInv, TypeOK
  <2> QED BY <1>2, <2>1, <2>2 DEF Issued, Listed
<1>4. DeadStayDead'
  BY <1>1, <1>2 DEF TokenInv, DeadStayDead, PoolInv, TypeOK
<1> QED BY <1>3, <1>4 DEF TokenInv

LEMMA SendToken ==
  ASSUME MessagesMayBeBad = FALSE, PoolInv, TokenInv,
         NEW b \in Broadcast, NEW w \in Worker, Send(b, w)
  PROVE  TokenInv'
<1> DEFINE d == job[b][w]
<1>1. d \in Device /\ d \in Listed(b) /\ tokens[b][d] \in Token
  BY DEF Send, PoolInv, OnTheList, Listed, TypeOK
<1>2. UNCHANGED <<devices, alive, owner, tokens>>
  BY DEF Send
<1>3. Issued'
  BY <1>2 DEF TokenInv, Issued, Listed
<1>4. PICK verdict \in Verdict(tokens[b][d]) :
        dead' = [dead EXCEPT ![b] = IF verdict = "dead" THEN @ \cup {tokens[b][d]} ELSE @]
  BY DEF Send
<1>5. verdict = "dead" => tokens[b][d] \notin alive /\ owner[tokens[b][d]] # NoDevice
  BY <1>1 DEF Verdict, TokenInv, Issued
<1> HIDE DEF d
<1>6. DeadStayDead'
  BY <1>2, <1>4, <1>5 DEF TokenInv, DeadStayDead, PoolInv, TypeOK
<1> QED BY <1>3, <1>6 DEF TokenInv

LEMMA StepToken ==
  ASSUME MessagesMayBeBad = FALSE, PoolInv, TokenInv, [Next]_vars
  PROVE  TokenInv'
<1>0. TypeOK /\ TypeOK'
  BY StepPool DEF PoolInv
<1>1. ASSUME NEW d \in Device, DeleteDevice(d)
      PROVE  TokenInv'
  BY <1>0, <1>1, TokensKept DEF DeleteDevice, bcVars, TypeOK
<1>2. ASSUME NEW d \in Device, NEW t \in Token, SaveDevice(d, t)
      PROVE  TokenInv'
  BY <1>2, SaveDeviceToken
<1>3. ASSUME NEW t \in Token, TokenDies(t)
      PROVE  TokenInv'
  BY <1>0, <1>3, TokensKept DEF TokenDies, bcVars
<1>4. ASSUME NEW b \in Broadcast, Start(b)
      PROVE  TokenInv'
  <2>1. PICK listed \in SUBSET Registered :
          tokens' = [tokens EXCEPT ![b] =
                       [d \in Device |-> IF d \in listed THEN devices[d] ELSE NoToken]]
    BY <1>4 DEF Start
  <2>2. \A c \in Broadcast, d \in Device :
          tokens'[c][d] \in {tokens[c][d], devices[d], NoToken}
    BY <2>1, <1>0 DEF TypeOK
  <2>3. \A c \in Broadcast : dead'[c] \subseteq dead[c]
    BY <1>4, <1>0 DEF Start, TypeOK
  <2>4. UNCHANGED <<devices, alive, owner>>
    BY <1>4 DEF Start
  <2> QED BY <1>0, <2>2, <2>3, <2>4, TokensKept
<1>5. ASSUME NEW b \in Broadcast, PoolStep(b)
      PROVE  TokenInv'
  <2>1. ASSUME NEW w \in Worker, HandOver(b, w)
        PROVE  TokenInv'
    BY <1>0, <2>1, TokensKept DEF HandOver
  <2>2. ASSUME NEW w \in Worker, Send(b, w)
        PROVE  TokenInv'
    BY <2>2, SendToken
  <2>3. CASE SendToAllReturns(b)
    BY <1>0, <2>3, TokensKept DEF SendToAllReturns
  <2>4. CASE DeleteTokens(b)
    <3>1. \A d \in Device : devices'[d] \in {devices[d], NoToken}
      BY <2>4 DEF DeleteTokens
    <3> QED BY <1>0, <2>4, <3>1, TokensKept DEF DeleteTokens
  <2> QED BY <1>5, <2>1, <2>2, <2>3, <2>4 DEF PoolStep
<1>6. CASE Restart
  BY <1>0, <1>6, TokensKept DEF Restart
<1>7. CASE UNCHANGED vars
  BY <1>0, <1>7, TokensKept DEF vars
<1> QED BY <1>1, <1>2, <1>3, <1>4, <1>5, <1>6, <1>7 DEF Next

\* A step that ends the clean-up deletes only tokens of dead.
LEMMA PruneStep ==
  ASSUME PoolInv, TokenInv, [Next]_vars,
         NEW b \in Broadcast, pc[b] = "prune", pc'[b] = "idle",
         NEW d \in Device, devices[d] \in alive
  PROVE  devices'[d] = devices[d]
<1>1. ASSUME NEW e \in Device, DeleteDevice(e)
      PROVE  FALSE
  BY <1>1 DEF DeleteDevice, bcVars
<1>2. ASSUME NEW e \in Device, NEW t \in Token, SaveDevice(e, t)
      PROVE  FALSE
  BY <1>2 DEF SaveDevice, bcVars
<1>3. ASSUME NEW t \in Token, TokenDies(t)
      PROVE  devices'[d] = devices[d]
  BY <1>3 DEF TokenDies
<1>4. ASSUME NEW c \in Broadcast, Start(c)
      PROVE  devices'[d] = devices[d]
  BY <1>4 DEF Start
<1>5. ASSUME NEW c \in Broadcast, PoolStep(c)
      PROVE  devices'[d] = devices[d]
  <2>1. CASE DeleteTokens(c)
    <3>1. devices[d] \notin dead[c]
      BY DEF TokenInv, DeadStayDead
    <3> QED BY <2>1, <3>1 DEF DeleteTokens
  <2> QED BY <1>5, <2>1 DEF PoolStep, HandOver, Send, SendToAllReturns
<1>6. CASE Restart
  BY <1>6 DEF Restart
<1>7. CASE UNCHANGED vars
  BY <1>7 DEF vars
<1> QED BY <1>1, <1>2, <1>3, <1>4, <1>5, <1>6, <1>7 DEF Next

(* As long as FCM calls no live token dead, the clean-up of one broadcast   *)
(* takes no device that FCM can reach, whatever apps, other broadcasts and  *)
(* restarts do between the reading of its list and its DELETE.              *)
THEOREM PruneCorrect ==
  ASSUME MessagesMayBeBad = FALSE
  PROVE  Spec => PruneKeepsReachable
<1>1. Init => PoolInv /\ TokenInv
  BY InitPool, InitToken
<1>2. PoolInv /\ TokenInv /\ [Next]_vars => (PoolInv /\ TokenInv)'
  BY StepPool, StepToken
<1>3. PoolInv /\ TokenInv /\ [Next]_vars =>
        [\A b \in Broadcast : pc[b] = "prune" /\ pc'[b] = "idle" =>
           \A d \in Device : devices[d] \in alive => devices'[d] = devices[d]]_vars
  BY PruneStep
<1> QED BY <1>1, <1>2, <1>3, PTL DEF Spec, PruneKeepsReachable

-----------------------------------------------------------------------------
(* One notification for each device of the list. *)

\* The workers that are sending to d.
At(b, d) == {w \in Worker : job[b][w] = d}

Counts(b, d) ==
  tried[b][d] + Cardinality(At(b, d)) = IF d \in Listed(b) \ queue[b] THEN 1 ELSE 0

OnceInv ==
  \A b \in Broadcast : pc[b] \in {"sending", "prune"} => \A d \in Device : Counts(b, d)

LEMMA AtFinite ==
  ASSUME NEW b, NEW d
  PROVE  IsFiniteSet(At(b, d)) /\ Cardinality(At(b, d)) \in Nat
BY PushAssumption, FS_Subset, FS_CardinalityType DEF At

LEMMA InitOnce == Init => OnceInv
BY DEF Init, OnceInv

\* A broadcast whose pool, list and bookings stay as they are.
LEMMA OnceKept ==
  ASSUME OnceInv, NEW b \in Broadcast,
         pc'[b] \in {"sending", "prune"} => pc[b] \in {"sending", "prune"},
         tried'[b] = tried[b], job'[b] = job[b],
         tokens'[b] = tokens[b], queue'[b] = queue[b],
         pc'[b] \in {"sending", "prune"}, NEW d \in Device
  PROVE  Counts(b, d)'
<1>1. Counts(b, d)
  BY DEF OnceInv
<1> QED BY <1>1 DEF Counts, At, Listed

LEMMA StartOnce ==
  ASSUME PoolInv, NEW b \in Broadcast, Start(b), NEW d \in Device
  PROVE  Counts(b, d)'
<1>1. PICK listed \in SUBSET Registered :
        /\ queue' = [queue EXCEPT ![b] = listed]
        /\ tokens' = [tokens EXCEPT ![b] =
                        [e \in Device |-> IF e \in listed THEN devices[e] ELSE NoToken]]
  BY DEF Start
<1>2. queue'[b] = listed /\ (d \in Listed(b)' => d \in listed)
  BY <1>1 DEF PoolInv, TypeOK, Listed
<1>3. tried'[b][d] = 0
  BY DEF Start, PoolInv, TypeOK, Untried
<1>4. At(b, d)' = {}
  BY PushAssumption DEF Start, PoolInv, PoolsEnd, NoWork, At
<1>5. Cardinality(At(b, d)') = 0
  BY <1>4, FS_EmptySet
<1> QED BY <1>2, <1>3, <1>5 DEF Counts

LEMMA HandOverOnce ==
  ASSUME PoolInv, OnceInv, NEW b \in Broadcast, NEW w \in Worker, HandOver(b, w),
         NEW d \in Device
  PROVE  Counts(b, d)'
<1>1. PICK e \in queue[b] :
        /\ queue' = [queue EXCEPT ![b] = @ \ {e}]
        /\ job' = [job EXCEPT ![b][w] = e]
  BY DEF HandOver
<1>2. Counts(b, d)
  BY DEF HandOver, OnceInv
<1>3. UNCHANGED <<tried, tokens>>
  BY DEF HandOver
<1>4. CASE d = e
  <2>1. w \notin At(b, d) /\ At(b, d)' = At(b, d) \cup {w}
    BY <1>1, <1>4, PushAssumption DEF HandOver, PoolInv, TypeOK, At
  <2>2. Cardinality(At(b, d)') = Cardinality(At(b, d)) + 1
    BY <2>1, AtFinite, FS_AddElement
  <2>3. d \in queue[b] /\ d \in Listed(b)' /\ d \notin queue'[b]
    BY <1>1, <1>3, <1>4 DEF PoolInv, TypeOK, OnTheList, Listed
  <2> QED BY <1>2, <1>3, <2>2, <2>3, AtFinite DEF Counts, PoolInv, TypeOK
<1>5. CASE d # e
  <2>1. At(b, d)' = At(b, d)
    BY <1>1, <1>5, PushAssumption DEF HandOver, PoolInv, TypeOK, At
  <2>2. d \in queue'[b] <=> d \in queue[b]
    BY <1>1, <1>5 DEF PoolInv, TypeOK
  <2> QED BY <1>2, <1>3, <2>1, <2>2 DEF Counts, Listed
<1> QED BY <1>4, <1>5

LEMMA SendOnce ==
  ASSUME PoolInv, OnceInv, NEW b \in Broadcast, NEW w \in Worker, Send(b, w),
         NEW d \in Device
  PROVE  Counts(b, d)'
<1> DEFINE e == job[b][w]
<1>1. pc[b] = "sending" /\ e \in Device
  BY DEF Send, PoolInv, TypeOK, PoolsEnd, NoWork
<1>2. Counts(b, d)
  BY <1>1 DEF OnceInv
<1>3. /\ UNCHANGED <<tokens, queue>>
      /\ tried' = [tried EXCEPT ![b][e] = @ + 1]
      /\ job' = [job EXCEPT ![b][w] = NoDevice]
  BY DEF Send
<1>4. CASE d = e
  <2>1. w \in At(b, d) /\ At(b, d)' = At(b, d) \ {w}
    BY <1>1, <1>3, <1>4, PushAssumption DEF PoolInv, TypeOK, At
  <2>2. Cardinality(At(b, d)') = Cardinality(At(b, d)) - 1
    BY <2>1, AtFinite, FS_RemoveElement
  <2>3. tried'[b][d] = tried[b][d] + 1 /\ tried[b][d] \in Nat
    BY <1>3, <1>4 DEF PoolInv, TypeOK
  <2> QED BY <1>2, <1>3, <2>2, <2>3, AtFinite DEF Counts, Listed
<1>5. CASE d # e
  <2>1. At(b, d)' = At(b, d)
    BY <1>3, <1>5, PushAssumption DEF PoolInv, TypeOK, At
  <2>2. tried'[b][d] = tried[b][d]
    BY <1>3, <1>5 DEF PoolInv, TypeOK
  <2> QED BY <1>2, <1>3, <2>1, <2>2 DEF Counts, Listed
<1> QED BY <1>4, <1>5

LEMMA StepOnce == PoolInv /\ OnceInv /\ [Next]_vars => OnceInv'
<1> SUFFICES ASSUME PoolInv, OnceInv, [Next]_vars,
                    NEW b \in Broadcast, pc'[b] \in {"sending", "prune"},
                    NEW d \in Device
             PROVE  Counts(b, d)'
  BY DEF OnceInv
<1>1. CASE UNCHANGED bcVars
  BY <1>1, OnceKept DEF bcVars
<1>2. ASSUME NEW c \in Broadcast, Start(c)
      PROVE  Counts(b, d)'
  <2>1. CASE c = b
    BY <1>2, <2>1, StartOnce
  <2>2. CASE c # b
    BY <1>2, <2>2, OnceKept DEF Start, PoolInv, TypeOK
  <2> QED BY <2>1, <2>2
<1>3. ASSUME NEW c \in Broadcast, PoolStep(c)
      PROVE  Counts(b, d)'
  <2>1. ASSUME NEW w \in Worker, HandOver(c, w)
        PROVE  Counts(b, d)'
    BY <2>1, HandOverOnce, OnceKept DEF HandOver, PoolInv, TypeOK
  <2>2. ASSUME NEW w \in Worker, Send(c, w)
        PROVE  Counts(b, d)'
    BY <2>2, SendOnce, OnceKept DEF Send, PoolInv, TypeOK
  <2>3. CASE SendToAllReturns(c)
    BY <2>3, OnceKept DEF SendToAllReturns, PoolInv, TypeOK
  <2>4. CASE DeleteTokens(c)
    BY <2>4, OnceKept DEF DeleteTokens, PoolInv, TypeOK
  <2> QED BY <1>3, <2>1, <2>2, <2>3, <2>4 DEF PoolStep
<1>4. CASE Restart
  BY <1>4 DEF Restart
<1> QED BY <1>1, <1>2, <1>3, <1>4
    DEF Next, vars, bcVars, DeleteDevice, SaveDevice, TokenDies

(* A broadcast sends one notification to each device of its list: each is   *)
(* waiting in the channel, or with one worker, or has been tried once.      *)
THEOREM OnceCorrect == Spec => []OncePerDevice
<1>1. OnceInv => OncePerDevice
  BY DEF OnceInv, OncePerDevice, Counts, At
<1> QED BY InitPool, StepPool, InitOnce, StepOnce, <1>1, PTL DEF Spec

=============================================================================
