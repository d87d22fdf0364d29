---------------------------- MODULE ScoresProofs ----------------------------
(***************************************************************************)
(* Scores for any number of devices, requests and days: type correctness,  *)
(* and what the three queries of an answer may tell of each other while    *)
(* other requests store scores.                                            *)
(***************************************************************************)
EXTENDS Scores, FiniteSetTheorems, TLAPS

(* The queries as functions of the table they read, so that the same one    *)
(* can be asked of the table before a step and after it.                    *)

RankedIn(table, days) == {d \in Device : DOMAIN table[d] \cap days # {}}
PointsIn(table, d, days) ==
  {p \in days \X (1 .. MaxInt) : p[1] \in DOMAIN table[d] /\ p[2] <= table[d][p[1]]}
TotalIn(table, d, days) == Cardinality(PointsIn(table, d, days))
BetterIn(table, score, days) ==
  {d \in RankedIn(table, days) : TotalIn(table, d, days) > score}
TiedIn(table, score, days) ==
  {d \in RankedIn(table, days) : TotalIn(table, d, days) = score}
FirstIn(table, d, days) == Cardinality(BetterIn(table, TotalIn(table, d, days), days)) + 1
AfterIn(table, d, days) ==
  FirstIn(table, d, days) + Cardinality(TiedIn(table, TotalIn(table, d, days), days))

Reply == [device : Device \cup {NoDevice}, days : SUBSET Day, floor : 0 .. MaxInt,
          place : 0 .. Limit, score : 0 .. MaxInt, rank : 0 .. Cardinality(Device) + 1]
Step == {"idle", "score", "count", "answer"}

(* What is true of a request at every step: `before` are the devices ahead  *)
(* of its own when it read its score, and a request is `dirty` when a score *)
(* has been stored since it began.                                          *)
Sound(table, step, q, before, dirty) ==
  /\ step # "idle" => q.device \in Device
  /\ step = "score" => q.floor <= TotalIn(table, q.device, q.days)
  /\ step \in {"count", "answer"} => q.score >= q.floor
  /\ step = "count" => before \subseteq BetterIn(table, q.score, q.days)
  /\ step = "answer" => /\ Cardinality(before) < q.rank
                        /\ q.rank <= Cardinality(BetterIn(table, q.score, q.days)) + 1
  /\ step # "idle" /\ q.place > 0 /\ ~dirty =>
       /\ q.place >= FirstIn(table, q.device, q.days)
       /\ q.place < AfterIn(table, q.device, q.days)
       /\ step \in {"count", "answer"} => q.score = TotalIn(table, q.device, q.days)
       /\ step = "answer" => q.rank = FirstIn(table, q.device, q.days)

Inv ==
  /\ TypeOK
  /\ \A r \in Request : Sound(scores, pc[r], req[r], ahead[r], changed[r])

-----------------------------------------------------------------------------
(* The queries: their results are finite, and grow with the table. *)

Table == [Device -> Rows]

Grows(before, after) ==
  \A d \in Device : \A day \in DOMAIN before[d] :
    day \in DOMAIN after[d] /\ before[d][day] <= after[d][day]

LEMMA Queries ==
  ASSUME NEW d, NEW days, NEW score
  PROVE  /\ Ranked(days) = RankedIn(scores, days)
         /\ Total(d, days) = TotalIn(scores, d, days)
         /\ Better(score, days) = BetterIn(scores, score, days)
         /\ Tied(score, days) = TiedIn(scores, score, days)
BY DEF Ranked, Total, Points, Better, Tied, RankedIn, TotalIn, PointsIn, BetterIn, TiedIn

LEMMA Rowed ==
  ASSUME NEW row \in Rows
  PROVE  /\ DOMAIN row \in SUBSET Day
         /\ \A day \in DOMAIN row : row[day] \in Score /\ row[day] \in 0 .. MaxInt
<1>1. PICK days \in SUBSET Day : row \in [days -> Score]
  BY DEF Rows
<1>2. DOMAIN row = days /\ \A day \in days : row[day] \in Score
  BY <1>1
<1> QED
  BY <1>2, ScoresAssumption

LEMMA Days ==
  ASSUME NEW days \in SUBSET Day
  PROVE  IsFiniteSet(days)
<1>1. IsFiniteSet(Day)
  BY ScoresAssumption, FS_Interval DEF Day
<1> QED
  BY <1>1, FS_Subset

LEMMA Totals ==
  ASSUME NEW table, NEW d, NEW days \in SUBSET Day
  PROVE  IsFiniteSet(PointsIn(table, d, days)) /\ TotalIn(table, d, days) \in Nat
<1>1. IsFiniteSet(days) /\ IsFiniteSet(1 .. MaxInt)
  BY Days, ScoresAssumption, FS_Interval
<1>2. IsFiniteSet(days \X (1 .. MaxInt))
  BY <1>1, FS_Product
<1>3. PointsIn(table, d, days) \subseteq days \X (1 .. MaxInt)
  BY DEF PointsIn
<1>4. IsFiniteSet(PointsIn(table, d, days))
  BY <1>2, <1>3, FS_Subset
<1> QED
  BY <1>4, FS_CardinalityType DEF TotalIn

\* How many of the devices there are in a set of them.
LEMMA Devices ==
  ASSUME NEW S \in SUBSET Device
  PROVE  /\ IsFiniteSet(S) /\ Cardinality(S) \in Nat
         /\ Cardinality(S) <= Cardinality(Device) /\ Cardinality(Device) \in Nat
BY ScoresAssumption, FS_Subset, FS_CardinalityType

LEMMA Counted ==
  ASSUME NEW table, NEW score, NEW days
  PROVE  /\ BetterIn(table, score, days) \in SUBSET Device
         /\ TiedIn(table, score, days) \in SUBSET Device
BY DEF BetterIn, TiedIn, RankedIn

\* A table that has grown has no lower totals, and nobody falls back.
LEMMA TotalsGrow ==
  ASSUME NEW before \in Table, NEW after \in Table, Grows(before, after),
         NEW d \in Device, NEW days \in SUBSET Day
  PROVE  /\ TotalIn(before, d, days) <= TotalIn(after, d, days)
         /\ d \in RankedIn(before, days) => d \in RankedIn(after, days)
<1>1. before[d] \in Rows /\ after[d] \in Rows
  BY DEF Table
<1>2. PointsIn(before, d, days) \subseteq PointsIn(after, d, days)
  <2> SUFFICES ASSUME NEW p \in days \X (1 .. MaxInt), p[1] \in DOMAIN before[d],
                      p[2] <= before[d][p[1]]
               PROVE  p[1] \in DOMAIN after[d] /\ p[2] <= after[d][p[1]]
    BY DEF PointsIn
  <2>1. p[1] \in DOMAIN after[d] /\ before[d][p[1]] <= after[d][p[1]]
    BY DEF Grows
  <2>2. before[d][p[1]] \in Nat /\ after[d][p[1]] \in Nat /\ p[2] \in Nat
    BY <1>1, <2>1, Rowed
  <2> QED
    BY <2>1, <2>2
<1>3. TotalIn(before, d, days) <= TotalIn(after, d, days)
  BY <1>2, Totals, FS_Subset DEF TotalIn
<1>4. d \in RankedIn(before, days) => d \in RankedIn(after, days)
  BY DEF RankedIn, Grows
<1> QED
  BY <1>3, <1>4

LEMMA BetterGrows ==
  ASSUME NEW before \in Table, NEW after \in Table, Grows(before, after),
         NEW score \in Nat, NEW days \in SUBSET Day
  PROVE  /\ BetterIn(before, score, days) \subseteq BetterIn(after, score, days)
         /\ Cardinality(BetterIn(before, score, days))
              <= Cardinality(BetterIn(after, score, days))
<1>1. BetterIn(before, score, days) \subseteq BetterIn(after, score, days)
  <2> SUFFICES ASSUME NEW d \in Device, d \in RankedIn(before, days),
                      TotalIn(before, d, days) > score
               PROVE  d \in RankedIn(after, days) /\ TotalIn(after, d, days) > score
    BY DEF BetterIn, RankedIn
  <2>1. TotalIn(before, d, days) \in Nat /\ TotalIn(after, d, days) \in Nat
    BY Totals
  <2> QED
    BY <2>1, TotalsGrow
<1>2. IsFiniteSet(BetterIn(after, score, days))
  BY Counted, Devices
<1> QED
  BY <1>1, <1>2, FS_Subset

\* The total of one day is its score.
LEMMA DayTotal ==
  ASSUME NEW table \in Table, NEW d \in Device, NEW day \in Day, day \in DOMAIN table[d]
  PROVE  TotalIn(table, d, {day}) = table[d][day]
<1> DEFINE score == table[d][day]
<1>1. score \in 0 .. MaxInt
  BY Rowed DEF Table
<1>2. PointsIn(table, d, {day}) = {day} \X (1 .. score)
  <2>1. ASSUME NEW p \in PointsIn(table, d, {day}) PROVE p \in {day} \X (1 .. score)
    BY <1>1 DEF PointsIn
  <2>2. ASSUME NEW p \in {day} \X (1 .. score) PROVE p \in PointsIn(table, d, {day})
    BY <1>1, ScoresAssumption DEF PointsIn
  <2> QED
    BY <2>1, <2>2
<1>3. IsFiniteSet({day}) /\ Cardinality({day}) = 1
  BY FS_Singleton
<1>4. IsFiniteSet(1 .. score) /\ Cardinality(1 .. score) = score
  BY <1>1, FS_Interval
<1>5. Cardinality({day} \X (1 .. score)) = Cardinality({day}) * Cardinality(1 .. score)
  BY <1>3, <1>4, FS_Product
<1>6. 1 * score = score
  BY <1>1
<1>7. Cardinality({day} \X (1 .. score)) = score
  BY <1>3, <1>4, <1>5, <1>6
<1> QED
  BY <1>2, <1>7 DEF TotalIn

\* Storing a score keeps a table, lets it grow, and leaves no lower score there.
LEMMA Stored ==
  ASSUME scores \in Table, NEW d \in Device, NEW day \in Day, NEW score \in Score,
         SubmitScore(d, day, score)
  PROVE  /\ scores' \in Table /\ Grows(scores, scores')
         /\ score <= TotalIn(scores', d, {day})
<1> DEFINE old == scores[d]
           new == [x \in DOMAIN old \cup {day} |->
                     IF x = day /\ (day \notin DOMAIN old \/ score > old[day])
                       THEN score ELSE old[x]]
<1>1. scores' = [scores EXCEPT ![d] = new]
  BY DEF SubmitScore
<1>2. /\ DOMAIN old \in SUBSET Day
      /\ \A x \in DOMAIN old : old[x] \in Score /\ old[x] \in 0 .. MaxInt
  BY Rowed DEF Table
<1>3. score \in 0 .. MaxInt
  BY ScoresAssumption
<1>4. \A x \in DOMAIN old \cup {day} : new[x] \in Score
  BY <1>2
<1>5. new \in [DOMAIN old \cup {day} -> Score] /\ DOMAIN old \cup {day} \in SUBSET Day
  BY <1>2, <1>4
<1>6. new \in Rows
  BY <1>5 DEF Rows
<1>7. \A x \in DOMAIN old : x \in DOMAIN new /\ old[x] <= new[x]
  BY <1>2, <1>3
<1>8. day \in DOMAIN new /\ score <= new[day]
  BY <1>2, <1>3
<1> HIDE DEF new
<1>9. scores' \in Table /\ scores'[d] = new /\ \A e \in Device : e # d => scores'[e] = scores[e]
  BY <1>1, <1>6 DEF Table
<1>10. Grows(scores, scores')
  <2> SUFFICES ASSUME NEW e \in Device, NEW x \in DOMAIN scores[e]
               PROVE  x \in DOMAIN scores'[e] /\ scores[e][x] <= scores'[e][x]
    BY DEF Grows
  <2>1. CASE e = d
    BY <1>7, <1>9, <2>1
  <2>2. CASE e # d
    <3>1. scores[e][x] \in Nat
      BY Rowed DEF Table
    <3> QED
      BY <1>9, <2>2, <3>1
  <2> QED
    BY <2>1, <2>2
<1>11. TotalIn(scores', d, {day}) = new[day]
  BY <1>8, <1>9, DayTotal
<1> QED
  BY <1>8, <1>9, <1>10, <1>11

-----------------------------------------------------------------------------
(* A request that takes no step stays sound while others store scores. *)

LEMMA Waiting ==
  ASSUME NEW before \in Table, NEW after \in Table, Grows(before, after),
         NEW step \in Step, NEW q \in Reply, NEW first \in SUBSET Device,
         NEW dirty \in BOOLEAN, NEW dirtier \in BOOLEAN,
         Sound(before, step, q, first, dirty),
         step # "idle" /\ ~dirtier => ~dirty /\ after = before
  PROVE  Sound(after, step, q, first, dirtier)
<1>1. q.days \in SUBSET Day /\ q.floor \in Nat /\ q.score \in Nat /\ q.rank \in Nat
  BY DEF Reply
<1>2. step # "idle" => q.device \in Device
  BY DEF Sound
<1>3. step = "score" => q.floor <= TotalIn(after, q.device, q.days)
  <2>1. TotalIn(before, q.device, q.days) \in Nat /\ TotalIn(after, q.device, q.days) \in Nat
    BY <1>1, Totals
  <2>2. step = "score" => TotalIn(before, q.device, q.days) <= TotalIn(after, q.device, q.days)
    BY <1>1, <1>2, TotalsGrow
  <2> QED
    BY <1>1, <2>1, <2>2 DEF Sound
<1>4. /\ BetterIn(before, q.score, q.days) \subseteq BetterIn(after, q.score, q.days)
      /\ Cardinality(BetterIn(before, q.score, q.days))
           <= Cardinality(BetterIn(after, q.score, q.days))
  BY <1>1, BetterGrows
<1>5. /\ Cardinality(BetterIn(before, q.score, q.days)) \in Nat
      /\ Cardinality(BetterIn(after, q.score, q.days)) \in Nat
  BY Counted, Devices
<1>6. step = "count" => first \subseteq BetterIn(after, q.score, q.days)
  BY <1>4 DEF Sound
<1>7. step = "answer" => /\ Cardinality(first) < q.rank
                         /\ q.rank <= Cardinality(BetterIn(after, q.score, q.days)) + 1
  BY <1>1, <1>4, <1>5 DEF Sound
<1>8. step # "idle" /\ q.place > 0 /\ ~dirtier =>
        /\ q.place >= FirstIn(after, q.device, q.days)
        /\ q.place < AfterIn(after, q.device, q.days)
        /\ step \in {"count", "answer"} => q.score = TotalIn(after, q.device, q.days)
        /\ step = "answer" => q.rank = FirstIn(after, q.device, q.days)
  BY DEF Sound
<1> QED
  BY <1>2, <1>3, <1>6, <1>7, <1>8 DEF Sound

LEMMA Unchanged == scores \in Table => Grows(scores, scores)
<1> SUFFICES ASSUME scores \in Table, NEW d \in Device, NEW day \in DOMAIN scores[d]
             PROVE  scores[d][day] <= scores[d][day]
  BY DEF Grows
<1>1. scores[d][day] \in Nat
  BY Rowed DEF Table
<1> QED
  BY <1>1

Types ==
  /\ scores \in Table
  /\ pc \in [Request -> Step]
  /\ req \in [Request -> Reply]
  /\ ahead \in [Request -> SUBSET Device]
  /\ changed \in [Request -> BOOLEAN]

LEMMA TypesAre == TypeOK <=> Types
BY DEF TypeOK, Types, Table, Step, Reply

\* A step of one request: it is sound after it, and nobody else has moved.
LEMMA OneMoves ==
  ASSUME Inv, NEW r \in Request,
         scores' \in Table, Grows(scores, scores'),
         NEW step \in Step, NEW q \in Reply, NEW first \in SUBSET Device,
         pc' = [pc EXCEPT ![r] = step],
         req' = [req EXCEPT ![r] = q],
         ahead' = [ahead EXCEPT ![r] = first],
         changed' \in [Request -> BOOLEAN],
         \A s \in Request : pc[s] # "idle" /\ s # r /\ ~changed'[s] =>
                              ~changed[s] /\ scores' = scores,
         Sound(scores', step, q, first, changed'[r])
  PROVE  Inv'
<1>1. Types
  BY TypesAre DEF Inv
<1>2. Types'
  BY <1>1 DEF Types
<1>3. TypeOK'
  BY <1>2 DEF TypeOK, Types, Table, Step, Reply
<1>4. ASSUME NEW s \in Request
      PROVE  Sound(scores', pc'[s], req'[s], ahead'[s], changed'[s])
  <2>1. CASE s = r
    <3>1. pc'[s] = step /\ req'[s] = q /\ ahead'[s] = first
      BY <1>1, <2>1 DEF Types
    <3> QED
      BY <2>1, <3>1
  <2>2. CASE s # r
    <3>1. pc'[s] = pc[s] /\ req'[s] = req[s] /\ ahead'[s] = ahead[s]
      BY <1>1, <2>2 DEF Types
    <3>2. Sound(scores, pc[s], req[s], ahead[s], changed[s])
      BY DEF Inv
    <3>3. /\ pc[s] \in Step /\ req[s] \in Reply /\ ahead[s] \in SUBSET Device
          /\ changed[s] \in BOOLEAN /\ changed'[s] \in BOOLEAN /\ scores \in Table
      BY <1>1 DEF Types
    <3>4. pc[s] # "idle" /\ ~changed'[s] => ~changed[s] /\ scores' = scores
      BY <2>2
    <3> QED
      BY <3>1, <3>2, <3>3, <3>4, Waiting
  <2> QED
    BY <2>1, <2>2
<1> QED
  BY <1>3, <1>4 DEF Inv

-----------------------------------------------------------------------------
(* The steps. *)

LEMMA NoReply == NoRequest \in Reply /\ NoRequest.place = 0
<1>1. 0 \in 0 .. MaxInt /\ 0 \in 0 .. Limit /\ 0 \in 0 .. Cardinality(Device) + 1
  BY ScoresAssumption, FS_CardinalityType
<1> QED
  BY <1>1 DEF NoRequest, Reply

LEMMA IdleSound ==
  ASSUME NEW table, NEW q, NEW first, NEW dirty
  PROVE  Sound(table, "idle", q, first, dirty)
BY DEF Sound

\* NoteChange: whoever runs and is not changed has seen no score stored.
LEMMA Noted ==
  ASSUME Types, NoteChange
  PROVE  /\ changed' \in [Request -> BOOLEAN]
         /\ \A s \in Request : pc[s] # "idle" /\ ~changed'[s] =>
                                 ~changed[s] /\ scores' = scores
<1>1. changed' = [r \in Request |-> changed[r] \/ (r \in Running /\ scores' # scores)]
  BY DEF NoteChange
<1>2. \A r \in Request : changed'[r] = (changed[r] \/ (r \in Running /\ scores' # scores))
  BY <1>1
<1>3. changed' \in [Request -> BOOLEAN]
  BY <1>1, Zenon
<1> QED
  BY <1>2, <1>3 DEF Running

LEMMA PostScoreInv ==
  ASSUME Inv, NEW r \in Request, PostScore(r)
  PROVE  Inv'
<1>1. Types
  BY TypesAre DEF Inv
<1>2. PICK d \in Device : \E day \in Day, score \in Score :
        /\ SubmitScore(d, day, score)
        /\ req' = [req EXCEPT ![r] =
                     [NoRequest EXCEPT !.device = d, !.days = {day}, !.floor = score]]
  BY DEF PostScore
<1>3. PICK day \in Day : \E score \in Score :
        /\ SubmitScore(d, day, score)
        /\ req' = [req EXCEPT ![r] =
                     [NoRequest EXCEPT !.device = d, !.days = {day}, !.floor = score]]
  BY <1>2
<1>4. PICK score \in Score :
        /\ SubmitScore(d, day, score)
        /\ req' = [req EXCEPT ![r] =
                     [NoRequest EXCEPT !.device = d, !.days = {day}, !.floor = score]]
  BY <1>3
<1> DEFINE q == [NoRequest EXCEPT !.device = d, !.days = {day}, !.floor = score]
<1>5. /\ q \in Reply
      /\ q.device = d /\ q.days = {day} /\ q.floor = score /\ q.place = 0
  BY NoReply, ScoresAssumption DEF NoRequest, Reply
<1>6. req' = [req EXCEPT ![r] = q]
  BY <1>4
<1> HIDE DEF q
<1>7. /\ scores' \in Table /\ Grows(scores, scores')
      /\ score <= TotalIn(scores', d, {day})
  BY <1>1, <1>4, Stored DEF Types
<1>8. Sound(scores', "score", q, ahead[r], changed'[r])
  BY <1>5, <1>7 DEF Sound
<1>9. pc' = [pc EXCEPT ![r] = "score"] /\ ahead' = [ahead EXCEPT ![r] = ahead[r]]
        /\ ahead[r] \in SUBSET Device
  BY <1>1 DEF PostScore, Types
<1>10. NoteChange /\ "score" \in Step
  BY DEF PostScore, Step
<1> QED
  BY <1>1, <1>5, <1>6, <1>7, <1>8, <1>9, <1>10, Noted, OneMoves

LEMMA PostScoreFailsInv ==
  ASSUME Inv, NEW r \in Request, PostScoreFails(r)
  PROVE  Inv'
<1>1. Types
  BY TypesAre DEF Inv
<1>2. PICK d \in Device : \E day \in Day, score \in Score : SubmitScore(d, day, score)
  BY DEF PostScoreFails
<1>3. PICK day \in Day : \E score \in Score : SubmitScore(d, day, score)
  BY <1>2
<1>4. PICK score \in Score : SubmitScore(d, day, score)
  BY <1>3
<1>5. scores' \in Table /\ Grows(scores, scores')
  BY <1>1, <1>4, Stored DEF Types
<1>6. /\ pc' = [pc EXCEPT ![r] = "idle"]
      /\ req' = [req EXCEPT ![r] = req[r]] /\ req[r] \in Reply
      /\ ahead' = [ahead EXCEPT ![r] = ahead[r]] /\ ahead[r] \in SUBSET Device
      /\ "idle" \in Step
  BY <1>1 DEF PostScoreFails, Types, Step
<1>7. NoteChange
  BY DEF PostScoreFails
<1> QED
  BY <1>1, <1>5, <1>6, <1>7, IdleSound, Noted, OneMoves

LEMMA BoardDays ==
  ASSUME NEW day \in Day, NEW days \in Board(day)
  PROVE  days \in SUBSET Day
BY DEF Board

\* A place on the board: that of the device, among those with an equal total.
LEMMA Placed ==
  ASSUME NEW d \in Device, NEW days \in SUBSET Day, NEW place \in Places(d, days)
  PROVE  /\ place \in 0 .. Limit
         /\ place > 0 => /\ d \in Ranked(days)
                         /\ place >= FirstIn(scores, d, days)
                         /\ place < AfterIn(scores, d, days)
<1> DEFINE total == TotalIn(scores, d, days)
           better == Cardinality(BetterIn(scores, total, days))
           tied == Cardinality(TiedIn(scores, total, days))
<1>1. better \in Nat /\ tied \in Nat
  BY Counted, Devices
<1>2. Ranks(d, days) = better + 1 .. better + 1 + tied - 1
  BY Queries DEF Ranks
<1>3. CASE d \notin Ranked(days)
  BY <1>3, ScoresAssumption DEF Places
<1>4. CASE d \in Ranked(days)
  <2>1. PICK p \in Ranks(d, days) : place = IF p <= Limit THEN p ELSE 0
    BY <1>4 DEF Places
  <2>2. p \in better + 1 .. better + 1 + tied - 1
    BY <1>2, <2>1
  <2>3. place \in 0 .. Limit /\ (place > 0 => place >= better + 1 /\ place < better + 1 + tied)
    BY <1>1, <2>1, <2>2, ScoresAssumption
  <2> QED
    BY <1>4, <2>3 DEF FirstIn, AfterIn
<1> QED
  BY <1>3, <1>4

LEMMA GetLeaderboardInv ==
  ASSUME Inv, NEW r \in Request, GetLeaderboard(r)
  PROVE  Inv'
<1>1. Types
  BY TypesAre DEF Inv
<1>2. PICK d \in Device : \E day \in Day : \E days \in Board(day) : \E place \in Places(d, days) :
        /\ \A x \in Ranked(days) : Total(x, days) <= MaxInt
        /\ req' = [req EXCEPT ![r] =
             [NoRequest EXCEPT !.device = d, !.days = days, !.place = place,
                !.floor = IF place > 0 THEN Total(d, days) ELSE 0]]
  BY DEF GetLeaderboard
<1>3. PICK day \in Day : \E days \in Board(day) : \E place \in Places(d, days) :
        /\ \A x \in Ranked(days) : Total(x, days) <= MaxInt
        /\ req' = [req EXCEPT ![r] =
             [NoRequest EXCEPT !.device = d, !.days = days, !.place = place,
                !.floor = IF place > 0 THEN Total(d, days) ELSE 0]]
  BY <1>2
<1>4. PICK days \in Board(day) : \E place \in Places(d, days) :
        /\ \A x \in Ranked(days) : Total(x, days) <= MaxInt
        /\ req' = [req EXCEPT ![r] =
             [NoRequest EXCEPT !.device = d, !.days = days, !.place = place,
                !.floor = IF place > 0 THEN Total(d, days) ELSE 0]]
  BY <1>3
<1>5. PICK place \in Places(d, days) :
        /\ \A x \in Ranked(days) : Total(x, days) <= MaxInt
        /\ req' = [req EXCEPT ![r] =
             [NoRequest EXCEPT !.device = d, !.days = days, !.place = place,
                !.floor = IF place > 0 THEN Total(d, days) ELSE 0]]
  BY <1>4
<1>6. days \in SUBSET Day
  BY BoardDays
<1> DEFINE total == TotalIn(scores, d, days)
           floor == IF place > 0 THEN total ELSE 0
           q == [NoRequest EXCEPT !.device = d, !.days = days, !.place = place, !.floor = floor]
<1>7. total \in Nat /\ Total(d, days) = total
  BY <1>6, Totals, Queries
<1>8. /\ place \in 0 .. Limit
      /\ place > 0 => /\ d \in Ranked(days)
                      /\ place >= FirstIn(scores, d, days)
                      /\ place < AfterIn(scores, d, days)
  BY <1>6, Placed
<1>9. floor \in 0 .. MaxInt /\ floor <= total
  BY <1>5, <1>7, <1>8, ScoresAssumption
<1>10. req' = [req EXCEPT ![r] = q]
  BY <1>5, <1>7
<1> HIDE DEF floor
<1>11. q \in Reply /\ q.device = d /\ q.days = days /\ q.floor = floor /\ q.place = place
  BY <1>6, <1>8, <1>9, NoReply DEF NoRequest, Reply
<1> HIDE DEF q
<1>12. /\ scores' = scores /\ scores' \in Table
       /\ pc' = [pc EXCEPT ![r] = "score"]
       /\ ahead' = [ahead EXCEPT ![r] = ahead[r]] /\ ahead[r] \in SUBSET Device
       /\ changed' = [changed EXCEPT ![r] = FALSE] /\ "score" \in Step
  BY <1>1 DEF GetLeaderboard, Types, Step
<1>13. Sound(scores', "score", q, ahead[r], changed'[r])
  BY <1>8, <1>9, <1>11, <1>12 DEF Sound
<1>14. changed' \in [Request -> BOOLEAN] /\ \A s \in Request : s # r => changed'[s] = changed[s]
  BY <1>1, <1>12 DEF Types
<1>15. Grows(scores, scores')
  BY <1>12, Unchanged
<1> QED
  BY <1>10, <1>11, <1>12, <1>13, <1>14, <1>15, OneMoves

\* What the steps that store nothing have in common.
LEMMA Reading ==
  ASSUME Inv, NEW r \in Request, UNCHANGED <<scores, changed>>
  PROVE  /\ Types /\ req[r] \in Reply /\ ahead[r] \in SUBSET Device
         /\ scores' = scores /\ scores' \in Table /\ Grows(scores, scores')
         /\ changed' \in [Request -> BOOLEAN] /\ changed' = changed
         /\ Sound(scores', pc[r], req[r], ahead[r], changed'[r])
<1>1. Types /\ Sound(scores, pc[r], req[r], ahead[r], changed[r])
  BY TypesAre DEF Inv
<1> QED
  BY <1>1, Unchanged DEF Types

LEMMA ReadScoreInv ==
  ASSUME Inv, NEW r \in Request, ReadScore(r)
  PROVE  Inv'
<1> DEFINE d == req[r].device
           days == req[r].days
           total == TotalIn(scores, d, days)
           q == [req[r] EXCEPT !.score = total]
           first == BetterIn(scores, total, days)
<1>1. UNCHANGED <<scores, changed>>
  BY DEF ReadScore
<1>2. /\ Types /\ req[r] \in Reply
      /\ scores' = scores /\ scores' \in Table /\ Grows(scores, scores')
      /\ changed' \in [Request -> BOOLEAN] /\ changed' = changed
      /\ Sound(scores', pc[r], req[r], ahead[r], changed'[r])
  BY <1>1, Reading
<1>3. /\ pc[r] = "score" /\ Total(d, days) <= MaxInt
      /\ req' = [req EXCEPT ![r].score = Total(d, days)]
      /\ ahead' = [ahead EXCEPT ![r] = Better(Total(d, days), days)]
      /\ pc' = [pc EXCEPT ![r] = "count"]
  BY DEF ReadScore
<1>4. Total(d, days) = total /\ Better(total, days) = first
  BY Queries
<1>5. days \in SUBSET Day
  BY <1>2 DEF Reply
<1>6. total \in 0 .. MaxInt
  BY <1>3, <1>4, <1>5, Totals, ScoresAssumption
<1>7. req' = [req EXCEPT ![r] = q] /\ ahead' = [ahead EXCEPT ![r] = first]
  BY <1>3, <1>4
<1>8. first \in SUBSET Device /\ "count" \in Step
  BY Counted DEF Step
<1> HIDE DEF total
<1>9. /\ q \in Reply /\ q.device = d /\ q.days = days /\ q.score = total
      /\ q.floor = req[r].floor /\ q.place = req[r].place
  BY <1>2, <1>6 DEF Reply
<1> HIDE DEF q
<1>10. Sound(scores', "count", q, first, changed'[r])
  <2>1. q.device \in Device /\ q.floor <= total
    BY <1>2, <1>3, <1>9 DEF Sound, total
  <2>2. q.score >= q.floor
    BY <1>6, <1>9, <2>1 DEF Reply
  <2>3. first \subseteq BetterIn(scores', q.score, q.days)
    BY <1>2, <1>9
  <2>4. q.place > 0 /\ ~changed'[r] =>
          /\ q.place >= FirstIn(scores', q.device, q.days)
          /\ q.place < AfterIn(scores', q.device, q.days)
          /\ q.score = TotalIn(scores', q.device, q.days)
    BY <1>2, <1>3, <1>9 DEF Sound, total
  <2> QED
    BY <2>1, <2>2, <2>3, <2>4 DEF Sound
<1> QED
  BY <1>2, <1>3, <1>7, <1>8, <1>9, <1>10, OneMoves

LEMMA EndInv ==
  ASSUME Inv, NEW r \in Request, End(r), UNCHANGED <<scores, changed>>
  PROVE  Inv'
<1>1. /\ Types /\ scores' = scores /\ scores' \in Table /\ Grows(scores, scores')
      /\ changed' \in [Request -> BOOLEAN] /\ changed' = changed
  BY Reading
<1>2. /\ pc' = [pc EXCEPT ![r] = "idle"] /\ req' = [req EXCEPT ![r] = NoRequest]
      /\ ahead' = [ahead EXCEPT ![r] = {}] /\ "idle" \in Step
  BY DEF End, Step
<1> QED
  BY <1>1, <1>2, NoReply, IdleSound, OneMoves

LEMMA CountBetterInv ==
  ASSUME Inv, NEW r \in Request, CountBetter(r)
  PROVE  Inv'
<1> DEFINE d == req[r].device
           days == req[r].days
           better == BetterIn(scores, req[r].score, days)
           rank == Cardinality(better) + 1
           q == [req[r] EXCEPT !.rank = rank]
<1>1. UNCHANGED <<scores, changed>>
  BY DEF CountBetter
<1>2. /\ Types /\ req[r] \in Reply /\ ahead[r] \in SUBSET Device
      /\ scores' = scores /\ scores' \in Table /\ Grows(scores, scores')
      /\ changed' \in [Request -> BOOLEAN] /\ changed' = changed
      /\ Sound(scores', pc[r], req[r], ahead[r], changed'[r])
  BY <1>1, Reading
<1>3. /\ pc[r] = "count" /\ pc' = [pc EXCEPT ![r] = "answer"]
      /\ req' = [req EXCEPT ![r].rank = Cardinality(Better(req[r].score, req[r].days)) + 1]
      /\ ahead' = [ahead EXCEPT ![r] = ahead[r]]
  BY <1>2 DEF CountBetter, Types
<1>4. Better(req[r].score, days) = better
  BY Queries
<1>5. req' = [req EXCEPT ![r] = q]
  BY <1>3, <1>4
<1>6. IsFiniteSet(better) /\ rank \in 1 .. Cardinality(Device) + 1
  BY Counted, Devices
<1>7. ahead[r] \subseteq better
  BY <1>2, <1>3 DEF Sound
<1>8. Cardinality(ahead[r]) < rank
  BY <1>2, <1>6, <1>7, Devices, FS_Subset, Counted
<1>9. "answer" \in Step
  BY DEF Step
<1> HIDE DEF rank
<1>10. /\ q \in Reply /\ q.device = d /\ q.days = days /\ q.score = req[r].score
       /\ q.floor = req[r].floor /\ q.place = req[r].place /\ q.rank = rank
  BY <1>2, <1>6 DEF Reply
<1> HIDE DEF q
<1>11. Sound(scores', "answer", q, ahead[r], changed'[r])
  <2>1. q.device \in Device /\ q.score >= q.floor
    BY <1>2, <1>3, <1>10 DEF Sound
  <2>2. q.rank = Cardinality(BetterIn(scores', q.score, q.days)) + 1
    BY <1>2, <1>10 DEF rank
  <2>3. q.rank <= Cardinality(BetterIn(scores', q.score, q.days)) + 1
    BY <1>6, <1>10, <2>2
  <2>4. q.place > 0 /\ ~changed'[r] =>
          /\ q.place >= FirstIn(scores', q.device, q.days)
          /\ q.place < AfterIn(scores', q.device, q.days)
          /\ q.score = TotalIn(scores', q.device, q.days)
    BY <1>2, <1>3, <1>10 DEF Sound
  <2>5. q.place > 0 /\ ~changed'[r] => q.rank = FirstIn(scores', q.device, q.days)
    BY <2>2, <2>4 DEF FirstIn
  <2> QED
    BY <1>8, <1>10, <2>1, <2>3, <2>4, <2>5 DEF Sound
<1> QED
  BY <1>2, <1>3, <1>5, <1>9, <1>10, <1>11, OneMoves

LEMMA StepInv ==
  ASSUME Inv, [Next]_vars
  PROVE  Inv'
<1>1. ASSUME NEW r \in Request, ReadScoreFails(r) \/ Answer(r) PROVE Inv'
  BY <1>1, EndInv DEF ReadScoreFails, Answer
<1>2. CASE UNCHANGED vars
  BY <1>2 DEF vars, Inv, TypeOK
<1> QED
  BY <1>1, <1>2, PostScoreInv, PostScoreFailsInv, GetLeaderboardInv, ReadScoreInv,
     CountBetterInv DEF Next

LEMMA InitInv == Init => Inv
<1> SUFFICES ASSUME Init PROVE Inv
  OBVIOUS
<1>1. <<>> \in Rows
  <2>1. <<>> \in [{} -> Score] /\ {} \in SUBSET Day
    OBVIOUS
  <2> QED
    BY <2>1 DEF Rows
<1>2. TypeOK
  BY <1>1, NoReply DEF Init, TypeOK, Reply
<1> QED
  BY <1>2, IdleSound DEF Init, Inv

LEMMA InvCorrect == Spec => []Inv
BY InitInv, StepInv, PTL DEF Spec

-----------------------------------------------------------------------------

(* Every variable of Scores keeps its type: no total that is no INTEGER     *)
(* gets into an answer, and no rank is beyond the last device.              *)
THEOREM TypeCorrect == Spec => []TypeOK
BY InvCorrect, PTL DEF Inv

(* The score answered is never lower than the one the request submitted or  *)
(* than the one its board shows, for any number of requests.                *)
THEOREM BestScoreCorrect == Spec => []BestScoreKept
<1>1. Inv => BestScoreKept
  BY DEF Inv, BestScoreKept, Sound
<1> QED
  BY <1>1, InvCorrect, PTL

(* The rank lies between the one the score had when it was read and the one *)
(* it has by now.                                                           *)
THEOREM RankCorrect == Spec => []RankIsBounded
<1>1. Inv => RankIsBounded
  BY Queries DEF Inv, RankIsBounded, Sound
<1> QED
  BY <1>1, InvCorrect, PTL

(* The board and the rank of one answer agree if no score was stored while  *)
(* the request ran.                                                         *)
THEOREM BoardCorrect == Spec => []RankAgreesWithBoard
<1>1. Inv => RankAgreesWithBoard
  <2> SUFFICES ASSUME Inv, NEW r \in Request, pc[r] = "answer", req[r].place > 0, ~changed[r]
               PROVE  /\ req[r].place >= req[r].rank
                      /\ req[r].place < req[r].rank
                           + Cardinality(Tied(req[r].score, req[r].days))
    BY DEF RankAgreesWithBoard
  <2>1. Sound(scores, pc[r], req[r], ahead[r], changed[r])
    BY DEF Inv
  <2>2. Tied(req[r].score, req[r].days) = TiedIn(scores, req[r].score, req[r].days)
    BY Queries
  <2> QED
    BY <2>1, <2>2 DEF Sound, AfterIn
<1> QED
  BY <1>1, InvCorrect, PTL

=============================================================================
