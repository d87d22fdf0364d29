------------------------------- MODULE Scores -------------------------------
(***************************************************************************)
(* The scores of one puzzle and its boards: the best score of each device  *)
(* and day in PostgreSQL, the board of a day and that of a week, and the   *)
(* rank of a device on it.                                                 *)
(*                                                                         *)
(* A board and the rank beside it are read by three separate queries, and  *)
(* a submitted score and its rank by as many, while other requests store   *)
(* scores.  The order among equal totals (updated_at) is left open.        *)
(***************************************************************************)
EXTENDS Naturals, FiniteSets

CONSTANTS
  Device,
  Request,    \* the requests the server may be handling at one time
  LastDay,    \* bound: days are numbered from 1 to this one
  WeekDays,   \* the days of a week: 7 in the code
  Score,      \* what the apps submit
  MaxInt,     \* the largest INTEGER of PostgreSQL
  Limit,      \* the length of a board
  NoDevice,   \* a request that is not being handled has no device
  MayFail     \* whether queries may fail

ASSUME ScoresAssumption ==
  /\ IsFiniteSet(Device) /\ NoDevice \notin Device
  /\ LastDay \in Nat /\ WeekDays \in Nat \ {0} /\ Limit \in Nat \ {0}
  /\ MaxInt \in Nat /\ Score \subseteq 0 .. MaxInt
  /\ MayFail \in BOOLEAN

Day == 1 .. LastDay

VARIABLES
  scores,   \* table scores: the score of each device on each day it has played
  pc, req,  \* each request: its next query, what it asks and has read
  ahead,    \* history: the devices ahead of its own when it read its own score
  changed   \* history: a score was stored while it ran

vars == <<scores, pc, req, ahead, changed>>

NoRequest == [device |-> NoDevice, days |-> {}, floor |-> 0, place |-> 0,
              score |-> 0, rank |-> 0]

Init ==
  /\ scores = [d \in Device |-> <<>>]
  /\ pc = [r \in Request |-> "idle"]
  /\ req = [r \in Request |-> NoRequest]
  /\ ahead = [r \in Request |-> {}]
  /\ changed = [r \in Request |-> FALSE]

-----------------------------------------------------------------------------
(* What the queries compute. *)

Ranked(days) == {d \in Device : DOMAIN scores[d] \cap days # {}}

\* SUM(score): how many points the device has on these days.
Points(d, days) ==
  {p \in days \X (1 .. MaxInt) : p[1] \in DOMAIN scores[d] /\ p[2] <= scores[d][p[1]]}
Total(d, days) == Cardinality(Points(d, days))

Better(score, days) == {d \in Ranked(days) : Total(d, days) > score}
Tied(score, days) == {d \in Ranked(days) : Total(d, days) = score}

\* The days of a board: one, or the week that ends with it.
Board(day) == {{day}, {d \in Day : d <= day /\ d + WeekDays > day}}

\* Mutant: the score that was there is overwritten.
SubmitScoreLast(d, day, score) ==
  scores' = [scores EXCEPT ![d] =
    [x \in DOMAIN @ \cup {day} |-> IF x = day THEN score ELSE @[x]]]

SubmitScore(d, day, score) ==
  scores' = [scores EXCEPT ![d] =
    [x \in DOMAIN @ \cup {day} |->
       IF x = day /\ (day \notin DOMAIN @ \/ score > @[day]) THEN score ELSE @[x]]]

-----------------------------------------------------------------------------
(* The requests. *)

End(r) ==
  /\ pc' = [pc EXCEPT ![r] = "idle"]
  /\ req' = [req EXCEPT ![r] = NoRequest]
  /\ ahead' = [ahead EXCEPT ![r] = {}]

Running == {r \in Request : pc[r] # "idle"}
NoteChange == changed' = [r \in Request |-> changed[r] \/ (r \in Running /\ scores' # scores)]

\* POST /api/v1/scores: the score is stored, the rank on the day's board is next.
PostScore(r) ==
  /\ pc[r] = "idle"
  /\ \E d \in Device, day \in Day, score \in Score :
       /\ SubmitScore(d, day, score)
       /\ req' = [req EXCEPT ![r] =
                    [NoRequest EXCEPT !.device = d, !.days = {day}, !.floor = score]]
  /\ pc' = [pc EXCEPT ![r] = "score"]
  /\ NoteChange
  /\ UNCHANGED ahead

\* The INSERT returns an error after it was executed: the answer is 500.
PostScoreFails(r) ==
  /\ MayFail
  /\ pc[r] = "idle"
  /\ \E d \in Device, day \in Day, score \in Score : SubmitScore(d, day, score)
  /\ NoteChange
  /\ UNCHANGED <<pc, req, ahead>>

\* The places a device may get: after those with a higher total, and before or
\* after each with an equal one.
Ranks(d, days) ==
  LET score == Total(d, days)
      first == Cardinality(Better(score, days)) + 1 IN
  first .. first + Cardinality(Tied(score, days)) - 1

\* Mutant: the board has no limit.
PlacesUnlimited(d, days) == IF d \in Ranked(days) THEN Ranks(d, days) ELSE {0}

\* The place on the board, 0 if the device has not played or comes after its end.
Places(d, days) ==
  IF d \in Ranked(days) THEN {IF p <= Limit THEN p ELSE 0 : p \in Ranks(d, days)} ELSE {0}

\* GET /api/v1/leaderboard: the board first.  One total that is no INTEGER, and
\* the query fails: the answer is 500.
GetLeaderboard(r) ==
  /\ pc[r] = "idle"
  /\ \E d \in Device, day \in Day : \E days \in Board(day) : \E place \in Places(d, days) :
       /\ \A x \in Ranked(days) : Total(x, days) <= MaxInt
       /\ req' = [req EXCEPT ![r] =
            [NoRequest EXCEPT !.device = d, !.days = days, !.place = place,
               !.floor = IF place > 0 THEN Total(d, days) ELSE 0]]
  /\ pc' = [pc EXCEPT ![r] = "score"]
  /\ changed' = [changed EXCEPT ![r] = FALSE]
  /\ UNCHANGED <<scores, ahead>>

\* MyRank or MyRankWeekly, first query.
ReadScore(r) ==
  LET d == req[r].device
      days == req[r].days
      score == Total(d, days) IN
  /\ pc[r] = "score"
  /\ d \in Ranked(days) /\ score <= MaxInt
  /\ req' = [req EXCEPT ![r].score = score]
  /\ ahead' = [ahead EXCEPT ![r] = Better(score, days)]
  /\ pc' = [pc EXCEPT ![r] = "count"]
  /\ UNCHANGED <<scores, changed>>

\* A device that has not played, a total that is no INTEGER, or an error: the
\* answer says nothing of the device.
ReadScoreFails(r) ==
  /\ pc[r] = "score"
  /\ \/ req[r].device \notin Ranked(req[r].days)
     \/ Total(req[r].device, req[r].days) > MaxInt
     \/ MayFail
  /\ End(r)
  /\ UNCHANGED <<scores, changed>>

\* Mutants: equal totals are counted too; and the day is forgotten.
CountEqualToo(r) ==
  /\ pc[r] = "count"
  /\ req' = [req EXCEPT ![r].rank =
       Cardinality(Better(req[r].score, req[r].days) \cup Tied(req[r].score, req[r].days)) + 1]
  /\ pc' = [pc EXCEPT ![r] = "answer"]
  /\ UNCHANGED <<scores, ahead, changed>>

CountAllDays(r) ==
  /\ pc[r] = "count"
  /\ req' = [req EXCEPT ![r].rank = Cardinality(Better(req[r].score, Day)) + 1]
  /\ pc' = [pc EXCEPT ![r] = "answer"]
  /\ UNCHANGED <<scores, ahead, changed>>

\* Second query: how many are better than the score of the first.
CountBetter(r) ==
  /\ pc[r] = "count"
  /\ req' = [req EXCEPT ![r].rank = Cardinality(Better(req[r].score, req[r].days)) + 1]
  /\ pc' = [pc EXCEPT ![r] = "answer"]
  /\ UNCHANGED <<scores, ahead, changed>>

\* The answer is sent, or the second query has failed.
Answer(r) ==
  /\ pc[r] = "answer" \/ (MayFail /\ pc[r] = "count")
  /\ End(r)
  /\ UNCHANGED <<scores, changed>>

Next == \E r \in Request :
  \/ PostScore(r) \/ PostScoreFails(r) \/ GetLeaderboard(r)
  \/ ReadScore(r) \/ ReadScoreFails(r) \/ CountBetter(r) \/ Answer(r)

Spec == Init /\ [][Next]_vars

-----------------------------------------------------------------------------

Rows == UNION {[days -> Score] : days \in SUBSET Day}

TypeOK ==
  /\ scores \in [Device -> Rows]
  /\ pc \in [Request -> {"idle", "score", "count", "answer"}]
  /\ req \in [Request -> [device : Device \cup {NoDevice}, days : SUBSET Day, floor : 0 .. MaxInt,
                place : 0 .. Limit, score : 0 .. MaxInt, rank : 0 .. Cardinality(Device) + 1]]
  /\ ahead \in [Request -> SUBSET Device]
  /\ changed \in [Request -> BOOLEAN]

(* "The best score of the day" (store.go, lines 136-137), seen from the     *)
(* answers: the score answered is never lower than the one the request has  *)
(* submitted, nor than the one its board shows, whatever was submitted in   *)
(* the meantime.                                                            *)
BestScoreKept ==
  \A r \in Request : pc[r] \in {"count", "answer"} => req[r].score >= req[r].floor

(* The two queries of MyRank see different moments.  The rank is no better  *)
(* than the one the score had when it was read, and no worse than it is by  *)
(* now; a device that has improved in between is counted as ahead of itself.*)
RankIsBounded ==
  \A r \in Request : pc[r] = "answer" =>
    /\ Cardinality(ahead[r]) < req[r].rank
    /\ req[r].rank <= Cardinality(Better(req[r].score, req[r].days)) + 1

(* The board and the rank of one answer agree: when no score was stored     *)
(* while the request ran, the device's place on the board is its rank, or   *)
(* one of those after it when others have an equal total.                   *)
RankAgreesWithBoard ==
  \A r \in Request : pc[r] = "answer" /\ req[r].place > 0 /\ ~changed[r] =>
    /\ req[r].place >= req[r].rank
    /\ req[r].place < req[r].rank + Cardinality(Tied(req[r].score, req[r].days))

=============================================================================
