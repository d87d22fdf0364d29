------------------------------ MODULE Leagues ------------------------------
(***************************************************************************)
(* Leagues of friends: one is created under a code nobody has yet, others  *)
(* join with the code, and its board ranks the members by their scores of  *)
(* a week.  A league and the membership of its owner are two statements    *)
(* without a transaction.                                                  *)
(***************************************************************************)
EXTENDS Names

CONSTANTS
  Device, Request,
  Code,        \* the codes genLeagueCode may draw
  RawName, RawLeagueName,   \* the names an app may send
  Nobody,      \* the owner of a code without a league
  Attempts,    \* how often a code is drawn: 8
  Day, Week,   \* bound: the days; how many of them a board covers: 7
  MayFail      \* whether calls to PostgreSQL may fail

ASSUME LeaguesAssumption ==
  /\ Nobody \notin Device
  /\ Attempts \in Nat \ {0} /\ Week \in Nat \ {0}
  /\ Day \subseteq Nat \ {0}
  /\ MayFail \in BOOLEAN

ASSUME RawNamesAssumption == RawName \cup RawLeagueName \subseteq Seq(DOMAIN LetterOf)

\* What the handlers make of them.
Name == {clampName(n) : n \in RawName}
LeagueName == {leagueName(n) : n \in RawLeagueName}

VARIABLES
  leagues,   \* for each code its league's owner and name
  members,   \* for each code the rows of league_members: devices and names
  pc,        \* each request: its next statement
  req,       \* each request: who asks, with which names, for which code
  told       \* history: the last answer 200 to each device

tables == <<leagues, members>>
vars == <<tables, pc, req, told>>

NoLeague == [owner |-> Nobody, name |-> ArkadasLigi]
Exists(code) == leagues[code] # NoLeague
MemberOf(code) == {row.device : row \in members[code]}

NoAnswer == [code |-> Nobody, did |-> "nothing"]

\* What a request carries: who asks, with which names, for which code.
Asks(d, name, league, code) ==
  [device |-> d, name |-> name, league |-> league, code |-> code, tries |-> 0]
NoRequest == Asks(Nobody, Anonim, ArkadasLigi, Nobody)

Init ==
  /\ leagues = [c \in Code |-> NoLeague]
  /\ members = [c \in Code |-> {}]
  /\ pc = [r \in Request |-> "idle"]
  /\ req = [r \in Request |-> NoRequest]
  /\ told = [d \in Device |-> NoAnswer]

-----------------------------------------------------------------------------

Go(r, next) == pc' = [pc EXCEPT ![r] = next]

\* The handler answers; what it answered with 200 is remembered.
Answer(r) ==
  /\ Go(r, "idle")
  /\ req' = [req EXCEPT ![r] = NoRequest]

PostLeague(r) ==
  /\ pc[r] = "idle"
  /\ \E d \in Device, name \in Name, league \in LeagueName :
       req' = [req EXCEPT ![r] = Asks(d, name, league, Nobody)]
  /\ Go(r, "create")
  /\ UNCHANGED <<tables, told>>

\* The membership still to insert.
Owning(request, c) == Asks(request.device, request.name, ArkadasLigi, c)

\* Mutant: an existing league is returned as the new one.
InsertLeagueUpserts(r) ==
  /\ pc[r] = "create"
  /\ ~req[r].league.broken
  /\ \E c \in Code :
       /\ leagues' = IF Exists(c) THEN leagues
                     ELSE [leagues EXCEPT ![c] = [owner |-> req[r].device, name |-> req[r].league]]
       /\ req' = [req EXCEPT ![r] = Owning(req[r], c)]
       /\ Go(r, "own")
  /\ UNCHANGED <<members, told>>

\* Mutant: one attempt too many.
InsertLeagueOnceMore(r) ==
  /\ pc[r] = "create"
  /\ ~req[r].league.broken
  /\ \E c \in Code :
       \/ /\ ~Exists(c)
          /\ leagues' = [leagues EXCEPT ![c] = [owner |-> req[r].device, name |-> req[r].league]]
          /\ req' = [req EXCEPT ![r] = Owning(req[r], c)]
          /\ Go(r, "own")
       \/ /\ Exists(c)
          /\ IF req[r].tries < Attempts
               THEN req' = [req EXCEPT ![r].tries = @ + 1] /\ UNCHANGED pc
               ELSE Answer(r)
          /\ UNCHANGED leagues
  /\ UNCHANGED <<members, told>>

\* One round of CreateLeague: INSERT ... ON CONFLICT (code) DO NOTHING.  A code
\* that is taken costs an attempt; after the last one the answer is an error.
InsertLeague(r) ==
  /\ pc[r] = "create"
  /\ ~req[r].league.broken
  /\ \E c \in Code :
       \/ /\ ~Exists(c)
          /\ leagues' = [leagues EXCEPT ![c] = [owner |-> req[r].device, name |-> req[r].league]]
          /\ req' = [req EXCEPT ![r] = Owning(req[r], c)]
          /\ Go(r, "own")
       \/ /\ Exists(c)
          /\ IF req[r].tries + 1 < Attempts
               THEN req' = [req EXCEPT ![r].tries = @ + 1] /\ UNCHANGED pc
               ELSE Answer(r)
          /\ UNCHANGED leagues
  /\ UNCHANGED <<members, told>>

\* PostgreSQL rejects half a character; any statement may fail, after it was
\* executed too.
InsertLeagueFails(r) ==
  /\ pc[r] = "create"
  /\ \/ req[r].league.broken /\ UNCHANGED leagues
     \/ /\ MayFail
        /\ \/ UNCHANGED leagues
           \/ ~req[r].league.broken /\ \E c \in {k \in Code : ~Exists(k)} :
                leagues' = [leagues EXCEPT ![c] = [owner |-> req[r].device, name |-> req[r].league]]
  /\ Answer(r)
  /\ UNCHANGED <<members, told>>

-----------------------------------------------------------------------------

\* JoinLeague looks the code up.  An unknown one is answered 404.
PostLeagueJoin(r) ==
  /\ pc[r] = "idle"
  /\ \E d \in Device, name \in Name, c \in Code :
       /\ Exists(c)
       /\ req' = [req EXCEPT ![r] = Asks(d, name, ArkadasLigi, c)]
  /\ Go(r, "join")
  /\ UNCHANGED <<tables, told>>

\* INSERT ... ON CONFLICT (league_id, device_id) DO UPDATE SET name.
Upsert(d, name, c) ==
  members' = [members EXCEPT ![c] =
    {row \in @ : row.device # d} \cup {[device |-> d, name |-> name]}]

InsertMember(r) ==
  /\ pc[r] \in {"own", "join"}
  /\ ~req[r].name.broken
  /\ Upsert(req[r].device, req[r].name, req[r].code)
  /\ told' = [told EXCEPT ![req[r].device] = [code |-> req[r].code, did |-> pc[r]]]
  /\ Answer(r)
  /\ UNCHANGED leagues

\* The league stays, with or without its owner.
InsertMemberFails(r) ==
  /\ pc[r] \in {"own", "join"}
  /\ \/ req[r].name.broken /\ UNCHANGED members
     \/ /\ MayFail
        /\ \/ UNCHANGED members
           \/ /\ ~req[r].name.broken
              /\ Upsert(req[r].device, req[r].name, req[r].code)
  /\ Answer(r)
  /\ UNCHANGED <<leagues, told>>

Next ==
  \E r \in Request :
    \/ PostLeague(r) \/ InsertLeague(r) \/ InsertLeagueFails(r)
    \/ PostLeagueJoin(r) \/ InsertMember(r) \/ InsertMemberFails(r)

Spec == Init /\ [][Next]_vars

-----------------------------------------------------------------------------
(* The two queries.  The table scores is Scores' affair; here it is the set *)
(* of days on which each device has scored, one point each.                *)

ScoresTable == [Device -> SUBSET Day]

MyLeagues(d) == {c \in Code : d \in MemberOf(c)}

Start(day) == IF day - (Week - 1) < 1 THEN 1 ELSE day - (Week - 1)
Total(scores, d, day) == Cardinality(scores[d] \cap (Start(day) .. day))

\* Mutant: the days are a condition on the rows, not on the join.
LeagueBoardInner(code, day, scores) ==
  {[row |-> row, total |-> Total(scores, row.device, day)] :
     row \in {m \in members[code] : Total(scores, m.device, day) > 0}}

\* The lines of the board of a league, one for each member, scores or not.
LeagueBoard(code, day, scores) ==
  {[row |-> row, total |-> Total(scores, row.device, day)] : row \in members[code]}

-----------------------------------------------------------------------------

TypeOK ==
  /\ leagues \in [Code -> [owner : Device, name : LeagueName] \cup {NoLeague}]
  /\ members \in [Code -> SUBSET [device : Device, name : Name]]
  /\ pc \in [Request -> {"idle", "create", "own", "join"}]
  /\ \A r \in Request : req[r].tries \in 0 .. Attempts - 1
  /\ told \in [Device -> [code : Code, did : {"own", "join"}] \cup {NoAnswer}]

(* An answer 200 stays true: who was told that he has created the league of *)
(* a code is its owner, however often codes collided, and he and everybody  *)
(* who was told that he has joined it finds it among his leagues.           *)
AnswersAreTrue ==
  \A d \in {e \in Device : told[e] # NoAnswer} :
    /\ told[d].code \in MyLeagues(d)
    /\ told[d].did = "own" => leagues[told[d].code].owner = d

(* On every day the board of a league has one line for each device that     *)
(* joined, whether or not it has scored and however often it has joined.    *)
BoardIsComplete ==
  \A c \in Code, day \in Day, scores \in ScoresTable :
    LET board == LeagueBoard(c, day, scores)
    IN /\ {line.row.device : line \in board} = MemberOf(c)
       /\ \A one, other \in board : one.row.device = other.row.device => one = other

Stored == {leagues[c].name : c \in Code} \cup {row.name : row \in UNION {members[c] : c \in Code}}
Tekrarsiz(word) == \A i \in 1 .. Len(word) - 1 : word[i] # word[i + 1]

Proper(name, limit) ==
  /\ name.chars # <<>> /\ ~name.broken
  /\ Size(name.chars) <= limit
  /\ \A word \in Blocklist : Tekrarsiz(word) => ~Hides(name.chars, word)

ProperNames ==
  {Anonim, Oyuncu, ArkadasLigi}
    \cup {name \in Name \ {Anonim, Oyuncu} : Proper(name, NameLimit)}
    \cup {name \in LeagueName \ {ArkadasLigi} : Proper(name, LeagueNameLimit)}

(* No name in the tables hides a blocked word, however its letters are      *)
(* repeated, replaced or set apart, none is longer than its limit, empty or *)
(* cut inside a character.  Of the blocked words with a double letter this  *)
(* says nothing: normalize leaves no double letters, they are never found.  *)
NamesAreModerated == Stored \subseteq ProperNames

(* store.go lines 263-264: CreateLeague makes a league and its owner, with  *)
(* his name, a member.  When no request is being handled, the owner of a    *)
(* league is one of its members.                                            *)
OwnerIsMember ==
  (\A r \in Request : pc[r] = "idle")
    => \A c \in Code : Exists(c) => leagues[c].owner \in MemberOf(c)

=============================================================================
