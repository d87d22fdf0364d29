----------------------------- MODULE ContentBoot -----------------------------
(***************************************************************************)
(* The life of the server process around ContentSync: it stops at any      *)
(* moment, is started again, fills empty tables from content.json, warms   *)
(* the cache and only then serves.  PostgreSQL and Redis outlive it, and   *)
(* so does what the last process left there: half a seed, a change without *)
(* its increment, an old bundle.                                           *)
(***************************************************************************)
EXTENDS ContentSync

CONSTANTS
  SeedRows,     \* the rows of content.json
  FileVersion   \* its version

\* A row is a row of one table.
ASSUME SeedAssumption ==
  /\ SeedRows \in Contents /\ \A t \in Table : SeedRows[t] \subseteq RowsOf[t]
  /\ \A s, t \in Table : s # t => RowsOf[s] \cap RowsOf[t] = {}
  /\ FileVersion \in Int

VARIABLES
  phase,      \* where main is; "up" when it serves
  todo,       \* the rows that a seed has still to insert
  inherited,  \* history: the first refresh of this process failed, and Redis
              \* still holds the bundle that an earlier process stored
  wasEmpty    \* history: the tables that were empty when the process started

bootVars == <<phase, todo>>
allVars == <<vars, bootVars, inherited, wasEmpty>>

Seeding == {"count", "seed", "seed version"}
SeedingConnections == {"count connections", "seed connections"}
Phase == {"off", "connect", "warm", "up"} \cup Seeding \cup SeedingConnections

EmptyTables == {t \in Table : tables[t] = {}}

BootInit ==
  /\ Init
  /\ phase = "off"
  /\ todo = {}
  /\ inherited = FALSE
  /\ wasEmpty = {}

-----------------------------------------------------------------------------
(* The start: one step per call of main. *)

\* The file is read and the tables are created where they are missing.  (When
\* this fails main exits, and the process is "off" as before.)
Open ==
  /\ phase = "off"
  /\ phase' = "count"
  /\ wasEmpty' = EmptyTables
  /\ UNCHANGED <<vars, todo, inherited>>

\* Mutant: the tables are seeded one by one.
CountEachTable ==
  /\ phase = "count"
  /\ LET empty == {"words", "questions"} \cap EmptyTables
     IN IF empty # {}
          THEN phase' = "seed" /\ todo' = UNION {SeedRows[t] : t \in empty}
          ELSE phase' = "count connections" /\ UNCHANGED todo
  /\ UNCHANGED <<vars, inherited, wasEmpty>>

\* SeedIfEmpty counts the words and the questions together.
Count ==
  /\ phase = "count"
  /\ IF {"words", "questions"} \subseteq EmptyTables
       THEN phase' = "seed" /\ todo' = SeedRows["words"] \cup SeedRows["questions"]
       ELSE phase' = "count connections" /\ UNCHANGED todo
  /\ UNCHANGED <<vars, inherited, wasEmpty>>

\* The rows to insert next: the questions follow the words.
Due(rows) == IF rows \cap Word # {} THEN rows \cap Word ELSE rows

Insert(r) ==
  tables' = [t \in Table |-> tables[t] \cup ({r} \cap SeedRows[t])]

SeedRow(next) ==
  /\ IF todo = {}
       THEN phase' = next /\ UNCHANGED <<tables, todo>>
       ELSE \E r \in Due(todo) : Insert(r) /\ todo' = todo \ {r} /\ UNCHANGED phase
  /\ UNCHANGED <<version, unannounced, cache, adminVars, buildVars, inherited, wasEmpty>>

\* The version of the file replaces whatever the counter was.
WriteVersion == version' = (IF FileVersion > 1 THEN FileVersion ELSE 1)

SeedVersion ==
  /\ phase = "seed version"
  /\ WriteVersion
  /\ phase' = "count connections"
  /\ UNCHANGED <<tables, unannounced, cache, adminVars, buildVars, todo, inherited, wasEmpty>>

\* SeedConnectionsIfEmpty, which does not touch the version.
CountConnections ==
  /\ phase = "count connections"
  /\ IF "connections" \in EmptyTables
       THEN phase' = "seed connections" /\ todo' = SeedRows["connections"]
       ELSE phase' = "connect" /\ UNCHANGED todo
  /\ UNCHANGED <<vars, inherited, wasEmpty>>

\* An error or the end of the 30 seconds is logged and main goes on.  The
\* statement that failed may have been executed.
SeedFails(next) ==
  /\ MayFail
  /\ \/ UNCHANGED <<tables, version>>
     \/ (\E r \in Due(todo) : Insert(r)) /\ UNCHANGED version
     \/ phase = "seed version" /\ WriteVersion /\ UNCHANGED tables
  /\ phase' = next
  /\ todo' = {}
  /\ UNCHANGED <<unannounced, cache, adminVars, buildVars, inherited, wasEmpty>>

Seed ==
  \/ Count
  \/ phase = "seed" /\ SeedRow("seed version")
  \/ SeedVersion
  \/ phase \in Seeding /\ SeedFails("count connections")
  \/ CountConnections
  \/ phase = "seed connections" /\ SeedRow("connect")
  \/ phase \in SeedingConnections /\ SeedFails("connect")

\* Redis is connected (main exits when it cannot be); then the first call of
\* RefreshContentCache begins.
Connect ==
  /\ phase = "connect"
  /\ phase' = "warm"
  /\ pc' = [pc EXCEPT ![Warmer] = "version"]
  /\ UNCHANGED <<dbVars, cache, adminVars, draft, todo, inherited, wasEmpty>>

\* Mutant: a bundle that Redis holds already is left alone.
RefreshIfAbsent ==
  IF pc[Warmer] = "store" /\ cache # NoBundle
    THEN pc' = [pc EXCEPT ![Warmer] = "idle"] /\ draft' = [draft EXCEPT ![Warmer] = NoDraft]
         /\ UNCHANGED <<dbVars, cache, adminVars>>
    ELSE ReadVersion(Warmer) \/ ReadTable(Warmer) \/ Store(Warmer)

\* RefreshContentCache while its calls succeed, and how it fails.
Refresh == ReadVersion(Warmer) \/ ReadTable(Warmer) \/ Store(Warmer)
RefreshFails == ReadFails(Warmer) \/ StoreFails(Warmer)

\* main waits for the end of the first refresh, failed or not, and listens.
\* After a failed one the apps are served what Redis holds already.
Warm ==
  /\ phase = "warm"
  /\ \/ Refresh /\ UNCHANGED inherited
     \/ RefreshFails /\ inherited' = (cache # NoBundle)
  /\ phase' = IF pc'[Warmer] = "idle" THEN "up" ELSE "warm"
  /\ UNCHANGED <<todo, wasEmpty>>

-----------------------------------------------------------------------------

\* The process ends: killed, by a fatal error, or five seconds after a signal.
\* Every handler ends with it, wherever it is.
Stop ==
  /\ phase # "off"
  /\ phase' = "off"
  /\ todo' = {}
  /\ step' = [a \in Admin |-> "idle"]
  /\ job' = [a \in Admin |-> NoJob]
  /\ wrote' = [a \in Admin |-> FALSE]
  /\ pc' = [b \in Builder |-> "idle"]
  /\ draft' = [b \in Builder |-> NoDraft]
  /\ unannounced' = FALSE
  /\ inherited' = FALSE
  /\ wasEmpty' = {}
  /\ UNCHANGED <<tables, version, cache>>

\* Redis drops the key whether or not the server runs.
ExpireKey ==
  /\ phase # "up"
  /\ CacheExpires
  /\ UNCHANGED <<bootVars, inherited, wasEmpty>>

\* The old bundle goes: the key is dropped, or set to what this process built.
Replaced == cache' = NoBundle \/ \E b \in Builder : pc[b] = "store" /\ cache' = draft[b]

\* While the process serves, everything of ContentSync may happen.
Served(action) ==
  /\ phase = "up"
  /\ action
  /\ inherited' = (inherited /\ ~Replaced)
  /\ UNCHANGED <<bootVars, wasEmpty>>

Serve == Served(Next)

BootStep == Open \/ Seed \/ Connect \/ Warm

BootNext == BootStep \/ Stop \/ ExpireKey \/ Serve

BootSpec == BootInit /\ [][BootNext]_allVars

\* The container is started again when the process ends (README.md, "restart:
\* unless-stopped"), a start goes on, and the rest is as in ContentSync.
\* Nothing keeps the process from stopping again and again.
BootFairness ==
  /\ WF_allVars(BootStep)
  /\ \A a \in Admin : WF_allVars(Served(AdminStep(a)))
  /\ \A b \in Builder : WF_allVars(Served(BuildStep(b)))
  /\ WF_allVars(Served(RefreshDue))
  /\ WF_allVars(ExpireKey \/ Served(CacheExpires \/ \E b \in Builder : Store(b)))

FairBootSpec == BootSpec /\ BootFairness

-----------------------------------------------------------------------------

BootTypeOK ==
  /\ TypeOK
  /\ phase \in Phase
  /\ todo \subseteq UNION {SeedRows[t] : t \in Table}
  /\ inherited \in BOOLEAN
  /\ wasEmpty \subseteq Table

(* A process that serves is not misled by what an earlier one left: the     *)
(* version identifies the content, although a seed may have set the counter *)
(* back below the version of the old bundle, connections may have been      *)
(* seeded and changes of the earlier process left without an increment.     *)
(* The refresh that main waits for before it listens sees to it.  Only when *)
(* that refresh failed is the old bundle served, until it is replaced; the  *)
(* property says nothing of that time.                                      *)
IdentifiesAgain == phase = "up" /\ ~inherited => VersionIdentifiesContent

(* An operator's content is not mixed with the file's: a process that is    *)
(* starting inserts words and questions only if it found neither, and       *)
(* connections only if it found none; it deletes nothing.                   *)
ContentIsKept ==
  [][phase # "up" =>
       /\ \A t \in Table : tables[t] \subseteq tables'[t]
       /\ tables'["connections"] # tables["connections"] => "connections" \in wasEmpty
       /\ {"words", "questions"} \subseteq wasEmpty
            \/ \A t \in {"words", "questions"} : tables'[t] = tables[t]]_allVars

=============================================================================
