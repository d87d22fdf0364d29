----------------------------- MODULE ContentSync -----------------------------
(***************************************************************************)
(* The content service while it runs: the three content tables and the     *)
(* version counter in PostgreSQL, the bundle cached in Redis, the handlers *)
(* of the admin panel that change the tables, the requests of the apps for *)
(* the bundle and the daily goroutine that warms the cache.                *)
(*                                                                         *)
(* Nothing here is a transaction: a handler changes a row, increments the  *)
(* version and drops the cached bundle in three separate calls, and a      *)
(* bundle is put together from four separate queries.  Every call is one   *)
(* step, so that all their interleavings are behaviours of the model.      *)
(***************************************************************************)
EXTENDS Integers

CONSTANTS
  Word, Question, Connection,  \* what the rows of the three tables may hold
  Admin,       \* admin requests the server may be handling at one time
  Phone,       \* apps that download the bundle, one request each at a time
  Warmer,      \* the goroutine that refreshes the cache every day
  NoBundle,    \* the Redis key is absent
  MayFail,     \* whether calls to PostgreSQL and Redis may fail
  MaxVersion   \* bound: no admin request starts at this version

ASSUME ContentAssumption ==
  /\ Warmer \notin Phone
  /\ MayFail \in BOOLEAN
  /\ MaxVersion \in Nat

Table == {"words", "questions", "connections"}
RowsOf == [t \in Table |-> CASE t = "words" -> Word
                             [] t = "questions" -> Question
                             [] t = "connections" -> Connection]
Row == Word \cup Question \cup Connection
Contents == [Table -> SUBSET Row]
Bundle == [version : Nat, rows : Contents]

ASSUME NoBundleAssumption == NoBundle \notin Bundle

Builder == Phone \cup {Warmer}

VARIABLES
  tables,       \* the rows of each table
  version,      \* meta.content_version, 0 when the row does not exist yet
  cache,        \* the value of the Redis key content:bundle
  step, job,    \* each admin request: its next call, its handler and rows left
  wrote,        \* it has changed a table and not yet incremented the version
  pc, draft,    \* each bundle being built: its next query, what it has read
  unannounced   \* history: a change whose increment failed, none since then

dbVars == <<tables, version, unannounced>>
adminVars == <<step, job, wrote>>
buildVars == <<pc, draft>>
vars == <<tables, version, cache, step, job, wrote, pc, draft, unannounced>>

-----------------------------------------------------------------------------
(* The handlers of the admin panel that change content, and how they differ. *)

Handler == {"adminAddWord", "adminImportWords", "adminDeleteWord",
            "adminAddQuestion", "adminImportQuestions", "adminDeleteQuestion",
            "adminAddConnection", "adminDeleteConnection"}

TableOf(h) ==
  CASE h \in {"adminAddWord", "adminImportWords", "adminDeleteWord"} -> "words"
    [] h \in {"adminAddQuestion", "adminImportQuestions", "adminDeleteQuestion"} -> "questions"
    [] h \in {"adminAddConnection", "adminDeleteConnection"} -> "connections"

Deletes(h) == h \in {"adminDeleteWord", "adminDeleteQuestion", "adminDeleteConnection"}
Imports(h) == h \in {"adminImportWords", "adminImportQuestions"}

\* These handlers drop the cached bundle even after the store failed; the
\* others return before they reach the cache.
DropsAfterError(h) == h \in {"adminDeleteWord", "adminAddQuestion", "adminDeleteQuestion"}

\* The row sets a request may carry.  The empty set is a form whose id or text
\* is rejected, or a sheet without usable rows: no statement is executed, but
\* these handlers still drop the cached bundle.  (The other handlers answer a
\* rejected form without any effect.)
Request(h) ==
  (IF Imports(h) THEN SUBSET RowsOf[TableOf(h)] ELSE {{r} : r \in RowsOf[TableOf(h)]})
    \cup (IF DropsAfterError(h) THEN {{}} ELSE {})

NoJob == [handler |-> "adminAddWord", rows |-> {}]
Job == [handler : Handler, rows : SUBSET Row]

NoRows == [t \in Table |-> {}]
NoDraft == [version |-> 0, rows |-> NoRows]

Init ==
  /\ tables = NoRows
  /\ version = 0
  /\ unannounced = FALSE
  /\ cache = NoBundle
  /\ step = [a \in Admin |-> "idle"]
  /\ job = [a \in Admin |-> NoJob]
  /\ wrote = [a \in Admin |-> FALSE]
  /\ pc = [b \in Builder |-> "idle"]
  /\ draft = [b \in Builder |-> NoDraft]

-----------------------------------------------------------------------------
(* Admin requests. *)

\* The INSERT or DELETE of one row.  A second copy of a row is no change.
Execute(h, r) ==
  [tables EXCEPT ![TableOf(h)] = IF Deletes(h) THEN @ \ {r} ELSE @ \cup {r}]

\* One statement of handler h, which has these rows left.  AddWord returns
\* early, without an increment, when the word already exists.
WriteRow(a, h, rows) ==
  \E r \in rows :
    /\ tables' = Execute(h, r)
    /\ wrote' = [wrote EXCEPT ![a] = @ \/ tables' # tables]
    /\ IF rows # {r}
         THEN step' = [step EXCEPT ![a] = "write"]
         ELSE IF h = "adminAddWord" /\ tables' = tables
         THEN step' = [step EXCEPT ![a] = "drop"]
         ELSE step' = [step EXCEPT ![a] = "bump"]
    /\ job' = [job EXCEPT ![a] = [handler |-> h, rows |-> rows \ {r}]]
    /\ UNCHANGED <<version, unannounced>>

\* The store returned an error to the handler.  A change this request made
\* stays in its table with no increment of its own.
GiveUp(a, h) ==
  /\ step' = [step EXCEPT ![a] = IF DropsAfterError(h) THEN "drop" ELSE "idle"]
  /\ job' = [job EXCEPT ![a] = NoJob]
  /\ wrote' = [wrote EXCEPT ![a] = FALSE]

\* The statement fails (the context of a request ends when its browser goes
\* away), before it was executed or after, when only its answer is lost.
WriteFails(a, h, rows) ==
  /\ MayFail
  /\ \/ tables' = tables
     \/ \E r \in rows : tables' = Execute(h, r)
  /\ unannounced' = (unannounced \/ wrote[a] \/ tables' # tables)
  /\ GiveUp(a, h)
  /\ UNCHANGED version

\* A request arrives and executes its first statement, if it has one.
Start(a) ==
  /\ step[a] = "idle"
  /\ version < MaxVersion
  /\ \E h \in Handler : \E rows \in Request(h) :
       \/ /\ rows = {}
          /\ step' = [step EXCEPT ![a] = "drop"]
          /\ UNCHANGED <<dbVars, job, wrote>>
       \/ WriteRow(a, h, rows)
       \/ rows # {} /\ WriteFails(a, h, rows)
  /\ UNCHANGED <<cache, buildVars>>

WriteNext(a) ==
  /\ step[a] = "write"
  /\ \/ WriteRow(a, job[a].handler, job[a].rows)
     \/ WriteFails(a, job[a].handler, job[a].rows)
  /\ UNCHANGED <<cache, buildVars>>

\* The increment announces every change made so far, whoever made it.
Bump(a) ==
  /\ step[a] = "bump"
  /\ version' = version + 1
  /\ unannounced' = FALSE
  /\ wrote' = [wrote EXCEPT ![a] = FALSE]
  /\ step' = [step EXCEPT ![a] = "drop"]
  /\ job' = [job EXCEPT ![a] = NoJob]
  /\ UNCHANGED <<tables, cache, buildVars>>

BumpFails(a) ==
  /\ MayFail
  /\ step[a] = "bump"
  /\ \/ version' = version /\ unannounced' = (unannounced \/ wrote[a])
     \/ version' = version + 1 /\ unannounced' = FALSE
  /\ GiveUp(a, job[a].handler)
  /\ UNCHANGED <<tables, cache, buildVars>>

\* Cache.Del; its error is ignored.
DropCached(a) ==
  /\ step[a] = "drop"
  /\ \/ cache' = NoBundle
     \/ MayFail /\ cache' = cache
  /\ step' = [step EXCEPT ![a] = "idle"]
  /\ job' = [job EXCEPT ![a] = NoJob]
  /\ UNCHANGED <<dbVars, wrote, buildVars>>

-----------------------------------------------------------------------------
(* Requests for the bundle, and the daily refresh. *)

\* An app asks for the bundle: a cached one is the answer and nothing changes.
\* An absent key and an error of Redis are not told apart.
CacheMiss(p) ==
  /\ pc[p] = "idle"
  /\ cache = NoBundle \/ MayFail
  /\ pc' = [pc EXCEPT ![p] = "version"]
  /\ UNCHANGED <<dbVars, cache, adminVars, draft>>

RefreshDue ==
  /\ pc[Warmer] = "idle"
  /\ pc' = [pc EXCEPT ![Warmer] = "version"]
  /\ UNCHANGED <<dbVars, cache, adminVars, draft>>

\* Mutant: the counter is read one too low.
ReadVersionLow(b) ==
  /\ pc[b] = "version"
  /\ draft' = [draft EXCEPT ![b].version = version - 1]
  /\ pc' = [pc EXCEPT ![b] = "words"]
  /\ UNCHANGED <<dbVars, cache, adminVars>>

ReadVersion(b) ==
  /\ pc[b] = "version"
  /\ draft' = [draft EXCEPT ![b].version = version]
  /\ pc' = [pc EXCEPT ![b] = "words"]
  /\ UNCHANGED <<dbVars, cache, adminVars>>

NextQuery == [words |-> "questions", questions |-> "connections", connections |-> "store"]

ReadTable(b) ==
  /\ pc[b] \in Table
  /\ draft' = [draft EXCEPT ![b].rows[pc[b]] = tables[pc[b]]]
  /\ pc' = [pc EXCEPT ![b] = NextQuery[pc[b]]]
  /\ UNCHANGED <<dbVars, cache, adminVars>>

ReadFails(b) ==
  /\ MayFail
  /\ pc[b] \in Table \cup {"version"}
  /\ pc' = [pc EXCEPT ![b] = "idle"]
  /\ draft' = [draft EXCEPT ![b] = NoDraft]
  /\ UNCHANGED <<dbVars, cache, adminVars>>

\* Mutant: the bundle gets the version read after its rows.
StoreRelabelled(b) ==
  /\ pc[b] = "store"
  /\ cache' = [draft[b] EXCEPT !.version = version]
  /\ pc' = [pc EXCEPT ![b] = "idle"]
  /\ draft' = [draft EXCEPT ![b] = NoDraft]
  /\ UNCHANGED <<dbVars, adminVars>>

\* Cache.SetString, and the answer to the app.
Store(b) ==
  /\ pc[b] = "store"
  /\ cache' = draft[b]
  /\ pc' = [pc EXCEPT ![b] = "idle"]
  /\ draft' = [draft EXCEPT ![b] = NoDraft]
  /\ UNCHANGED <<dbVars, adminVars>>

\* An error of Cache.SetString is ignored: the app has its answer all the same.
StoreFails(b) ==
  /\ MayFail
  /\ pc[b] = "store"
  /\ pc' = [pc EXCEPT ![b] = "idle"]
  /\ draft' = [draft EXCEPT ![b] = NoDraft]
  /\ UNCHANGED <<dbVars, cache, adminVars>>

\* Mutant: the key is stored without a lifetime.
NeverExpires == FALSE /\ UNCHANGED vars

\* The key lives for 25 hours; its clock is abstracted, it may run out any time.
CacheExpires ==
  /\ cache # NoBundle
  /\ cache' = NoBundle
  /\ UNCHANGED <<dbVars, adminVars, buildVars>>

-----------------------------------------------------------------------------

AdminStep(a) == WriteNext(a) \/ Bump(a) \/ BumpFails(a) \/ DropCached(a)
BuildStep(b) == ReadVersion(b) \/ ReadTable(b) \/ ReadFails(b) \/ Store(b) \/ StoreFails(b)

Next ==
  \/ \E a \in Admin : Start(a) \/ AdminStep(a)
  \/ \E p \in Phone : CacheMiss(p)
  \/ \E b \in Builder : BuildStep(b)
  \/ RefreshDue
  \/ CacheExpires

Spec == Init /\ [][Next]_vars

\* A started handler or build runs to its end (every call returns: the contexts
\* and the drivers bound it), the timer fires every day, and Redis drops a key
\* whose 25 hours are over unless somebody has set it again in the meantime.
\* Nobody has to send a request.
Fairness ==
  /\ \A a \in Admin : WF_vars(AdminStep(a))
  /\ \A b \in Builder : WF_vars(BuildStep(b))
  /\ WF_vars(RefreshDue)
  /\ WF_vars(CacheExpires \/ \E b \in Builder : Store(b))

FairSpec == Spec /\ Fairness

-----------------------------------------------------------------------------

TypeOK ==
  /\ tables \in Contents
  /\ version \in Nat
  /\ unannounced \in BOOLEAN
  /\ cache \in Bundle \cup {NoBundle}
  /\ step \in [Admin -> {"idle", "write", "bump", "drop"}]
  /\ job \in [Admin -> Job]
  /\ wrote \in [Admin -> BOOLEAN]
  /\ pc \in [Builder -> Table \cup {"idle", "version", "store"}]
  /\ draft \in [Builder -> Bundle]

Settled == ~unannounced /\ \A a \in Admin : ~wrote[a]

\* What an app may be answered: the cached bundle, or one just put together.
Offered == ({cache} \ {NoBundle}) \cup {draft[b] : b \in {c \in Builder : pc[c] = "store"}}

(* The version number identifies the content: unless a change still waits   *)
(* for its increment, a bundle the server offers under the current version  *)
(* holds the current rows, however the four queries of ContentBundle        *)
(* interleaved with the handlers and whatever was cached in between.  An    *)
(* app that compares its version with GET /api/v1/content/version and keeps *)
(* its bundle when they agree relies on this.                               *)
VersionIdentifiesContent ==
  Settled => \A bundle \in Offered : bundle.version = version => bundle.rows = tables

(* A stale bundle does not stay: once the tables do not change any more, the *)
(* cached bundle is eventually absent or equal to them, for ever.  A build   *)
(* that overlapped the last change may still store what it read; the daily   *)
(* refresh or the end of the key's 25 hours removes it.                      *)
Fresh == cache # NoBundle => cache.rows = tables
StaleCacheHeals == <>[][FALSE]_tables => <>[]Fresh

=============================================================================
