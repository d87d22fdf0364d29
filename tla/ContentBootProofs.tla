-------------------------- MODULE ContentBootProofs --------------------------
(***************************************************************************)
(* The content service and the process around it.  First ContentSync: type *)
(* correctness, and that the version number identifies the content, for    *)
(* any number of admin requests, of apps and of versions, and for any      *)
(* rows.  Then ContentBoot for any content.json and any number of stops:   *)
(* the version identifies the content again after the first refresh, or    *)
(* once the old bundle is replaced when that refresh failed, and a start   *)
(* does not touch an operator's content.                                   *)
(***************************************************************************)
EXTENDS ContentBoot, TLAPS

\* The tables a build has read when it stands before its next query.
AlreadyRead ==
  [idle |-> {}, version |-> {}, words |-> {}, questions |-> {"words"},
   connections |-> {"words", "questions"}, store |-> Table]

\* No build holds a version that the counter has not reached, and what it has
\* read under the current version is current.
DraftsBehind == \A b \in Builder : draft[b].version <= version
DraftCurrent ==
  Settled => \A b \in Builder : draft[b].version = version =>
               \A t \in AlreadyRead[pc[b]] : draft[b].rows[t] = tables[t]

\* The same of the cached bundle.  An increment makes every bundle old, so that
\* only the current version has to be watched.
CacheBehind == cache # NoBundle => cache.version <= version
CacheCurrent ==
  Settled /\ cache # NoBundle /\ cache.version = version => cache.rows = tables

DraftInv == TypeOK /\ DraftsBehind /\ DraftCurrent
CacheInv == CacheBehind /\ CacheCurrent
Inv == DraftInv /\ CacheInv

-----------------------------------------------------------------------------
(* Types. *)

LEMMA TableOfType == \A h \in Handler : TableOf(h) \in Table
BY DEF Handler, TableOf, Table

LEMMA RequestType ==
  ASSUME NEW h \in Handler, NEW rows \in Request(h)
  PROVE  rows \in SUBSET Row
<1>1. RowsOf[TableOf(h)] \in SUBSET Row
  BY TableOfType DEF RowsOf, Row, Table
<1> QED BY <1>1 DEF Request

LEMMA ExecuteType ==
  ASSUME TypeOK, NEW h \in Handler, NEW r \in Row
  PROVE  Execute(h, r) \in Contents
BY TableOfType DEF Execute, TypeOK, Contents

\* One statement keeps the types, whether Start or WriteNext executes it.
LEMMA WriteType ==
  ASSUME TypeOK, NEW a \in Admin, NEW h \in Handler, NEW rows \in SUBSET Row,
         WriteRow(a, h, rows) \/ WriteFails(a, h, rows),
         UNCHANGED <<cache, buildVars>>
  PROVE  TypeOK'
<1>1. CASE WriteRow(a, h, rows)
  <2>1. PICK r \in rows :
          /\ tables' = Execute(h, r)
          /\ wrote' = [wrote EXCEPT ![a] = @ \/ tables' # tables]
          /\ step' \in {[step EXCEPT ![a] = s] : s \in {"write", "drop", "bump"}}
          /\ job' = [job EXCEPT ![a] = [handler |-> h, rows |-> rows \ {r}]]
          /\ UNCHANGED <<version, unannounced>>
    BY <1>1 DEF WriteRow
  <2>2. tables' \in Contents
    BY <2>1, ExecuteType
  <2>3. step' \in [Admin -> {"idle", "write", "bump", "drop"}]
    BY <2>1 DEF TypeOK
  <2>4. wrote' \in [Admin -> BOOLEAN]
    BY <2>1 DEF TypeOK
  <2>5. job' \in [Admin -> Job]
    BY <2>1 DEF TypeOK, Job
  <2> QED BY <2>1, <2>2, <2>3, <2>4, <2>5 DEF TypeOK, buildVars
<1>2. CASE WriteFails(a, h, rows)
  <2>1. tables' \in Contents
    BY <1>2, ExecuteType DEF WriteFails, TypeOK
  <2>2. unannounced' \in BOOLEAN
    BY <1>2 DEF WriteFails, TypeOK
  <2>3. /\ step' \in [Admin -> {"idle", "write", "bump", "drop"}]
        /\ job' \in [Admin -> Job]
        /\ wrote' \in [Admin -> BOOLEAN]
    BY <1>2 DEF WriteFails, GiveUp, TypeOK, Job, NoJob, Handler
  <2> QED BY <1>2, <2>1, <2>2, <2>3 DEF WriteFails, TypeOK, buildVars
<1> QED BY <1>1, <1>2

LEMMA InitType == Init => TypeOK
<1>1. NoRows \in Contents
  BY DEF NoRows, Contents
<1>2. NoDraft \in Bundle
  BY <1>1 DEF NoDraft, Bundle
<1>3. NoJob \in Job
  BY DEF NoJob, Job, Handler
<1>4. ASSUME Init
      PROVE  /\ step \in [Admin -> {"idle", "write", "bump", "drop"}]
             /\ job \in [Admin -> Job]
             /\ wrote \in [Admin -> BOOLEAN]
             /\ pc \in [Builder -> Table \cup {"idle", "version", "store"}]
             /\ draft \in [Builder -> Bundle]
  BY <1>2, <1>3, <1>4 DEF Init
<1>5. ASSUME Init
      PROVE  /\ tables \in Contents
             /\ version \in Nat
             /\ unannounced \in BOOLEAN
             /\ cache \in Bundle \cup {NoBundle}
  BY <1>1, <1>5 DEF Init
<1> QED BY <1>4, <1>5 DEF TypeOK

LEMMA StepType ==
  ASSUME TypeOK, [Next]_vars
  PROVE  TypeOK'
<1>1. ASSUME NEW a \in Admin, Start(a)
      PROVE  TypeOK'
  <2>0. PICK h \in Handler : \E rows \in Request(h) :
          \/ /\ rows = {}
             /\ step' = [step EXCEPT ![a] = "drop"]
             /\ UNCHANGED <<dbVars, job, wrote>>
          \/ WriteRow(a, h, rows)
          \/ WriteFails(a, h, rows)
    BY <1>1 DEF Start
  <2>1. PICK rows \in Request(h) :
          \/ /\ rows = {}
             /\ step' = [step EXCEPT ![a] = "drop"]
             /\ UNCHANGED <<dbVars, job, wrote>>
          \/ WriteRow(a, h, rows)
          \/ WriteFails(a, h, rows)
    BY <2>0
  <2>2. rows \in SUBSET Row
    BY RequestType
  <2>3. UNCHANGED <<cache, buildVars>>
    BY <1>1 DEF Start
  <2>4. CASE WriteRow(a, h, rows) \/ WriteFails(a, h, rows)
    BY <2>2, <2>3, <2>4, WriteType
  <2>5. CASE /\ rows = {}
             /\ step' = [step EXCEPT ![a] = "drop"]
             /\ UNCHANGED <<dbVars, job, wrote>>
    BY <2>3, <2>5 DEF TypeOK, dbVars, buildVars
  <2> QED BY <2>1, <2>4, <2>5
<1>2. ASSUME NEW a \in Admin, WriteNext(a)
      PROVE  TypeOK'
  <2>1. job[a].handler \in Handler /\ job[a].rows \in SUBSET Row
    BY DEF TypeOK, Job
  <2> QED BY <1>2, <2>1, WriteType DEF WriteNext
<1>3. NoJob \in Job
  BY DEF NoJob, Job, Handler
<1>4. ASSUME NEW a \in Admin, Bump(a) \/ BumpFails(a)
      PROVE  TypeOK'
  <2>1. /\ UNCHANGED <<tables, cache, buildVars>>
        /\ version' \in {version, version + 1}
        /\ unannounced' \in {FALSE, unannounced, unannounced \/ wrote[a]}
        /\ step' \in {[step EXCEPT ![a] = s] : s \in {"idle", "drop"}}
        /\ job' = [job EXCEPT ![a] = NoJob]
        /\ wrote' = [wrote EXCEPT ![a] = FALSE]
    BY <1>4 DEF Bump, BumpFails, GiveUp
  <2>2. /\ unannounced' \in BOOLEAN
        /\ version' \in Nat
    <3>1. unannounced' \in BOOLEAN
      BY <2>1, Zenon DEF TypeOK
    <3>2. version' \in Nat
      BY <2>1 DEF TypeOK
    <3> QED BY <3>1, <3>2
  <2>3. step' \in [Admin -> {"idle", "write", "bump", "drop"}]
    BY <2>1 DEF TypeOK
  <2>4. job' \in [Admin -> Job] /\ wrote' \in [Admin -> BOOLEAN]
    BY <2>1, <1>3 DEF TypeOK
  <2> QED BY <2>1, <2>2, <2>3, <2>4 DEF TypeOK, buildVars
<1>5. ASSUME NEW a \in Admin, DropCached(a)
      PROVE  TypeOK'
  BY <1>3, <1>5 DEF DropCached, TypeOK, dbVars, buildVars
<1>6. ASSUME NEW b \in Builder, CacheMiss(b) \/ (b = Warmer /\ RefreshDue)
      PROVE  TypeOK'
  BY <1>6 DEF CacheMiss, RefreshDue, TypeOK, dbVars, adminVars
<1>7. NoDraft \in Bundle
  BY DEF NoDraft, Bundle, NoRows, Contents
<1>8. ASSUME NEW b \in Builder, ReadVersion(b) \/ ReadTable(b)
      PROVE  TypeOK'
  <2>1. draft[b] \in Bundle /\ tables \in Contents /\ version \in Nat
    BY DEF TypeOK
  <2>2. UNCHANGED <<dbVars, cache, adminVars>>
    BY <1>8 DEF ReadVersion, ReadTable
  <2>3. CASE ReadVersion(b)
    <3>1. [draft[b] EXCEPT !.version = version] \in Bundle
      BY <2>1 DEF Bundle
    <3>2. draft' = [draft EXCEPT ![b] = [draft[b] EXCEPT !.version = version]]
      BY <2>3 DEF ReadVersion
    <3>3. pc' \in [Builder -> Table \cup {"idle", "version", "store"}]
      BY <2>3 DEF ReadVersion, TypeOK, Table
    <3> QED BY <2>2, <3>1, <3>2, <3>3 DEF TypeOK, dbVars, adminVars
  <2>4. CASE ReadTable(b)
    <3>1. pc[b] \in Table
      BY <2>4 DEF ReadTable
    <3>2. [draft[b] EXCEPT !.rows[pc[b]] = tables[pc[b]]] \in Bundle
      BY <2>1, <3>1 DEF Bundle, Contents
    <3>3. draft' = [draft EXCEPT ![b] = [draft[b] EXCEPT !.rows[pc[b]] = tables[pc[b]]]]
      BY <2>4 DEF ReadTable
    <3>4. NextQuery[pc[b]] \in Table \cup {"store"}
      BY <3>1 DEF NextQuery, Table
    <3>5. pc' \in [Builder -> Table \cup {"idle", "version", "store"}]
      BY <2>4, <3>4 DEF ReadTable, TypeOK
    <3> QED BY <2>2, <3>2, <3>3, <3>5 DEF TypeOK, dbVars, adminVars
  <2> QED BY <1>8, <2>3, <2>4
<1>9. ASSUME NEW b \in Builder, ReadFails(b) \/ Store(b) \/ StoreFails(b)
      PROVE  TypeOK'
  BY <1>7, <1>9 DEF ReadFails, Store, StoreFails, TypeOK, dbVars, adminVars
<1>10. CASE CacheExpires
  BY <1>10 DEF CacheExpires, TypeOK, dbVars, adminVars, buildVars
<1>11. CASE UNCHANGED vars
  BY <1>11 DEF vars, TypeOK
<1> QED
  BY <1>1, <1>2, <1>4, <1>5, <1>6, <1>8, <1>9, <1>10, <1>11
  DEF Next, AdminStep, BuildStep, Builder

(* Every variable keeps its type. *)
THEOREM TypeCorrect == Spec => []TypeOK
<1>1. TypeOK /\ [Next]_vars => TypeOK'
  BY StepType
<1> QED BY <1>1, InitType, PTL DEF Spec

-----------------------------------------------------------------------------
(* The version number identifies the content. *)

LEMMA InitInv == Init => Inv
<1>1. Init => DraftsBehind /\ CacheInv
  BY DEF Init, DraftsBehind, CacheInv, CacheBehind, CacheCurrent, NoDraft
<1>2. Init => DraftCurrent
  BY DEF Init, DraftCurrent, AlreadyRead
<1> QED BY <1>1, <1>2, InitType DEF Inv, DraftInv

\* A step either announces all changes or cannot change the tables and yet
\* leave them settled.
Announces ==
  \/ version' = version + 1
  \/ version' = version /\ (Settled' => Settled /\ tables' = tables)

LEMMA WriteAnnounces ==
  ASSUME TypeOK, NEW a \in Admin, NEW h \in Handler, NEW rows \in SUBSET Row,
         WriteRow(a, h, rows) \/ WriteFails(a, h, rows)
  PROVE  Announces
<1>1. CASE WriteRow(a, h, rows)
  <2>1. /\ wrote' = [wrote EXCEPT ![a] = @ \/ tables' # tables]
        /\ UNCHANGED <<version, unannounced>>
    BY <1>1 DEF WriteRow
  <2> QED BY <2>1 DEF Announces, Settled, TypeOK
<1>2. CASE WriteFails(a, h, rows)
  <2>1. /\ unannounced' = (unannounced \/ wrote[a] \/ tables' # tables)
        /\ wrote' = [wrote EXCEPT ![a] = FALSE]
        /\ UNCHANGED version
    BY <1>2 DEF WriteFails, GiveUp
  <2> QED BY <2>1 DEF Announces, Settled, TypeOK
<1> QED BY <1>1, <1>2

LEMMA StartAnnounces ==
  ASSUME TypeOK, NEW a \in Admin, Start(a)
  PROVE  Announces
<1>0. PICK h \in Handler : \E rows \in Request(h) :
        \/ UNCHANGED <<dbVars, wrote>>
        \/ WriteRow(a, h, rows)
        \/ WriteFails(a, h, rows)
  BY DEF Start
<1>1. PICK rows \in Request(h) :
        \/ UNCHANGED <<dbVars, wrote>>
        \/ WriteRow(a, h, rows)
        \/ WriteFails(a, h, rows)
  BY <1>0
<1>2. CASE WriteRow(a, h, rows) \/ WriteFails(a, h, rows)
  BY <1>2, RequestType, WriteAnnounces
<1>3. CASE UNCHANGED <<dbVars, wrote>>
  BY <1>3 DEF dbVars, Settled, Announces
<1> QED BY <1>1, <1>2, <1>3

LEMMA StepAnnounces ==
  ASSUME TypeOK, [Next]_vars
  PROVE  Announces
<1>1. ASSUME NEW a \in Admin, WriteNext(a)
      PROVE  Announces
  <2>1. job[a].handler \in Handler /\ job[a].rows \in SUBSET Row
    BY DEF TypeOK, Job
  <2> QED BY <1>1, <2>1, WriteAnnounces DEF WriteNext
<1>2. ASSUME NEW a \in Admin, Bump(a) \/ BumpFails(a)
      PROVE  Announces
  <2>1. CASE version' = version + 1
    BY <2>1 DEF Announces
  <2>2. CASE BumpFails(a) /\ version' = version /\ unannounced' = (unannounced \/ wrote[a])
    BY <2>2 DEF BumpFails, GiveUp, Settled, TypeOK, Announces
  <2> QED BY <1>2, <2>1, <2>2 DEF Bump, BumpFails
<1>3. ASSUME UNCHANGED <<tables, version, unannounced, wrote>>
      PROVE  Announces
  BY <1>3 DEF Announces, Settled
<1>4. ASSUME NEW a \in Admin, DropCached(a)
      PROVE  Announces
  BY <1>3, <1>4 DEF DropCached, dbVars
<1>5. ASSUME NEW b \in Builder, BuildStep(b) \/ CacheMiss(b)
      PROVE  Announces
  BY <1>3, <1>5 DEF BuildStep, ReadVersion, ReadTable, ReadFails, Store, StoreFails, CacheMiss,
                    dbVars, adminVars
<1>6. CASE RefreshDue \/ CacheExpires \/ UNCHANGED vars
  BY <1>3, <1>6 DEF RefreshDue, CacheExpires, vars, dbVars, adminVars
<1> QED BY <1>1, <1>2, <1>4, <1>5, <1>6, StartAnnounces DEF Next, AdminStep, Builder

\* What a build has read does not change in the steps of others, and the
\* content does not change in its own.
Kept(b) == draft'[b] = draft[b] /\ AlreadyRead[pc'[b]] = AlreadyRead[pc[b]]

LEMMA OthersKeep ==
  ASSUME TypeOK, [Next]_vars, NEW b \in Builder
  PROVE  Kept(b) \/ BuildStep(b)
<1>1. ASSUME UNCHANGED buildVars
      PROVE  Kept(b)
  BY <1>1 DEF buildVars, Kept
<1>2. CASE \E a \in Admin : Start(a) \/ AdminStep(a)
  BY <1>1, <1>2 DEF Start, AdminStep, WriteNext, Bump, BumpFails, DropCached
<1>3. CASE CacheExpires \/ UNCHANGED vars
  BY <1>1, <1>3 DEF CacheExpires, vars, buildVars
<1>4. ASSUME NEW c \in Builder, BuildStep(c), c # b
      PROVE  Kept(b)
  BY <1>4 DEF BuildStep, ReadVersion, ReadTable, ReadFails, Store, StoreFails, TypeOK, Kept
<1>5. ASSUME NEW c \in Builder, CacheMiss(c) \/ (c = Warmer /\ RefreshDue)
      PROVE  Kept(b)
  <2>1. pc[c] = "idle" /\ pc' = [pc EXCEPT ![c] = "version"] /\ draft' = draft
    BY <1>5 DEF CacheMiss, RefreshDue
  <2>2. AlreadyRead["idle"] = AlreadyRead["version"]
    BY DEF AlreadyRead
  <2> QED BY <2>1, <2>2 DEF TypeOK, Kept
<1> QED BY <1>2, <1>3, <1>4, <1>5 DEF Next, Builder

LEMMA KeptDraft ==
  ASSUME DraftInv, TypeOK', Announces, NEW b \in Builder, Kept(b)
  PROVE  /\ draft'[b].version <= version'
         /\ Settled' /\ draft'[b].version = version' =>
              \A t \in AlreadyRead[pc'[b]] : draft'[b].rows[t] = tables'[t]
<1>1. draft[b].version \in Nat /\ version \in Nat /\ draft[b].version <= version
  BY DEF DraftInv, TypeOK, Bundle, DraftsBehind
<1> QED BY <1>1 DEF Kept, Announces, DraftInv, DraftCurrent

LEMMA BuildDraft ==
  ASSUME DraftInv, NEW b \in Builder, BuildStep(b)
  PROVE  /\ draft'[b].version <= version'
         /\ Settled' /\ draft'[b].version = version' =>
              \A t \in AlreadyRead[pc'[b]] : draft'[b].rows[t] = tables'[t]
<1>0. TypeOK /\ UNCHANGED <<tables, version, unannounced, wrote>>
  BY DEF DraftInv, BuildStep, ReadVersion, ReadTable, ReadFails, Store, StoreFails, dbVars, adminVars
<1>1. CASE ReadVersion(b)
  <2>1. pc' = [pc EXCEPT ![b] = "words"] /\ draft' = [draft EXCEPT ![b].version = version]
    BY <1>1 DEF ReadVersion
  <2>2. draft'[b].version = version /\ AlreadyRead[pc'[b]] = {}
    BY <1>0, <2>1 DEF TypeOK, Bundle, AlreadyRead
  <2> QED BY <1>0, <2>2 DEF TypeOK
<1>2. CASE ReadTable(b)
  <2>1. /\ pc[b] \in Table
        /\ pc' = [pc EXCEPT ![b] = NextQuery[pc[b]]]
        /\ draft' = [draft EXCEPT ![b].rows[pc[b]] = tables[pc[b]]]
    BY <1>2 DEF ReadTable
  <2>3. /\ draft'[b].version = draft[b].version
        /\ draft'[b].rows = [draft[b].rows EXCEPT ![pc[b]] = tables[pc[b]]]
    BY <1>0, <2>1 DEF TypeOK, Bundle
  <2>4. \A t \in Table : draft'[b].rows[t] = IF t = pc[b] THEN tables[t] ELSE draft[b].rows[t]
    BY <1>0, <2>1, <2>3 DEF TypeOK, Bundle, Contents
  <2>5. AlreadyRead[pc'[b]] = AlreadyRead[pc[b]] \cup {pc[b]} /\ AlreadyRead[pc'[b]] \subseteq Table
    BY <1>0, <2>1 DEF TypeOK, AlreadyRead, NextQuery, Table
  <2> QED BY <1>0, <2>3, <2>4, <2>5 DEF DraftInv, DraftsBehind, DraftCurrent, Settled
<1>3. CASE ReadFails(b) \/ Store(b) \/ StoreFails(b)
  <2>1. pc' = [pc EXCEPT ![b] = "idle"] /\ draft' = [draft EXCEPT ![b] = NoDraft]
    BY <1>3 DEF ReadFails, Store, StoreFails
  <2>2. draft'[b].version = 0 /\ AlreadyRead[pc'[b]] = {}
    BY <1>0, <2>1 DEF TypeOK, NoDraft, AlreadyRead
  <2> QED BY <1>0, <2>2 DEF TypeOK
<1> QED BY <1>1, <1>2, <1>3 DEF BuildStep

LEMMA StepDrafts ==
  ASSUME DraftInv, [Next]_vars
  PROVE  DraftInv'
<1>1. TypeOK' /\ Announces
  BY StepType, StepAnnounces DEF DraftInv
<1>2. ASSUME NEW b \in Builder
      PROVE  /\ draft'[b].version <= version'
             /\ Settled' /\ draft'[b].version = version' =>
                  \A t \in AlreadyRead[pc'[b]] : draft'[b].rows[t] = tables'[t]
  BY <1>1, OthersKeep, KeptDraft, BuildDraft DEF DraftInv
<1> QED BY <1>1, <1>2 DEF DraftInv, DraftsBehind, DraftCurrent

\* A finished build that may be offered.
LEMMA FinishedBuild ==
  ASSUME DraftInv, NEW b \in Builder, pc[b] = "store"
  PROVE  /\ draft[b].version <= version
         /\ Settled /\ draft[b].version = version => draft[b].rows = tables
<1>1. draft[b].rows \in Contents /\ tables \in Contents
  BY DEF DraftInv, TypeOK, Bundle
<1>2. AlreadyRead[pc[b]] = Table
  BY DEF AlreadyRead
<1>3. ASSUME Settled, draft[b].version = version
      PROVE  draft[b].rows = tables
  <2>1. \A t \in Table : draft[b].rows[t] = tables[t]
    BY <1>2, <1>3 DEF DraftInv, DraftCurrent
  <2> QED BY <1>1, <2>1 DEF Contents
<1> QED BY <1>3 DEF DraftInv, DraftsBehind

\* The cache holds what was finished before this step, or nothing.
Renewed == cache' = NoBundle \/ \E b \in Builder : pc[b] = "store" /\ cache' = draft[b]

LEMMA RenewedIsCurrent ==
  ASSUME DraftInv, [Next]_vars, Renewed
  PROVE  CacheInv'
<1>1. CASE cache' = NoBundle
  BY <1>1 DEF CacheInv, CacheBehind, CacheCurrent
<1>2. ASSUME NEW b \in Builder, pc[b] = "store", cache' = draft[b]
      PROVE  CacheInv'
  <2>1. /\ draft[b].version <= version
        /\ Settled /\ draft[b].version = version => draft[b].rows = tables
    BY <1>2, FinishedBuild
  <2>2. draft[b].version \in Nat /\ version \in Nat /\ Announces
    BY StepAnnounces DEF DraftInv, TypeOK, Bundle
  <2> QED BY <1>2, <2>1, <2>2 DEF Announces, CacheInv, CacheBehind, CacheCurrent
<1> QED BY <1>1, <1>2 DEF Renewed

LEMMA StepRenews ==
  ASSUME TypeOK, [Next]_vars
  PROVE  cache' = cache \/ Renewed
<1>1. CASE \E a \in Admin : Start(a) \/ AdminStep(a)
  BY <1>1 DEF Start, AdminStep, WriteNext, Bump, BumpFails, DropCached, Renewed
<1>2. CASE \E b \in Builder : BuildStep(b) \/ CacheMiss(b)
  BY <1>2 DEF BuildStep, ReadVersion, ReadTable, ReadFails, Store, StoreFails, CacheMiss, Renewed
<1>3. CASE RefreshDue \/ CacheExpires \/ UNCHANGED vars
  BY <1>3 DEF RefreshDue, CacheExpires, vars, Renewed
<1> QED BY <1>1, <1>2, <1>3 DEF Next, Builder

LEMMA StepCache ==
  ASSUME DraftInv, CacheInv \/ Renewed, [Next]_vars
  PROVE  CacheInv'
<1>1. CASE Renewed
  BY <1>1, RenewedIsCurrent
<1>2. CASE CacheInv /\ cache' = cache
  <2>1. version \in Nat /\ (cache # NoBundle => cache.version \in Nat) /\ Announces
    BY StepAnnounces DEF DraftInv, TypeOK, Bundle
  <2> QED BY <1>2, <2>1 DEF Announces, CacheInv, CacheBehind, CacheCurrent
<1> QED BY <1>1, <1>2, StepRenews DEF DraftInv

LEMMA StepInv ==
  ASSUME Inv, [Next]_vars
  PROVE  Inv'
BY StepDrafts, StepCache DEF Inv

LEMMA InvImpliesIdentified == Inv => VersionIdentifiesContent
<1> SUFFICES ASSUME Inv, Settled, NEW bundle \in Offered, bundle.version = version
             PROVE  bundle.rows = tables
  BY DEF VersionIdentifiesContent
<1>1. CASE bundle = cache /\ cache # NoBundle
  BY <1>1 DEF Inv, CacheInv, CacheCurrent
<1>2. ASSUME NEW b \in Builder, pc[b] = "store", bundle = draft[b]
      PROVE  bundle.rows = tables
  BY <1>2, FinishedBuild DEF Inv
<1> QED BY <1>1, <1>2 DEF Offered

(* Unless a change waits for its increment, a bundle offered under the      *)
(* current version holds the current rows: ContentBundle reads the version  *)
(* before the tables, and every handler increments it after them.           *)
THEOREM VersionIdentifies == Spec => []VersionIdentifiesContent
<1>1. Inv /\ [Next]_vars => Inv'
  BY StepInv
<1> QED BY <1>1, InitInv, InvImpliesIdentified, PTL DEF Spec

-----------------------------------------------------------------------------
(* The process around the content service. *)

\* Nothing is built.
Quiet == \A b \in Builder : pc[b] = "idle" /\ draft[b] = NoDraft

Starting == Seeding \cup SeedingConnections \cup {"off", "connect"}

\* Nothing is built before the first refresh.
StartInv == phase \in Starting => Quiet

\* Nothing is known of the old bundle, so nothing is claimed before it is gone.
CachePart == phase = "up" /\ ~inherited => CacheInv

BootInv == BootTypeOK /\ DraftInv /\ StartInv /\ CachePart

-----------------------------------------------------------------------------
LEMMA InitBoot == BootInit => BootInv
<1> SUFFICES ASSUME BootInit PROVE BootInv
  OBVIOUS
<1>1. Inv /\ TypeOK
  BY InitInv, InitType DEF BootInit
<1>2. Quiet /\ cache = NoBundle
  BY DEF BootInit, Init, Quiet
<1>3. BootTypeOK
  BY <1>1 DEF BootInit, BootTypeOK, Phase
<1> QED BY <1>1, <1>2, <1>3 DEF BootInv, Inv, StartInv, CachePart

\* A step of the start that leaves the cache and the builds alone.
LEMMA SeedStep ==
  ASSUME BootInv, phase \in Starting, BootTypeOK',
         UNCHANGED buildVars, phase' # "up"
  PROVE  BootInv'
<1>1. Quiet /\ Quiet'
  BY DEF BootInv, StartInv, Quiet, buildVars
<1>2. DraftInv'
  <2>1. TypeOK' /\ \A b \in Builder : draft'[b].version = 0 /\ AlreadyRead[pc'[b]] = {}
    BY <1>1 DEF Quiet, NoDraft, AlreadyRead, BootTypeOK
  <2> QED BY <2>1 DEF DraftInv, DraftsBehind, DraftCurrent, TypeOK
<1>3. CachePart'
  BY DEF CachePart
<1> QED BY <1>1, <1>2, <1>3 DEF BootInv, StartInv

LEMMA InsertType ==
  ASSUME TypeOK, NEW r \in Row, Insert(r)
  PROVE  tables' \in Contents
BY SeedAssumption DEF TypeOK, Contents, Insert

LEMMA DueType ==
  ASSUME BootTypeOK
  PROVE  \A r \in Due(todo) : r \in Row /\ r \in todo
BY SeedAssumption DEF BootTypeOK, Due, Contents

LEMMA VersionType ==
  ASSUME WriteVersion
  PROVE  version' \in Nat
BY SeedAssumption DEF WriteVersion

\* One step of a seed keeps the types.
LEMMA SeedType ==
  ASSUME BootTypeOK, Seed
  PROVE  BootTypeOK' /\ UNCHANGED buildVars /\ phase \in Starting /\ phase' # "up"
<1> USE DEF Starting, Seeding, SeedingConnections, Phase, Table
<1>1. CASE Count \/ CountConnections
  <2>1. /\ UNCHANGED <<vars, inherited, wasEmpty>> /\ phase \in Starting
        /\ phase' \in {"seed", "count connections", "seed connections", "connect"}
    BY <1>1 DEF Count, CountConnections
  <2>2. todo' \in {todo, SeedRows["words"] \cup SeedRows["questions"], SeedRows["connections"]}
    BY <1>1 DEF Count, CountConnections
  <2>3. todo' \subseteq UNION {SeedRows[t] : t \in Table}
    BY <2>2 DEF BootTypeOK
  <2> QED BY <2>1, <2>3 DEF vars, BootTypeOK, TypeOK, buildVars
<1>2. ASSUME NEW next \in {"seed version", "connect"}, SeedRow(next),
             phase \in {"seed", "seed connections"}
      PROVE  BootTypeOK' /\ UNCHANGED buildVars /\ phase \in Starting /\ phase' # "up"
  <2>1. tables' \in Contents /\ todo' \subseteq todo /\ phase' \in {phase, next}
    BY <1>2, InsertType, DueType DEF SeedRow, BootTypeOK, TypeOK
  <2>2. UNCHANGED <<version, unannounced, cache, adminVars, buildVars, inherited, wasEmpty>>
    BY <1>2 DEF SeedRow
  <2> QED BY <1>2, <2>1, <2>2 DEF BootTypeOK, TypeOK, adminVars, buildVars
<1>3. CASE SeedVersion
  BY <1>3, VersionType DEF SeedVersion, BootTypeOK, TypeOK, adminVars, buildVars
<1>4. ASSUME NEW next \in {"count connections", "connect"}, SeedFails(next),
             phase \in Seeding \cup SeedingConnections
      PROVE  BootTypeOK' /\ UNCHANGED buildVars /\ phase \in Starting /\ phase' # "up"
  <2>1. tables' \in Contents /\ version' \in Nat
    BY <1>4, InsertType, DueType, VersionType DEF SeedFails, BootTypeOK, TypeOK
  <2>2. /\ phase' = next /\ todo' = {}
        /\ UNCHANGED <<unannounced, cache, adminVars, buildVars, inherited, wasEmpty>>
    BY <1>4 DEF SeedFails
  <2> QED BY <1>4, <2>1, <2>2 DEF BootTypeOK, TypeOK, adminVars, buildVars
<1> QED BY <1>1, <1>2, <1>3, <1>4 DEF Seed

\* A step of ContentSync, in the warm-up or in the service: it leaves behind a
\* bundle of this process, or the old one and the history says so.
LEMMA ServingStep ==
  ASSUME BootInv, phase \in {"warm", "up"}, [Next]_vars, phase' \in {"warm", "up"},
         inherited' \in BOOLEAN, UNCHANGED <<todo, wasEmpty>>,
         phase' = "up" /\ ~inherited' => CacheInv \/ Renewed
  PROVE  BootInv'
<1>1. TypeOK /\ DraftInv /\ DraftInv' /\ TypeOK'
  BY StepDrafts, StepType DEF BootInv, BootTypeOK, DraftInv
<1>2. CachePart'
  BY <1>1, StepCache DEF CachePart
<1>3. BootTypeOK'
  BY <1>1 DEF BootInv, BootTypeOK, Phase
<1>4. StartInv'
  BY DEF StartInv, Starting, Seeding, SeedingConnections
<1> QED BY <1>1, <1>2, <1>3, <1>4 DEF BootInv

\* The first refresh ends with its own bundle in Redis, or it failed: then the
\* old bundle is recorded, or there is none.
LEMMA WarmEnds ==
  ASSUME BootInv, Warm
  PROVE  /\ inherited' \in BOOLEAN
         /\ phase' = "up" /\ ~inherited' => CacheInv \/ Renewed
<1>0. TypeOK /\ inherited \in BOOLEAN /\ Warmer \in Builder
  BY DEF BootInv, BootTypeOK, Builder
<1>1. phase' = IF pc'[Warmer] = "idle" THEN "up" ELSE "warm"
  BY DEF Warm
<1>2. CASE Store(Warmer) /\ UNCHANGED inherited
  BY <1>0, <1>2 DEF Store, Renewed
<1>3. CASE ReadVersion(Warmer) /\ UNCHANGED inherited
  <2>1. pc'[Warmer] = "words"
    BY <1>0, <1>3 DEF ReadVersion, TypeOK
  <2> QED BY <1>0, <1>1, <1>3, <2>1
<1>4. CASE ReadTable(Warmer) /\ UNCHANGED inherited
  <2>1. pc'[Warmer] \in {"questions", "connections", "store"}
    BY <1>0, <1>4 DEF ReadTable, NextQuery, Table, TypeOK
  <2> QED BY <1>0, <1>1, <1>4, <2>1
<1>5. CASE RefreshFails /\ inherited' = (cache # NoBundle)
  <2>1. cache' = cache
    BY <1>5 DEF RefreshFails, ReadFails, StoreFails
  <2> QED BY <1>5, <2>1 DEF Renewed
<1> QED BY <1>2, <1>3, <1>4, <1>5 DEF Warm, Refresh

LEMMA StepBoot ==
  ASSUME BootInv, [BootNext]_allVars
  PROVE  BootInv'
<1>0. BootTypeOK /\ TypeOK /\ phase \in Phase
  BY DEF BootInv, BootTypeOK
<1>1. CASE Open
  <2>1. phase = "off" /\ phase' = "count" /\ UNCHANGED <<vars, todo, inherited>>
          /\ wasEmpty' \subseteq Table
    BY <1>1 DEF Open, EmptyTables
  <2>2. BootTypeOK'
    BY <1>0, <2>1 DEF BootTypeOK, TypeOK, vars, Phase, Seeding
  <2> QED BY <2>1, <2>2, SeedStep DEF Starting, vars, buildVars
<1>2. CASE Seed
  BY <1>0, <1>2, SeedType, SeedStep
<1>3. CASE Connect
  <2>1. phase = "connect" /\ phase' = "warm" /\ pc' = [pc EXCEPT ![Warmer] = "version"]
          /\ UNCHANGED <<tables, version, unannounced, cache, step, job, wrote, draft, todo,
                         inherited, wasEmpty>>
    BY <1>3 DEF Connect, dbVars, adminVars
  <2>2. TypeOK'
    BY <1>0, <2>1 DEF TypeOK
  <2>3. Quiet
    BY <2>1 DEF BootInv, StartInv, Starting
  <2>4. \A b \in Builder : draft'[b].version = 0 /\ AlreadyRead[pc'[b]] = {}
    BY <1>0, <2>1, <2>3 DEF Quiet, NoDraft, AlreadyRead, TypeOK
  <2>5. DraftInv'
    BY <2>2, <2>4 DEF DraftInv, DraftsBehind, DraftCurrent, TypeOK
  <2>6. CachePart'
    BY <2>1 DEF CachePart
  <2>7. BootTypeOK' /\ StartInv'
    BY <1>0, <2>1, <2>2 DEF BootTypeOK, Phase, StartInv, Starting, Seeding, SeedingConnections
  <2> QED BY <2>5, <2>6, <2>7 DEF BootInv
<1>4. CASE Warm
  <2>1. phase = "warm" /\ phase' \in {"warm", "up"} /\ UNCHANGED <<todo, wasEmpty>>
    BY <1>4 DEF Warm
  <2>2. Next
    BY <1>4 DEF Warm, Refresh, RefreshFails, Next, BuildStep, Builder
  <2> QED BY <1>4, <2>1, <2>2, WarmEnds, ServingStep
<1>5. CASE Stop
  <2>1. /\ phase' = "off" /\ todo' = {} /\ wasEmpty' = {} /\ inherited' = FALSE
        /\ UNCHANGED <<tables, version, cache>>
        /\ unannounced' = FALSE
        /\ step' = [a \in Admin |-> "idle"] /\ job' = [a \in Admin |-> NoJob]
        /\ wrote' = [a \in Admin |-> FALSE]
        /\ pc' = [b \in Builder |-> "idle"] /\ draft' = [b \in Builder |-> NoDraft]
    BY <1>5 DEF Stop
  <2>2. NoJob \in Job /\ NoDraft \in Bundle
    BY DEF NoJob, Job, Handler, NoDraft, Bundle, NoRows, Contents
  <2>3. TypeOK'
    BY <1>0, <2>1, <2>2 DEF TypeOK
  <2>4. Quiet' /\ \A b \in Builder : draft'[b].version = 0 /\ AlreadyRead[pc'[b]] = {}
    BY <2>1 DEF Quiet, NoDraft, AlreadyRead
  <2>5. DraftInv'
    BY <2>3, <2>4 DEF DraftInv, DraftsBehind, DraftCurrent, TypeOK
  <2>6. CachePart' /\ StartInv'
    BY <2>1, <2>4 DEF CachePart, StartInv
  <2>7. BootTypeOK'
    BY <2>1, <2>3 DEF BootTypeOK, Phase
  <2> QED BY <2>5, <2>6, <2>7 DEF BootInv
<1>6. CASE ExpireKey
  <2>1. phase # "up" /\ [Next]_vars
          /\ UNCHANGED <<phase, todo, inherited, wasEmpty, tables, version, unannounced, step, job, wrote, pc, draft>>
    BY <1>6 DEF ExpireKey, CacheExpires, Next, bootVars, dbVars, adminVars, buildVars
  <2>2. DraftInv' /\ TypeOK'
    BY <2>1, StepDrafts, StepType DEF BootInv, DraftInv
  <2>3. CachePart' /\ StartInv'
    BY <2>1 DEF CachePart, BootInv, StartInv, Quiet
  <2>4. BootTypeOK'
    BY <1>0, <2>1, <2>2 DEF BootTypeOK
  <2> QED BY <2>2, <2>3, <2>4 DEF BootInv
<1>7. CASE Serve
  <2>1. /\ phase = "up" /\ Next /\ UNCHANGED <<phase, todo, wasEmpty>>
        /\ inherited' = (inherited /\ ~Replaced)
    BY <1>7 DEF Serve, Served, bootVars
  <2>2. ~inherited' => CacheInv \/ Renewed
    BY <2>1 DEF Replaced, Renewed, BootInv, CachePart
  <2> QED BY <1>0, <2>1, <2>2, ServingStep DEF BootTypeOK
<1>8. CASE UNCHANGED allVars
  <2>1. UNCHANGED <<tables, version, cache, step, job, wrote, pc, draft, unannounced,
                    phase, todo, inherited, wasEmpty>>
    BY <1>8 DEF allVars, vars, bootVars
  <2>2. BootTypeOK' /\ StartInv'
    BY <2>1 DEF BootInv, BootTypeOK, TypeOK, StartInv, Quiet
  <2>3. DraftInv' /\ CachePart'
    BY <2>1 DEF BootInv, DraftInv, TypeOK, DraftsBehind, DraftCurrent, Settled,
                CachePart, CacheInv, CacheBehind, CacheCurrent
  <2> QED BY <2>2, <2>3 DEF BootInv
<1> QED BY <1>1, <1>2, <1>3, <1>4, <1>5, <1>6, <1>7, <1>8 DEF BootNext, BootStep

LEMMA BootCorrect == BootSpec => []BootInv
BY InitBoot, StepBoot, PTL DEF BootSpec

(* Every variable keeps its type through stops and starts; the version a    *)
(* seed writes is at least 1.                                               *)
THEOREM BootTypeCorrect == BootSpec => []BootTypeOK
BY BootCorrect, PTL DEF BootInv

(* Whatever an earlier process left - half a seed, a change without its     *)
(* increment, a counter that went back - the version identifies the content *)
(* when a process serves whose first refresh succeeded, and after a failed  *)
(* one as soon as the old bundle in Redis is replaced.                      *)
THEOREM IdentifiesCorrect == BootSpec => []IdentifiesAgain
<1>1. BootInv => IdentifiesAgain
  BY InvImpliesIdentified DEF BootInv, CachePart, Inv, IdentifiesAgain
<1> QED BY <1>1, BootCorrect, PTL

-----------------------------------------------------------------------------
(* An operator's content is kept. *)

\* What is still to be inserted belongs to tables that were empty; a table that
\* is empty has been so since the start.
TodoInv ==
  /\ phase \in Seeding \cup SeedingConnections => EmptyTables \subseteq wasEmpty
  /\ phase \in {"seed", "seed version"} =>
       {"words", "questions"} \subseteq wasEmpty
  /\ phase = "seed" => todo \subseteq SeedRows["words"] \cup SeedRows["questions"]
  /\ phase = "seed connections" =>
       "connections" \in wasEmpty /\ todo \subseteq SeedRows["connections"]
  /\ phase \in {"count", "count connections", "seed version"} => todo = {}
  /\ phase \in {"off", "connect", "warm", "up"} => todo = {}

Keeps ==
  /\ \A t \in Table : tables[t] \subseteq tables'[t]
  /\ tables'["connections"] # tables["connections"] => "connections" \in wasEmpty
  /\ {"words", "questions"} \subseteq wasEmpty
       \/ \A t \in {"words", "questions"} : tables'[t] = tables[t]

\* Rows of the tables that were found empty are inserted there and nowhere else.
LEMMA InsertKeeps ==
  ASSUME TypeOK, NEW r, Insert(r),
         \/ r \in SeedRows["words"] \cup SeedRows["questions"]
              /\ {"words", "questions"} \subseteq wasEmpty
         \/ r \in SeedRows["connections"] /\ "connections" \in wasEmpty
  PROVE  Keeps /\ EmptyTables' \subseteq EmptyTables
<1>1. \A s, t \in Table : s # t => SeedRows[s] \cap SeedRows[t] = {}
  BY SeedAssumption
<1>2. \A t \in Table : tables'[t] = tables[t] \cup ({r} \cap SeedRows[t])
  BY DEF Insert
<1>3. EmptyTables' \subseteq EmptyTables
  BY <1>2 DEF EmptyTables
<1>4. {"words", "questions"} \subseteq wasEmpty
        \/ \A t \in {"words", "questions"} : tables'[t] = tables[t]
  BY <1>1, <1>2 DEF Table
<1>5. tables'["connections"] # tables["connections"] => "connections" \in wasEmpty
  BY <1>1, <1>2 DEF Table
<1> QED BY <1>2, <1>3, <1>4, <1>5 DEF Keeps

LEMMA UnchangedKeeps ==
  ASSUME UNCHANGED tables
  PROVE  Keeps /\ EmptyTables' = EmptyTables
BY DEF Keeps, EmptyTables

LEMMA SeedKeeps ==
  ASSUME TypeOK, TodoInv, Seed
  PROVE  TodoInv' /\ Keeps
<1> USE DEF Seeding, SeedingConnections
<1>1. CASE Count
  <2>1. phase = "count" /\ UNCHANGED <<tables, wasEmpty>>
          /\ IF {"words", "questions"} \subseteq EmptyTables
               THEN phase' = "seed" /\ todo' = SeedRows["words"] \cup SeedRows["questions"]
               ELSE phase' = "count connections" /\ UNCHANGED todo
    BY <1>1 DEF Count, vars
  <2> QED BY <2>1, UnchangedKeeps DEF TodoInv
<1>2. CASE CountConnections
  <2>1. phase = "count connections" /\ UNCHANGED <<tables, wasEmpty>>
          /\ IF "connections" \in EmptyTables
               THEN phase' = "seed connections" /\ todo' = SeedRows["connections"]
               ELSE phase' = "connect" /\ UNCHANGED todo
    BY <1>2 DEF CountConnections, vars
  <2> QED BY <2>1, UnchangedKeeps DEF TodoInv
<1>3. CASE SeedVersion
  <2>1. phase = "seed version" /\ phase' = "count connections" /\ UNCHANGED <<tables, todo, wasEmpty>>
    BY <1>3 DEF SeedVersion
  <2> QED BY <2>1, UnchangedKeeps DEF TodoInv
<1>4. ASSUME NEW next, SeedRow(next),
             \/ phase = "seed" /\ next = "seed version"
             \/ phase = "seed connections" /\ next = "connect"
      PROVE  TodoInv' /\ Keeps
  <2>1. CASE todo = {}
    <3>1. phase' = next /\ UNCHANGED <<tables, todo, wasEmpty>>
      BY <1>4, <2>1 DEF SeedRow
    <3> QED BY <1>4, <2>1, <3>1, UnchangedKeeps DEF TodoInv
  <2>2. CASE todo # {}
    <3>1. PICK r \in Due(todo) : Insert(r) /\ todo' = todo \ {r} /\ UNCHANGED <<phase, wasEmpty>>
      BY <1>4, <2>2 DEF SeedRow
    <3>2. r \in todo
      BY DEF Due
    <3>3. Keeps /\ EmptyTables' \subseteq EmptyTables
      BY <1>4, <3>1, <3>2, InsertKeeps DEF TodoInv
    <3> QED BY <1>4, <3>1, <3>3 DEF TodoInv
  <2> QED BY <2>1, <2>2
<1>5. ASSUME NEW next \in {"count connections", "connect"}, SeedFails(next),
             phase \in Seeding \cup SeedingConnections
      PROVE  TodoInv' /\ Keeps
  <2>1. phase' = next /\ todo' = {} /\ UNCHANGED wasEmpty
    BY <1>5 DEF SeedFails
  <2>2. Keeps /\ EmptyTables' \subseteq EmptyTables
    <3>1. CASE UNCHANGED tables
      BY <3>1, UnchangedKeeps
    <3>2. CASE ~UNCHANGED tables
      <4>1. PICK r \in Due(todo) : Insert(r)
        BY <1>5, <3>2 DEF SeedFails
      <4>2. r \in todo
        BY DEF Due
      <4> QED BY <1>5, <4>1, <4>2, InsertKeeps DEF TodoInv
    <3> QED BY <3>1, <3>2
  <2> QED BY <1>5, <2>1, <2>2 DEF TodoInv
<1>6. CASE phase \in Seeding /\ SeedFails("count connections")
  BY <1>5, <1>6
<1>7. CASE phase \in SeedingConnections /\ SeedFails("connect")
  BY <1>5, <1>7
<1>8. CASE phase = "seed" /\ SeedRow("seed version")
  BY <1>4, <1>8
<1>9. CASE phase = "seed connections" /\ SeedRow("connect")
  BY <1>4, <1>9
<1> QED BY <1>1, <1>2, <1>3, <1>6, <1>7, <1>8, <1>9 DEF Seed

LEMMA StepKeeps ==
  ASSUME TypeOK, TodoInv, [BootNext]_allVars
  PROVE  TodoInv' /\ (phase # "up" => Keeps)
<1> USE DEF Seeding, SeedingConnections
<1>1. CASE Open
  <2>1. phase = "off" /\ phase' = "count" /\ UNCHANGED <<tables, todo>> /\ wasEmpty' = EmptyTables
    BY <1>1 DEF Open, vars
  <2> QED BY <2>1, UnchangedKeeps DEF TodoInv
<1>2. CASE Seed
  BY <1>2, SeedKeeps
<1>3. CASE Connect
  <2>1. phase = "connect" /\ phase' = "warm" /\ UNCHANGED <<tables, todo>>
    BY <1>3 DEF Connect, dbVars
  <2> QED BY <2>1, UnchangedKeeps DEF TodoInv
<1>4. CASE Warm
  <2>1. phase = "warm" /\ phase' \in {"warm", "up"} /\ UNCHANGED todo
    BY <1>4 DEF Warm
  <2>2. UNCHANGED tables
    BY <1>4 DEF Warm, Refresh, RefreshFails, ReadVersion, ReadTable, ReadFails, Store, StoreFails, dbVars
  <2> QED BY <2>1, <2>2, UnchangedKeeps DEF TodoInv
<1>5. CASE Stop
  <2>1. phase' = "off" /\ todo' = {} /\ UNCHANGED tables
    BY <1>5 DEF Stop
  <2> QED BY <2>1, UnchangedKeeps DEF TodoInv
<1>6. CASE ExpireKey
  <2>1. UNCHANGED <<tables, phase, todo, wasEmpty>>
    BY <1>6 DEF ExpireKey, CacheExpires, dbVars, bootVars
  <2> QED BY <2>1, UnchangedKeeps DEF TodoInv
<1>7. CASE Serve
  <2>1. phase = "up" /\ UNCHANGED <<phase, todo>>
    BY <1>7 DEF Serve, Served, bootVars
  <2> QED BY <2>1 DEF TodoInv
<1>8. CASE UNCHANGED allVars
  <2>1. UNCHANGED <<tables, phase, todo, wasEmpty>>
    BY <1>8 DEF allVars, vars, bootVars
  <2> QED BY <2>1, UnchangedKeeps DEF TodoInv
<1> QED BY <1>1, <1>2, <1>3, <1>4, <1>5, <1>6, <1>7, <1>8 DEF BootNext, BootStep

(* A start inserts words and questions only if it found neither of them,    *)
(* connections only if it found none, and deletes nothing: Count looks at   *)
(* both tables before anything is inserted.                                 *)
THEOREM KeptCorrect == BootSpec => ContentIsKept
<1>1. BootInit => TodoInv
  BY DEF BootInit, TodoInv, Seeding, SeedingConnections
<1>2. ASSUME BootInv, TodoInv, [BootNext]_allVars
      PROVE  /\ TodoInv'
             /\ [phase # "up" =>
                   /\ \A t \in Table : tables[t] \subseteq tables'[t]
                   /\ tables'["connections"] # tables["connections"] => "connections" \in wasEmpty
                   /\ {"words", "questions"} \subseteq wasEmpty
                        \/ \A t \in {"words", "questions"} : tables'[t] = tables[t]]_allVars
  BY <1>2, StepKeeps DEF BootInv, BootTypeOK, Keeps
<1> QED BY <1>1, <1>2, BootCorrect, PTL DEF BootSpec, ContentIsKept

=============================================================================
